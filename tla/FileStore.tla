------------------------------- MODULE FileStore -------------------------------
(***************************************************************************)
(* FileHandlerService: files kept in memory, written to disk by a timer or *)
(* when memory is full.  Three dictionaries describe a file in memory (its *)
(* stream, its last access, whether it is dirty) and are changed one after *)
(* the other, with no lock, by requests and timer callbacks; one action is *)
(* what happens between two of their accesses or awaits.                   *)
(*                                                                         *)
(* A file's contents is the number of its upload.  Every file is one unit  *)
(* large.  The service keeps files in memory (UseMemoryCache); the index   *)
(* of file names is module FileIndex.                                      *)
(***************************************************************************)
EXTENDS Integers, Sequences, FiniteSets, SequencesExt

CONSTANTS
  Files,        \* file ids
  Requests,     \* threads that serve requests
  Timers,       \* callbacks of the flush timer, and the shutdown
  Limit,        \* MaxTotalMemoryCacheMB, in units
  DiskFails,    \* whether writing a file may fail
  Absent, Truncated, Disposed,   \* no file; an emptied file; a stream disposed of
  MaxUploads, MaxUsage   \* bounds of the model: uploads, and usages whose change may be lost

ASSUME FileAssumption ==
  /\ Limit \in Nat \ {0}
  /\ DiskFails \in BOOLEAN
  /\ MaxUploads \in Nat /\ MaxUsage \in Nat
  /\ Requests \cap Timers = {}
  /\ IsFiniteSet(Files) /\ Files # {}
  /\ {Absent, Truncated, Disposed} \cap Nat = {}
  /\ Absent # Truncated /\ Absent # Disposed /\ Truncated # Disposed
  /\ {Absent, Truncated, Disposed} \cap BOOLEAN = {}

Processes == Requests \cup Timers

VARIABLES
  disk,      \* the contents of each file on disk
  memory,    \* _memoryCache: the contents of the stream
  access,    \* _lastAccessTimes: the files in it, the least recent first
  dirty,     \* _dirtyFlags
  usage,     \* _currentMemoryUsage
  uploads,   \* uploads so far
  last,      \* what the last finished upload or delete left of each file
  failed,    \* the files whose last write to disk failed, for their last upload
  at,        \* where each process is
  job        \* its locals

vars == <<disk, memory, access, dirty, usage, uploads, last, failed, at, job>>

Contents == Nat \cup {Truncated}

\* file, new: the file and the contents of the request; todo, need: the files
\* still to evict or flush, and how many to evict; stream: the stream a flush is
\* writing; then, back: where to go on after an eviction, after a flush.
Job == [file : Files, new : Contents, todo : Seq(Files), need : Int, stream : Contents \cup {Disposed},
        then : {"put", "load", "idle"}, back : {"evict", "drop", "sweep", "stop"}]

Places == {"idle", "room", "evict", "drop", "forget", "put", "mark", "load", "keep",
           "remove", "erase", "unlink", "sweep", "age", "stop", "clear",
           "flush", "open", "write", "lost", "clean"}

FileTypeOK ==
  /\ disk \in [Files -> Contents \cup {Absent}]
  /\ memory \in [Files -> Contents \cup {Absent}]
  /\ access \in Seq(Files) /\ IsInjective(access)
  /\ dirty \in [Files -> BOOLEAN \cup {Absent}]
  /\ usage \in Int /\ uploads \in Nat
  /\ last \in [Files -> Nat \cup {Absent}] /\ failed \subseteq Files
  /\ at \in [Processes -> Places]
  /\ job \in [Processes -> Job]

IdleJob == [file |-> CHOOSE f \in Files : TRUE, new |-> 0, todo |-> <<>>,
            need |-> 0, stream |-> 0, then |-> "idle", back |-> "evict"]

Init ==
  /\ disk = [f \in Files |-> Absent]
  /\ memory = [f \in Files |-> Absent]
  /\ access = <<>>
  /\ dirty = [f \in Files |-> Absent]
  /\ usage = 0 /\ uploads = 0
  /\ last = [f \in Files |-> Absent] /\ failed = {}
  /\ at = [p \in Processes |-> "idle"]
  /\ job = [p \in Processes |-> IdleJob]

--------------------------------------------------------------------------------
Go(p, place) == at' = [at EXCEPT ![p] = place]

Done(p) == Go(p, "idle") /\ job' = [job EXCEPT ![p] = IdleJob]

\* What a download shows of a file.
Visible(f) == IF memory[f] # Absent THEN memory[f] ELSE disk[f]

\* The access times after `f` was forgotten, or used (and by mistake twice there).
Forgotten(f) == RemoveFirst(access, f)
TouchedTwice(f) == Append(access, f)
Touched(f) == Append(Forgotten(f), f)

\* _currentMemoryUsage += d is not atomic: of two at once one may be lost.
AddUsage(p, d) ==
  \/ usage' = usage + d
  \/ /\ usage \in 0..MaxUsage
     /\ \E q \in Processes \ {p} : at[q] \in {"mark", "keep", "drop", "remove"}
     /\ UNCHANGED usage

\* The file that p evicts or flushes, and whether it has f open.
InTurn(p) == IF job[p].back = "drop" THEN Head(job[p].todo) ELSE job[p].file

\* The stream of f is disposed of, for flushes of f too: one that has opened the
\* file may have begun to copy the stream, and then notices nothing.
Dispose(f, begun) ==
  [q \in Processes |->
     IF /\ at[q] = "open" \/ (at[q] \in {"write", "lost"} /\ ~begun)
        /\ InTurn(q) = f /\ job[q].stream = memory[f]
       THEN [job[q] EXCEPT !.stream = Disposed]
       ELSE job[q]]

\* The stream of f is read to its end.  A flush shares its Position: if it has
\* rewound the stream and has not begun to copy it, it finds nothing left to copy.
ReadOut(f, begun) ==
  [q \in Processes |->
     IF at[q] \in {"write", "lost"} /\ ~begun /\ InTurn(q) = f /\ job[q].stream = memory[f]
       THEN [job[q] EXCEPT !.stream = Truncated]
       ELSE job[q]]

Writes(p, f) == at[p] = "write" /\ InTurn(p) = f

BeingWritten(f) == \E p \in Processes : Writes(p, f)

\* UploadFileAsync: an existing file is refused unless it may be overwritten; it
\* exists if it is on disk.
Upload(p, f, overwrite) ==
  /\ at[p] = "idle"
  /\ uploads < MaxUploads
  /\ overwrite \/ disk[f] = Absent
  /\ uploads' = uploads + 1
  /\ job' = [job EXCEPT ![p] = [IdleJob EXCEPT !.file = f, !.new = uploads + 1,
               !.then = "put"]]
  /\ Go(p, "room")
  /\ UNCHANGED <<disk, memory, access, dirty, usage, last, failed>>

\* DownloadFileAsync: from memory (the shared stream is rewound and read to its
\* end), or from disk; a missing file is answered 404, one that is being written
\* (it is not shared) 500.
Download(p, f) ==
  /\ at[p] = "idle"
  /\ \/ /\ memory[f] # Absent
        /\ access' = Touched(f)
        /\ \E begun \in BOOLEAN : job' = ReadOut(f, begun)
        /\ UNCHANGED at
     \/ /\ memory[f] = Absent /\ disk[f] # Absent /\ ~BeingWritten(f)
        /\ job' = [job EXCEPT ![p] = [IdleJob EXCEPT !.file = f, !.new = disk[f],
                     !.then = "load"]]
        /\ Go(p, "room")
        /\ UNCHANGED access
  /\ UNCHANGED <<disk, memory, dirty, usage, uploads, last, failed>>

\* Room for one more, if the limit is not exceeded already.
RoomLate(p) ==
  /\ at[p] = "room"
  /\ IF usage > Limit
       THEN /\ job' = [job EXCEPT ![p].todo = access, ![p].need = usage - Limit]
            /\ Go(p, "evict")
       ELSE /\ Go(p, job[p].then)
            /\ UNCHANGED job
  /\ UNCHANGED <<disk, memory, access, dirty, usage, uploads, last, failed>>

\* Is there room for one more? FlushOldestFilesAsync evicts in order of access.
Room(p) ==
  /\ at[p] = "room"
  /\ IF usage + 1 > Limit
       THEN /\ job' = [job EXCEPT ![p].todo = access, ![p].need = usage + 1 - Limit]
            /\ Go(p, "evict")
       ELSE /\ Go(p, job[p].then)
            /\ UNCHANGED job
  /\ UNCHANGED <<disk, memory, access, dirty, usage, uploads, last, failed>>

\* The new stream, its access time, its flag and the usage.
Put(p) ==
  LET f == job[p].file
  IN  /\ at[p] \in {"put", "load"}
      /\ memory' = [memory EXCEPT ![f] = job[p].new]
      /\ Go(p, IF at[p] = "put" THEN "mark" ELSE "keep")
      /\ UNCHANGED <<disk, access, dirty, usage, uploads, last, failed, job>>

\* A flag that is never set.
FlagOfNone(place) == FALSE

\* What the file's flag becomes: an upload is dirty, a download is not.
FlagOf(place) == place = "mark"

Mark(p) ==
  LET f == job[p].file
  IN  /\ at[p] \in {"mark", "keep"}
      /\ access' = Touched(f)
      /\ dirty' = [dirty EXCEPT ![f] = FlagOf(at[p])]
      /\ AddUsage(p, 1)
      /\ IF at[p] = "mark"
           THEN last' = [last EXCEPT ![f] = job[p].new] /\ failed' = failed \ {f}
           ELSE UNCHANGED <<last, failed>>
      /\ Done(p)
      /\ UNCHANGED <<disk, memory, uploads>>

--------------------------------------------------------------------------------
\* DeleteFileAsync: out of memory,
Delete(p, f) ==
  /\ at[p] = "idle"
  /\ Go(p, "remove")
  /\ job' = [job EXCEPT ![p] = [IdleJob EXCEPT !.file = f]]
  /\ UNCHANGED <<disk, memory, access, dirty, usage, uploads, last, failed>>

Uncache(p) ==
  LET f == job[p].file
  IN  /\ at[p] = "remove"
      /\ \/ /\ memory[f] = Absent
            /\ Go(p, "unlink")
            /\ UNCHANGED <<memory, usage, job>>
         \/ /\ memory[f] # Absent
            /\ memory' = [memory EXCEPT ![f] = Absent]
            /\ AddUsage(p, -1)
            /\ \E begun \in BOOLEAN : job' = Dispose(f, begun)
            /\ Go(p, "erase")
      /\ UNCHANGED <<disk, access, dirty, uploads, last, failed>>

\* (a deletion that is done with a file it has found in memory)
EraseOnly(p) ==
  LET f == job[p].file
  IN  /\ at[p] = "erase"
      /\ access' = Forgotten(f)
      /\ dirty' = [dirty EXCEPT ![f] = Absent]
      /\ last' = [last EXCEPT ![f] = Absent]
      /\ Done(p)
      /\ UNCHANGED <<disk, memory, usage, uploads, failed>>

\* out of the other dictionaries,
Erase(p) ==
  LET f == job[p].file
  IN  /\ at[p] = "erase"
      /\ access' = Forgotten(f)
      /\ dirty' = [dirty EXCEPT ![f] = Absent]
      /\ Go(p, "unlink")
      /\ UNCHANGED <<disk, memory, usage, uploads, last, failed, job>>

\* and off the disk (of Linux): who writes the file goes on, but in vain.
Unlink(p) ==
  LET f == job[p].file
  IN  /\ at[p] = "unlink"
      /\ disk' = [disk EXCEPT ![f] = Absent]
      /\ last' = [last EXCEPT ![f] = Absent]
      /\ at' = [q \in Processes |-> IF q = p THEN "idle"
                                    ELSE IF Writes(q, f) THEN "lost" ELSE at[q]]
      /\ job' = [job EXCEPT ![p] = IdleJob]
      /\ UNCHANGED <<memory, access, dirty, usage, uploads, failed>>

--------------------------------------------------------------------------------
\* FlushMemoryCache: first the dirty files are flushed, ...
StartTimer(t) ==
  /\ at[t] = "idle"
  /\ \E order \in SetToSeqs({f \in Files : dirty[f] = TRUE}) :
       job' = [job EXCEPT ![t] = [IdleJob EXCEPT !.todo = order, !.back = "sweep"]]
  /\ Go(t, "sweep")
  /\ UNCHANGED <<disk, memory, access, dirty, usage, uploads, last, failed>>

\* (the next file to flush, for the timer and the shutdown)
TakeNext(p) == job' = [job EXCEPT ![p].file = Head(job[p].todo), ![p].todo = Tail(job[p].todo)]

Sweep(t) ==
  /\ at[t] = "sweep"
  /\ \/ job[t].todo = <<>> /\ Go(t, "age") /\ UNCHANGED job
     \/ job[t].todo # <<>> /\ Go(t, "flush") /\ TakeNext(t)
  /\ UNCHANGED <<disk, memory, access, dirty, usage, uploads, last, failed>>

\* ... then the files not used for a while are evicted.
Age(t) ==
  /\ at[t] = "age"
  /\ \E n \in 0..Len(access) :
       job' = [job EXCEPT ![t] = [IdleJob EXCEPT !.todo = SubSeq(access, 1, n), !.need = n]]
  /\ Go(t, "evict")
  /\ UNCHANGED <<disk, memory, access, dirty, usage, uploads, last, failed>>

\* The loops of FlushOldestFilesAsync and FlushMemoryCache: the first skips a
\* file that has left the memory; a dirty file is flushed first.
Evict(p) ==
  LET j == job[p]
      f == Head(j.todo)
  IN  /\ at[p] = "evict"
      /\ \/ /\ j.todo = <<>> \/ j.need <= 0
            /\ IF j.then = "idle" THEN Done(p) ELSE Go(p, j.then) /\ UNCHANGED job
         \/ /\ j.todo # <<>> /\ j.need > 0
            /\ p \in Requests /\ memory[f] = Absent
            /\ job' = [job EXCEPT ![p].todo = Tail(@)]
            /\ UNCHANGED at
         \/ /\ j.todo # <<>> /\ j.need > 0
            /\ p \in Timers \/ memory[f] # Absent
            /\ job' = [job EXCEPT ![p].back = "drop"]
            /\ Go(p, IF dirty[f] = TRUE THEN "flush" ELSE "drop")
      /\ UNCHANGED <<disk, memory, access, dirty, usage, uploads, last, failed>>

\* TryRemove of the stream, and the usage.
Drop(p) ==
  LET f == Head(job[p].todo)
  IN  /\ at[p] = "drop"
      /\ \/ /\ memory[f] = Absent
            /\ UNCHANGED <<memory, usage, job>>
         \/ /\ memory[f] # Absent
            /\ memory' = [memory EXCEPT ![f] = Absent]
            /\ AddUsage(p, -1)
            /\ \E begun \in BOOLEAN : job' = [Dispose(f, begun) EXCEPT ![p].need = @ - 1]
      /\ Go(p, "forget")
      /\ UNCHANGED <<disk, access, dirty, uploads, last, failed>>

\* TryRemove from the other dictionaries.
Forget(p) ==
  LET f == Head(job[p].todo)
  IN  /\ at[p] = "forget"
      /\ access' = Forgotten(f)
      /\ dirty' = [dirty EXCEPT ![f] = Absent]
      /\ job' = [job EXCEPT ![p].todo = Tail(@)]
      /\ Go(p, "evict")
      /\ UNCHANGED <<disk, memory, usage, uploads, last, failed>>

--------------------------------------------------------------------------------
\* FlushFileToDiskAsync of the file in turn: nothing unless it is dirty.
Flush(p) ==
  LET f == InTurn(p)
  IN  /\ at[p] = "flush"
      /\ IF memory[f] # Absent /\ dirty[f] = TRUE
           THEN Go(p, "open") /\ job' = [job EXCEPT ![p].stream = memory[f]]
           ELSE Go(p, job[p].back) /\ UNCHANGED job
      /\ UNCHANGED <<disk, memory, access, dirty, usage, uploads, last, failed>>

\* FileMode.Create empties the file, or fails: also if the file is not shared.
Open(p) ==
  /\ at[p] = "open"
  /\ \/ /\ ~BeingWritten(InTurn(p))
        /\ disk' = [disk EXCEPT ![InTurn(p)] = Truncated]
        /\ Go(p, "write")
        /\ UNCHANGED failed
     \/ /\ DiskFails \/ BeingWritten(InTurn(p))
        /\ failed' = failed \cup {InTurn(p)}
        /\ Go(p, job[p].back)
        /\ UNCHANGED disk
  /\ UNCHANGED <<memory, access, dirty, usage, uploads, last, job>>

\* The copy of the stream reaches the disk, or fails: one disposed of throws.
Written(p) ==
  /\ job[p].stream # Disposed
  /\ IF at[p] = "write"
       THEN /\ disk' = [disk EXCEPT ![InTurn(p)] = job[p].stream]
            /\ failed' = failed \ {InTurn(p)}
       ELSE UNCHANGED <<disk, failed>>

NotWritten(p) ==
  /\ job[p].stream = Disposed \/ DiskFails
  /\ failed' = failed \cup {InTurn(p)}
  /\ UNCHANGED disk

\* (the stream is of no more use to the flush)
Closed(p) == job' = [job EXCEPT ![p].stream = 0]

\* A write that clears the flag even if it throws.
WriteOutAnyway(p) ==
  /\ at[p] \in {"write", "lost"}
  /\ Written(p) \/ NotWritten(p)
  /\ Go(p, "clean")
  /\ Closed(p)
  /\ UNCHANGED <<memory, access, dirty, usage, uploads, last>>

\* The stream is copied.
WriteOut(p) ==
  /\ at[p] \in {"write", "lost"}
  /\ \/ Written(p) /\ Go(p, "clean")
     \/ NotWritten(p) /\ Go(p, job[p].back)
  /\ Closed(p)
  /\ UNCHANGED <<memory, access, dirty, usage, uploads, last>>

\* The flag is set, whatever is in memory by now.
Clean(p) ==
  /\ at[p] = "clean"
  /\ dirty' = [dirty EXCEPT ![InTurn(p)] = FALSE]
  /\ Go(p, job[p].back)
  /\ UNCHANGED <<disk, memory, access, usage, uploads, last, failed, job>>

--------------------------------------------------------------------------------
\* Dispose, when the host has stopped serving: FlushAllAsync flushes the files
\* in memory, and then everything in memory is gone.
Shutdown(t) ==
  /\ at[t] = "idle"
  /\ \A r \in Requests : at[r] = "idle"
  /\ \E order \in SetToSeqs({f \in Files : memory[f] # Absent}) :
       job' = [job EXCEPT ![t] = [IdleJob EXCEPT !.todo = order, !.back = "stop"]]
  /\ Go(t, "stop")
  /\ UNCHANGED <<disk, memory, access, dirty, usage, uploads, last, failed>>

Stopping == \E t \in Timers : at[t] \in {"stop", "clear"} \/ (at[t] # "idle" /\ job[t].back = "stop")

Stop(t) ==
  /\ at[t] = "stop"
  /\ \/ job[t].todo = <<>> /\ Go(t, "clear") /\ UNCHANGED job
     \/ job[t].todo # <<>> /\ Go(t, "flush") /\ TakeNext(t)
  /\ UNCHANGED <<disk, memory, access, dirty, usage, uploads, last, failed>>

\* The process ends; the next one starts with nothing in memory.
Restart(t) ==
  /\ at[t] = "clear"
  /\ memory' = [f \in Files |-> Absent]
  /\ access' = <<>>
  /\ dirty' = [f \in Files |-> Absent]
  /\ usage' = 0
  /\ at' = [p \in Processes |-> "idle"]
  /\ job' = [p \in Processes |-> IdleJob]
  /\ UNCHANGED <<disk, uploads, last, failed>>

--------------------------------------------------------------------------------
RequestStep(p) ==
  \/ /\ ~Stopping
     /\ \E f \in Files : Download(p, f) \/ Delete(p, f)
                         \/ \E overwrite \in BOOLEAN : Upload(p, f, overwrite)
  \/ Room(p) \/ Put(p) \/ Mark(p) \/ Uncache(p) \/ Erase(p) \/ Unlink(p)

TimerStep(t) ==
  \/ StartTimer(t) \/ Sweep(t) \/ Age(t) \/ Shutdown(t) \/ Stop(t) \/ Restart(t)

FlushStep(p) ==
  \/ Evict(p) \/ Drop(p) \/ Forget(p) \/ Flush(p) \/ Open(p) \/ WriteOut(p) \/ Clean(p)

Next ==
  \/ \E p \in Requests : RequestStep(p)
  \/ \E t \in Timers : TimerStep(t)
  \/ \E p \in Processes : FlushStep(p)

Spec == Init /\ [][Next]_vars

--------------------------------------------------------------------------------
Quiet == \A p \in Processes : at[p] = "idle"
================================================================================
