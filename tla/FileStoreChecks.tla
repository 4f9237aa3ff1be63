---------------------------- MODULE FileStoreChecks ----------------------------
(***************************************************************************)
(* FileStore and an observer of its overlaps.  FileStore has no lock: two  *)
(* operations on one file can spoil it, and so can a download that reads   *)
(* the stream a flush has rewound and not yet copied.  What is promised    *)
(* here is that nothing else does: operations on other files, other        *)
(* downloads, evictions, flushes, restarts, and a disk that fails.         *)
(***************************************************************************)
EXTENDS FileStore

VARIABLES
  crossed,     \* the files on which two operations have overlapped, or that
               \* a download has read between a flush's rewinding and copying
  overlapped   \* whether any two operations have

cvars == <<vars, crossed, overlapped>>

\* An operation on f is under way: what it has read or changed of f so far may
\* be stale, or incomplete.
OnFile(p, f) ==
  \/ at[p] \in {"room", "put", "mark", "load", "keep", "remove", "erase", "unlink"} /\ job[p].file = f
  \/ at[p] = "evict" /\ job[p].then # "idle" /\ job[p].file = f
  \/ at[p] \in {"drop", "forget"} /\ (Head(job[p].todo) = f \/ (job[p].then # "idle" /\ job[p].file = f))
  \/ at[p] \in {"flush", "open", "write", "lost", "clean"}
       /\ (InTurn(p) = f \/ (job[p].then # "idle" /\ job[p].file = f))

TwoOf(P(_)) == \E p, q \in Processes : p # q /\ P(p) /\ P(q)

\* Another operation takes the stream of f from under a flush of f.
StreamTaken(f) ==
  \E q \in Processes :
    /\ at[q] \in {"write", "lost"} /\ at'[q] = at[q] /\ InTurn(q) = f
    /\ job'[q].stream # job[q].stream

Observe ==
  /\ crossed' = crossed \cup {f \in Files : TwoOf(LAMBDA p : OnFile(p, f)) \/ StreamTaken(f)}
  /\ overlapped' = (overlapped \/ TwoOf(LAMBDA p : at[p] # "idle"))

ChecksInit == Init /\ crossed = {} /\ overlapped = FALSE

ChecksSpec == ChecksInit /\ [][Next /\ Observe]_cvars

--------------------------------------------------------------------------------
\* A file shows its last upload, through evictions, flushes and restarts and
\* whatever happens to other files, unless it could not be written, or an operation
\* or a download met another or a flush on it.
UploadsKept ==
  Quiet => \A f \in Files \ (failed \cup crossed) : last[f] # Absent => Visible(f) = last[f]

\* A deleted file stays deleted.
DeletesFinal ==
  Quiet => \A f \in Files \ crossed : last[f] = Absent => Visible(f) = Absent

\* A file in memory that is not dirty has its contents on disk, so that it may
\* be evicted ("Not dirty since we just loaded from disk", "Mark as not dirty"),
\* unless an upload or a download met a flush on it.
CleanUnlessCrossed ==
  Quiet => \A f \in Files \ crossed :
    memory[f] # Absent /\ dirty[f] # TRUE => disk[f] = memory[f]

\* "Maximum size of all files to keep in memory" (MaxTotalMemoryCacheMB): the
\* usage that is counted, through replaced and failed files, suffices to keep to it.
CacheLimit ==
  Quiet /\ ~overlapped => Cardinality({f \in Files : memory[f] # Absent}) <= Limit

--------------------------------------------------------------------------------
\* The inductive invariant.  First, where a process is says what its locals are:
\* which places are of requests, what they go on to, and what is in turn.
Flushing == {"flush", "open", "write", "lost", "clean"}
Evicting == Flushing \cup {"drop", "forget"}

PlaceFine(p) ==
  /\ at[p] \in {"room", "put", "mark", "load", "keep", "remove", "erase", "unlink"} => p \in Requests
  /\ at[p] \in {"sweep", "age", "stop", "clear"} => p \in Timers
  /\ job[p].then # "idle" => p \in Requests /\ at[p] # "idle"
  /\ at[p] \in Evicting \cup {"evict", "room"} /\ p \in Requests => job[p].then # "idle"
  /\ at[p] \in {"remove", "erase", "unlink"} => job[p].then = "idle"
  /\ at[p] \in {"put", "mark"} => job[p].then = "put"
  /\ at[p] \in {"load", "keep"} => job[p].then = "load"
  /\ job[p].then = "put" => job[p].new \in Nat
  /\ at[p] \in Evicting =>
       /\ job[p].back # "evict" /\ (job[p].back = "drop" => job[p].todo # <<>>)
       /\ job[p].back # "drop" => p \in Timers /\ at[p] \in Flushing
  /\ at[p] \in {"sweep", "age"} => job[p].back = "sweep"
  /\ at[p] \in {"room", "evict"} => job[p].back \in {"evict", "drop"}
  /\ at[p] \in {"stop", "clear"} => job[p].back = "stop"
  /\ at[p] = "clear" => job[p].todo = <<>>
  /\ at[p] = "lost" => InTurn(p) \in crossed

PlaceInv == \A p \in Processes : PlaceFine(p)

\* No two operations have overlapped on f, nor any two operations at all.
Alone(f) == f \notin crossed /\ ~TwoOf(LAMBDA p : OnFile(p, f))
Single == ~overlapped /\ ~TwoOf(LAMBDA p : at[p] # "idle")

\* What holds of a file no operation has made incomplete, ...
Shown(f) ==
  /\ last[f] = Absent => memory[f] = Absent /\ disk[f] = Absent
  /\ last[f] # Absent /\ f \notin failed => Visible(f) = last[f]

Settled(f) ==
  /\ Shown(f)
  /\ dirty[f] = TRUE => memory[f] = last[f] /\ memory[f] # Absent
  /\ memory[f] # Absent /\ dirty[f] # TRUE => disk[f] = memory[f]

\* ... and what each stage of an operation, or of an eviction, has made of it.
Working(p, f) ==
  /\ at[p] = "mark" => memory[f] = job[p].new
  /\ at[p] = "erase" => memory[f] = Absent
  /\ at[p] = "unlink" => memory[f] = Absent /\ dirty[f] # TRUE
  /\ at[p] = "keep" => memory[f] = disk[f] /\ dirty[f] # TRUE
  /\ job[p].then = "load" /\ job[p].file = f /\ at[p] # "keep" =>
       memory[f] = Absent /\ disk[f] = job[p].new /\ dirty[f] # TRUE
  /\ at[p] \in Evicting /\ InTurn(p) = f =>
       /\ at[p] \in {"open", "write"} => dirty[f] = TRUE /\ job[p].stream = memory[f]
       /\ at[p] = "clean" => dirty[f] = TRUE /\ disk[f] = memory[f]
       /\ at[p] = "drop" => dirty[f] # TRUE \/ f \in failed
       /\ at[p] = "forget" => memory[f] = Absent /\ Shown(f) /\ (dirty[f] # TRUE \/ f \in failed)
       /\ job[p].then = "load" => job[p].file # f
  /\ \/ at[p] \in {"mark", "erase", "unlink"}
     \/ at[p] = "forget" /\ InTurn(p) = f
     \/ Settled(f)

FileFine(f) ==
  \/ Settled(f) /\ \A p \in Processes : ~OnFile(p, f)
  \/ \E p \in Processes : OnFile(p, f) /\ Working(p, f)

FileInv == \A f \in Files : Alone(f) => FileFine(f)

\* A shutdown has no request under way, and has written a file, is about to, or
\* has failed to.
Owed(t, f) ==
  dirty[f] = TRUE =>
    \/ f \in failed
    \/ f \in Range(job[t].todo)
    \/ at[t] \in {"flush", "open", "write"} /\ job[t].file = f
    \/ \E p \in Processes : at[p] = "clean" /\ InTurn(p) = f

StopsFine(t) ==
  /\ \A r \in Requests : at[r] = "idle"
  /\ at[t] \in {"stop", "clear"} \cup Flushing
  /\ \A f \in Files : Alone(f) => Owed(t, f)

StopInv == \A t \in Timers : at[t] # "idle" /\ job[t].back = "stop" => StopsFine(t)

\* Operations that do not overlap count every file in memory, and know of it.
InMemory == {f \in Files : memory[f] # Absent}

CountFine(p) ==
  /\ at[p] \in {"put", "load"} => usage + 1 <= Limit \/ InMemory = {}
  /\ at[p] \in Evicting \cup {"evict"} /\ job[p].then # "idle" =>
       job[p].need = usage + 1 - Limit /\ InMemory \subseteq Range(job[p].todo)
  /\ at[p] = "erase" => memory[job[p].file] = Absent
  /\ at[p] = "forget" => memory[Head(job[p].todo)] = Absent

Uncounted(p) == at[p] \in {"mark", "keep"}

CacheFine ==
  /\ Cardinality(InMemory) <= Limit
  /\ Cardinality(InMemory) <= usage + (IF \E p \in Processes : Uncounted(p) THEN 1 ELSE 0)
  /\ \A f \in InMemory : f \in Range(access) \/ \E p \in Processes : Uncounted(p) /\ job[p].file = f
  /\ \A p \in Processes : CountFine(p)

CacheInv == Single => CacheFine

\* What keeps the four promises above, whatever the number of requests, timers
\* and files: every stage of an operation, of an eviction and of a flush leaves
\* its file, its queue and the counted usage as the next stage expects them.
ServiceInv == FileTypeOK /\ PlaceInv /\ FileInv /\ StopInv /\ CacheInv
================================================================================
