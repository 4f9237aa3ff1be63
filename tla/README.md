# PortwayAPI in TLA+

A verification development for PortwayAPI, the ASP.NET gateway under
`src/Source/PortwayApi`, and its console tool `src/Source/Tools/TokenGenerator`.
It consists of TLA+ modules translated from the C# code, TLC configurations that check
them on small instances, and TLAPS proofs of the invariants that matter most for
every value of the constants. `PROJECT.json` maps each definition to the lines it
models and lists the runs, mutants, findings, hazards and theorems.

Parse a module with SANY, check a run with `tlc -config <run>.cfg <module>`, and check
proofs with `tlapm <module>_proofs.tla`.

## 1. Inventory

| Component | State | Operations | What is hard |
|---|---|---|---|
| Rate limiter (`RateLimitingMiddleware.cs`) | `_buckets`, `_blockedIps`, `_blockedTokens` (concurrent dictionaries) | `InvokeAsync` per request; refill on every read | read, test and write of a block are three accesses; refills in header reads; back-off in 32 bits |
| Token store (`TokenService.cs`, TokenGenerator `Program.cs`) | rows of `Tokens` (SQLite), one file per user name | generate, revoke, rotate, change scopes, environments, expiry | several consoles with tracked entities, a kill between the row and the file |
| Token authentication (`TokenAuthMiddleware.cs`) | locals of a request, cached licence | verify, details, free-mode check, access check | each check is its own query while the store changes |
| Cache locks (`RedisCacheProvider.cs`, `MemoryCacheProvider.cs`, `CacheManager.cs`) | lease per key in Redis, semaphore per key and process, connection flags | acquire, wait, time out, fall back, release | leases expire under their holder, replies are lost, two kinds of lock for one key |
| Proxy cache (`EndpointController.HandleProxyRequest`) | cache entries per store | look up, lock, look up again, fetch, store | overlapping misses, exits that must give the lock back, what the key leaves out |
| File store (`FileServiceHandler.cs`) | memory streams, access times, dirty flags, usage, the disk | upload, download, delete, timer flush, eviction, shutdown | no lock at all; a flush awaits between reading a stream and clearing its flag |
| File index (same file) | `_environmentIndices`, the cached index, `_indexLock`, refresh timer | list, update, refresh | a lock taken twice on one path; rebuilds that drop memory-only files; a cache that hands out its own object |
| Licence service (`Services/Licensing`) | licence files, the copies of `LicenseService` and `LicenseManager` | load, activate, save, clean up, periodic check | what is saved must load after a restart; the process may end between save and clean-up |
| Traffic logger (`ProxyTrafficLoggerMiddleware.cs`) | bounded channel, batch, log files and their counted size | enqueue, write batch, roll over, flush at the end | an exception ends the writer for good; a full queue drops silently |
| Documentation site (`.vitepress/config.ts`) | the page a reader is at | follow a link, go back | the menus name pages that nothing checks |
| Composite endpoints, endpoint registry | static dictionaries, step results | sequential steps, lazy load | partial failure |
| Health checks, SQL pool service | cached report, timers | check, refresh, prune | check outside the semaphore, overlapping timers |
| URL validation, OData, XML, OpenAPI, settings, start-up | none shared between requests | pure functions and I/O | string handling |

Interactions. A request passes the pipeline of `Program.cs`: limiter, authentication,
endpoint. The limiter and the authentication both verify the token in the database that
the console writes from another process. The proxy calls `CacheManager`, whose provider
(Redis with memory inside it, or memory) is chosen at construction, and the
`HttpClient` of the backend. The file endpoints call the file store, which calls its
index. Timers call the file store, the index, the SQL pool and the licence check.

What makes each correct:

- limiter: no interval grants more than a bucket and its refill; blocks expire; an
  announced block is honoured;
- tokens: a revoked token never comes back, is never let in by a request that arrives
  later, and a file of it remains only where its deletion failed or was overtaken; files
  stay with their owner;
- locks: one holder per key; a lease is given back by its holder only; semaphores are
  given back exactly once;
- proxy cache: answers go only to the caller and the URL they were fetched for; one
  fetch per miss; every request is answered;
- files: an upload is kept through evictions, flushes and restarts; a delete is final;
  memory stays within its limit;
- index: a listing shows no file that is gone and misses none that is there, but for what
  happened behind its back; no operation waits for a semaphore it has;
- licence: no licence is lost, an expired one ends in time, a saved one that can be read
  needs no server;
- traffic log: in order, nothing twice, nothing missing without a reason;
- documentation: no menu link is dead, and the pages of a section are beside each other.

## 2. Modules

| Module | Models | Extends |
|---|---|---|
| `TokenBucket` | `TokenBucket` of the limiter; a bucket counts in units of 1/window token, so that refilling is exact in integers | |
| `BlockBackoff` | `CreateBlockInfo`, `UpdateBlockInfo` with 32-bit arithmetic | |
| `RateLimiter` | `InvokeAsync`, one action per access to a shared dictionary | `TokenBucket`, `BlockBackoff` |
| `RateLimiterWindow` | `RateLimiter` and an observer of an interval that starts at any instant | `RateLimiter` |
| `RateLimiter_proofs` | theorems | `RateLimiterWindow` |
| `TokenStore` | rows, files, consoles with tracked rows, kills between two steps, the server that creates the default token | |
| `TokenStoreChecks` | `TokenStore` and an observer of the revocations that cannot delete what they should | `TokenStore` |
| `TokenAuth` | the checks of a request, each its own query, over `TokenStore` | `TokenStore` |
| `TokenAuthChecks` | `TokenAuth` and an observer of what held at some instant of a request | `TokenAuth` |
| `TokenAuth_proofs` | theorems of the store, and of the authentication on top of them | `TokenAuthChecks`, `TokenStoreChecks` |
| `Mutex` | abstract specification: per name, at most one holder | |
| `CacheLock` | the locks of `RedisCacheProvider` and `MemoryCacheProvider`, with Redis | instantiates `Mutex` |
| `ProxyCache` | `HandleProxyRequest` for GET, composed with the locks | `CacheLock` |
| `ProxyCache_proofs` | theorems of the locks, and of the proxy cache on top of them | `ProxyCache` |
| `FileStore` | upload, download, delete, flush, eviction, shutdown, over a disk | |
| `FileStoreChecks` | `FileStore`, an observer of overlapping operations, and the inductive invariant | `FileStore` |
| `FileStore_proofs` | theorems | `FileStoreChecks` |
| `FileIndex` | `FileSystemIndex`: listings, updates, refreshes, over each kind of cache, and what the file store does behind it | |
| `FileIndexChecks` | `FileIndex` and an observer of overlaps, of files that came or went behind the index, and of indexes left by an earlier process | `FileIndex` |
| `FileIndex_proofs` | theorems | `FileIndexChecks` |
| `License` | start, activation, periodic check, ends of the process at any step | |
| `License_proofs` | theorems | `License` |
| `Journal` | abstract specification: entries go one way, one place at a time, and in turn | |
| `TrafficLog` | the channel, the background service, the files it writes | instantiates `Journal` |
| `TrafficLog_proofs` | theorems | `TrafficLog` |
| `DocsSite` | the menus of the documentation and a reader who follows them | |
| `DocsSite_proofs` | theorems | `MCDocsSite` |
| `MC*` | what TLC needs: symmetry sets, functions given as constants, the bound of `FileStoreOverlaps` | the module named |

How state and actions correspond:

- `RateLimiter`: `pc[r]` is where a request is in `InvokeAsync`, `req[r]` its locals
  (address, token, the clock read at entry, the block read at the fast check). A bucket
  locks itself, so `TryConsume` is one step; every dictionary access is a step of its
  own. `Tick` is the clock.
- `TokenStore`: `tokens` are the rows, `files` the files by user name; a console at
  `confirm` holds a tracked row that may be stale, and saves modified columns only
  (`Column`). `Abandon` is a declined confirmation, or the end of the process or a failure
  between the database and the file. `TokenStoreChecks` adds `escaped`: the revoked tokens
  that were in a file, or about to be written into one, when their revocation ended
  without taking them out of it.
- `TokenAuth`: a request stores what each query returned and uses it in later checks,
  as the code does; `LicenseChanges` is the cached licence, replaced at any time.
- `CacheLock`: `at[r]` is where a request is in `AcquireLockAsync`; `lease` is the Redis
  value of the key (`Orphan` when its holder never learnt of it), `semaphore` the count
  per process and key. `LeaseExpires` may happen at any time, since the lease of thirty
  seconds is not extended and the backend has no such bound. `Semaphores` maps the
  memory locks to `Mutex`.
- `ProxyCache`: one action per call of the handler that may wait. `Reach` says which
  store an access reaches: memory, Redis, the fallback, or an exception.
- `FileStore`: one action per dictionary access or await; the locals of an operation are
  its `job`. `Open` truncates the file (`FileMode.Create`) and fails on a file that is
  open (it is not shared); `WriteOut` is the awaited copy; `Clean` clears the flag of
  whatever is in memory by then. A download from memory moves the `Position` of the stream
  it shares with a flush (`ReadOut`): between the rewinding and the first read of the copy it
  leaves the flush nothing to copy (`Truncated`); two flushes of one stream are taken not to
  disturb each other. `failed` and `last` are history: files whose last write failed, and
  what the last finished upload or delete left.
- `FileIndex`: one action per stretch between two awaits of `GetDirectoryIndexAsync` and
  `UpdateIndexAsync`. `nested` marks the call that an update makes with the semaphore in
  its hands. The memory cache hands out the dictionary it was given, so that a change of
  `index` changes `cached` as well (`Changed`); Redis hands out copies and outlives the
  process. Of the storage the module keeps which files are in memory and on disk, and
  lets it change as `FileHandlerService` does without telling the index: a flush creates
  the file without looking again (`FlushOpen`) and keeps a failure to itself, a file is
  evicted whether or not it was written, a download keeps in memory what it began to read
  before a deletion, and writes, deletions and listings fail (`Write`, `DeleteFails`,
  `CheckFails`). The observer notes what comes and goes that way (`unlisted`, `lost`) until
  the index is told of it, by a rebuild or an update.
- `License`: `at` is where the start is, `todo` the files still to try. A licence is known
  by its key; `masked` says that the key in a file is the masked one, and `Verified` is
  the signature test over what the file says. Which licences the server signs in the
  masked form is not in the repository and is the constant `MaskedKeys`. The search for
  files may stop half-way (`Found`) and a file may not be readable (`Load`), both of which
  the code only logs; `unread` says that this start missed the `.license-key` there is. A tick is one
  firing of the six-hour timer; `Check` and `NoCheck` overlap, since a timer is not exact.
- `TrafficLog`: `queue` is the channel, `batch` the list the service has read into, `files`
  the contents of each file by the second in its name. A clean-up deletes the newest of
  the old files first and stops at one it cannot delete (`Cleaned`). `dropped`, `lost`,
  `deleted`, `failed`, `uncleaned` and `miscounted` are history: the last two say that a
  clean-up failed, and which files a rollover came back to or were written to after a failure. `Place` maps the state to the places of `Journal`,
  the abstract log that `TrafficLog` is shown to implement.
- `DocsSite`: the operators are the lists of `config.ts`; `MCDocsSite` holds the pages that
  exist.

Abstractions: strings are model values; `path` in `ProxyCache` stands for the remaining
path, query and language, `caller` for the hash of the Authorization header; scopes and
environments are sets of names (no wildcards); a file is one unit large and its contents
the number of its upload; a log entry is one unit large and its contents the number of
its request; an index entry is its name; hashing and formatting are left out.

## 3. Runs

| Run | Instance | Shows |
|---|---|---|
| `RateLimiterWindow` | 2 requests, 1 address, 1 token, 4 instants, windows of 2 s, limits 2 and 1 | buckets never over-fill, blocks expire, `ConsecutiveBlocks` is bounded by the requests in flight, an interval that starts at any instant grants at most a bucket and its refill |
| `TokenStoreConsoles` | 2 consoles, a server, 2 users, 2 tokens | with overlaps, kills and failing files: files stay with their owner, revocation is final, and a file holds a revoked token only if a revocation failed to delete it or a console had the token in hand |
| `TokenAuthChecks` | 1 console, 1 request, 1 user, 2 instants | a token revoked before a request arrived never passes; each passed check held at an instant of the request |
| `CacheLockRedis` | 2 servers, 3 requests, 1 key, Redis that fails | semaphores balance and implement `Mutex`; no request gives back another's lease |
| `ProxyCacheGets` | 1 server, 2 requests, 2 callers, Redis that fails, or memory | answers stay with their caller; every exit gives the handle back; one fetch per miss on memory |
| `ProxyCacheAnswers` | 1 server, 2 requests, 1 key, Redis that fails | every request is answered |
| `FileStoreOverlaps` | 2 files, 1 request thread and the timer, memory for one file, disk that fails | a file on which no two operations meet, and no download meets a flush, keeps its last upload through evictions, flushes, restarts and activity on other files; deletes are final; clean means stored; memory keeps to its limit |
| `FileIndexListings` | 1 environment, 2 names, 1 request, the refresh timer, all three caches, flushes, evictions and downloads behind them, reads, writes and deletions that fail | a listing shows no file that is gone but one evicted after a failed flush, and misses none but those that came behind the index or were in memory only when it was rebuilt; who has the semaphore waits for it in one case only, the first update of an environment |
| `LicenseStarts` | 2 key files, 3 licences (one that expires, one that does not, one of the community), 4 ticks | no licence is lost wherever the process ends; an expired one ends by the second tick; the two copies agree; a saved one that the start gets to read and whose masked form is signed needs no server; every start ends, with reads and the search failing |
| `TrafficLogFiles` | 5 requests, queue and batch of 2, files of 3 units, `MaxFileCount` 1, 3 seconds | the log is in order and has nothing twice; what is missing has a named reason; entries move one way and in turn, so that the service implements `Journal`; there is one file more than `MaxFileCount` at most unless a clean-up failed, and files keep to their size; no entry stays in the queue |
| `DocsSiteMenus` | all pages of the site, a history of 3 | no menu link is dead; beside each page are the others of its directory, but the page of the plug-ins; all pages are at most two links away |

One run ends in a counterexample (`findings` quotes the line):

| Run | What happens |
|---|---|
| `FileIndexFirstUpload` | the first upload in an environment that this process has not listed, and that the cache does not know, waits for the semaphore it has: neither it nor any later update ends, and a listing that misses the cache waits with it. Weak fairness of every step and strong fairness of the semaphore do not help |

Bounds. Races of the dictionaries take two requests: one that has read, one that writes.
Four instants let a window pass, a block expire, and another follow. Two consoles are one
that holds a stale row and one that changes it; the second user is whose file could be
taken by mistake. Two servers have semaphores that do not know of each other and one
Redis. In the file store two files are the one that is used and the one evicted for it,
two uploads are the contents in memory and those being written; `MaxUsage` bounds the
usages from which an update may be lost, as lost updates drift without end. A behaviour is
followed until operations have met on both files (`OneUncrossed`): after that nothing is
promised of either, and what `ServiceInv` says of types and places is proved. Environments
share nothing in the index but the semaphore; one request and the timer are enough for one
to hold it while the other waits, and the theorems cover any number (a second request makes
the run too long, as every flush, eviction and download may come between any two steps). Three licences are the kinds the code
tells apart, and four ticks let one be granted, expire, and be found expired after a check
in vain. In the traffic log five requests fill the queue, a batch and a file with one to
drop, and three seconds allow two rollovers. Symmetry is
used only for interchangeable request threads and files, and never with liveness.
`CHECK_DEADLOCK FALSE` is used only
for the token store, which has nothing left to do once its tokens are issued and revoked and
the clock has reached its bound.

Fairness. `ProxyCacheAnswers` assumes weak fairness of `Serve(r)`, the steps of a request
under way: waits for a lease or semaphore time out after ten seconds, the HTTP client has
a timeout, and the thread pool runs continuations. `LicenseStarts` assumes it of the steps
of a start (the request to the server times out after thirty seconds), `TrafficLogFiles`
of the thread of the background service, and `FileIndexFirstUpload` of each step, with
strong fairness of the wait for the semaphore, which lets every waiter in at last. Nothing
is assumed of arriving requests, Redis, the expiry of leases, the clock, the refresh timer,
crashes, stops or restarts.

## 4. Proofs

Each proof module states an inductive invariant, proves that it holds initially and is
preserved by every action (a step per action), and derives the properties from it.

- `RateLimiter_proofs`: `IndInv` adds to the type invariant that a request at a token
  stage has a token, that what requests remember is not from the future (a block is
  computed from the request's entry time), and `CountInv`: the refusals a block has
  counted and the requests past its check together never exceed the requests there are.
  The last is why `ConsecutiveBlocks` does not count violations over time. From it:
  `TypeCorrect`, `BucketsBounded`, `BlocksAlwaysExpire`, `CountBounded`; and
  `IntervalBound`, from the observer's invariant `WindowInv`: grants since the start of the interval
  plus what is left in the bucket never exceed a bucket and the refill.
- `TokenAuth_proofs`, of the store: `StoreInductive`, `FilesAlwaysOwned`, and the action
  property `RevocationIsFinal`: a console saves modified columns only, and no operation
  modifies the revocation of a row except to set it. `RevokedFilesGone` holds for any
  number of consoles that overlap, fail and are killed: a revoked token is in the file of
  its user, or on the way there, only while a revocation of that user is under way or
  because it has escaped one (`Watched`, which is `EscapedInv` token by token); what a
  console reads from a file and writes back brings in none that was not there.
- `TokenAuth_proofs`, of the authentication: `ChecksInductive` for store, requests and
  observer together; `RevokedAlwaysOut`, `ChecksAlwaysHeld`.
- `ProxyCache_proofs`, of the locks: `LocksInductive`; `SemaphoresBalanced`; the action
  property `LeasesKept`; and `SemaphoresImplementMutex`, that the memory locks implement
  `Mutex` step by step.
- `ProxyCache_proofs`, of the cache: every step of the proxy is a step of the locks or leaves them as
  they are, so that `LockInv` carries over; on top of it what a request has at each place
  of the handler gives `ProxyTypeCorrect`, `NoLockKept`, `AnswersOfCaller` (every entry of
  every store was fetched for the caller in its key), and `OneFetch` (on memory, who
  fetches has the semaphore of the key).
- `FileIndex_proofs`: `IndexInv` adds to the types who has the semaphore and where
  (`LockInv`), which files operations have met on (`CrossInv`), that a disabled cache is
  empty (`DisabledInv`), that an upload which nothing has crossed finds its file, or it was
  lost meanwhile, and a deletion finds nothing, or what came back meanwhile (`FlightInv`),
  what an update carries to its store (`FoundInv`), and what index, cache and an index
  about to be put then tell (`ContentInv`): only files that are there or were lost
  (`Held`), and every file that is there and did not come behind the index (`Owed`). From
  it `NoGhosts` and `UploadsSeen`, for any number of requests, with flushes that fail or
  end after a deletion; and `OnlyFirstUpdateWaits`: the deadlock of the counterexample is
  the only one of its kind.
- `FileStore_proofs`: `ServiceInv` (stated in `FileStoreChecks`) has, next to the types,
  four parts. `PlaceInv` says what the locals of a process are at each place. `FileInv`
  says of every file on which no two operations have met what the one at work on it has
  made of it so far: between the two accesses of an upload the contents are in memory and
  not flagged, between the copy and the cleared flag they are on the disk and flagged, and so on
  (`Working`); of a file at rest it says that it is settled (`Settled`). `StopInv` says what a shutdown owes: each flagged
  file is in its list, in its hands, being marked clean by another flush, or failed; so
  nothing is lost when memory is cleared. `CacheInv` counts, as long as no two processes
  have run at once, the files in memory against `_currentMemoryUsage` and the list of access
  times, and what an eviction under way still has to look at. The proof has a frame lemma
  (`StepKeeps`: what a step leaves alone when it is not about a file), a lemma per
  stage of an operation (`Stage...`), and the same for the shutdown (`Owed...`) and the
  count (`Cache...`). It gives `UploadsAlwaysKept`, `DeletesAreFinal`, `CleanIsStored` and
  `MemoryLimited` for any number of files, requests and timers. That an operation which
  has met another is out of these theorems is not a weakness of the proof: the code has no
  lock, and section 5 lists what goes wrong.
- `License_proofs`: the invariant says what each place of the start knows of the files and
  of the copies; `NoLicenceLost` rests on the order of save and clean-up,
  `SavedLicenceLoaded` on `.license-key` being the first that is tried, once the start has
  found and read it (`unread` says when it has not) and if it verifies in the form it is saved
  in, `LicenceEnds` on the time of the last check.
- `TrafficLog_proofs`: `LogInv` orders the entries along their way (files, batch, queue)
  and says where each one is, which gives `LogInOrder` and `EntriesAccounted` for any
  sizes, with any failures; a deleted entry has `MaxFileCount` files of later entries
  after it. `SizesInv` says that the batch is one write of the loop or what a stop left in
  the channel (`BatchInv`), that until it fails the service counts the size its file has,
  and that a file which does not exist yet has its place among the others (`FilesInv`);
  files written to after a failure, or come back to by a rollover, are not counted
  right (`miscounted`), and a clean-up that failed leaves too many (`uncleaned`). With the
  lemma that a clean-up which deletes all it should leaves `MaxFileCount` files
  (`CleanedFew`) it gives `FilesAreBounded`. `TrafficIsJournaled` is the refinement:
  `Place` maps the state to the places of `Journal`; every step is first shown to be a
  `FlowStep` (what leaves the channel, the batch or the files goes on in order, and what is
  missed was on its way), and a `FlowStep` is a step of `Journal`, as the places are
  apart (`PlacesInv`).
- `DocsSite_proofs`: `LinksAlive` and `SectionAlwaysAtHand`, of the menus and pages there
  are, however long the reader's history.

They hold for any sets of requests, addresses, tokens, consoles, users, servers, keys,
environments, files and licences, any limits, sizes and windows, under the assumptions named in the modules: settings are positive,
sets that must differ do (addresses and tokens, names of absent entries), requests are
finitely many, windows are below 2^30 seconds, and powers of two are positive naturals
(evaluated by TLC, since the provers lack the induction).

Only model-checked is liveness: `Answered`, `StartEnds`, `Logged` and the counterexample of
`UpdatesEnd` are out of the prover's reach. Every invariant and action property of the
runs is stated by a theorem. The runs check the inductive invariants `IndInv`, `ChecksInv`
(with `StoreInv` in it), `LockInv` and `ServiceInv` and the type invariants in them; `WindowInv`,
`BucketInv`, `SemaphoreBalance`, `ProxyTypeOK`, `EscapedInv` and `SizesInv` are stated
by their theorems or lemmas. No theorem rules failures or other processes out; what some of
them exempt is named by the state they are about: the tokens in `escaped` (`RevokedFilesGone`), the
files in `unlisted` or `lost` and the environments in `stale` (`UploadsSeen`, `NoGhosts`), a
`.license-key` that was `unread` or does not verify masked (`SavedLicenceLoaded`), the files
in `miscounted` and a clean-up that left some, `uncleaned` (`FilesAreBounded`). What
`ServiceInv` says of files and of the count is conditional on `crossed` and `overlapped`,
which the observer sets and nothing resets. `DocsSite_proofs` is about the pages that exist.

## 5. Not modelled, and limits met on the way

Nothing is proved about recursive definitions: the modules have none. Left out of the
modelled components: paths exempt from authentication, the limiter when
switched off, exceptions of database queries, the wildcard forms of scopes and
environments, rules by which headers make an answer cacheable and for how long, partial
writes of a file, `UseMemoryCache = false` of the file store (`FileIndex` has it), deletion of
open files on Windows, the schema upgrade and menus of the console, the fallback of a
failing Redis in `FileIndex` (it is in `CacheLock`), the traffic log's SQLite storage and its
capture of headers and bodies. Two flushes of one file are taken not to disturb each other's
copy, which the position they share does not promise. Deactivating and
refreshing a licence have no caller. Health checks, the SQL pool, composite requests, the
endpoint registry, settings, URL handling, OpenAPI and start-up are not modelled, for the
reasons that `PROJECT.json` gives: they keep no state that requests share, or their effect is in
backends and drivers that are not in the repository.

Divergences that are modelled or were read, but that no run states:

- a request that only updates the log time of a block writes back what it read
  (`RateLimitingMiddleware.cs:225`), and so may put an older block in the place of a newer
  one; the removal of an expired block (line 310) may remove a newer one. A block announced
  by `Retry-After` is then not honoured; `BlocksExpire` says that none lasts too long;
- a console rewrites the file of a token that another console has just revoked
  (TokenGenerator `Program.cs:549`), or a revocation fails to delete it; such tokens are
  `escaped`, and `RevokedFileGone` says that no other token's file stays;
- a wait for the Redis lock that times out takes the memory lock instead
  (`RedisCacheProvider.cs:440`): two requests then hold a lock of one key;
- the ids of an endpoint share a cache key (`EndpointController.cs:874`), where the guide says
  each URL has its own (`reference/caching.md:132`);
- an upload during a flush of the same file is marked clean without being written
  (`FileServiceHandler.cs:389`), and a download moves the position of the stream that the
  flush copies (line 215), so that the flush may write an empty file, mark the contents
  clean and leave them to an eviction; `CleanUnlessCrossed` and `UploadsKept` are what holds;
- a file whose flush failed is evicted all the same (`FileServiceHandler.cs:393`, 434, 487)
  and stays listed although it is nowhere; a flush under way makes a deleted file again
  (line 382), which no listing shows. `ListedExist` and `UploadsListed` name both;
- the timer that refreshes the index is kept in no field (`FileServiceHandler.cs:95`) and
  may be collected; the model assumes nothing of it;
- the licence guide shows a `.license` file with the full key after activation
  (`guide/licensing.md:82`); the code writes `.license-key`, deletes `.license`
  (`LicenseService.cs:126`) and masks the key (line 543), over which the signature then no
  longer verifies unless the server signs that form. Without the server the licence is gone after a
  restart, and the key with it: `SavedIsLoaded` is about the others. The clean-up deletes
  every `*.license`, those never tried too (line 571);
- a `.license-key` that cannot be read, or that an interrupted search of the directory
  does not return, is skipped with a line in the log (`LicenseService.cs:377`, 299): the
  licence is not in force after that start;
- a saved licence that has expired still loads, and so keeps a newer `.license` from being
  tried;
- the warning of a full traffic queue is never written, as `TryWrite` of a channel that
  drops succeeds; a failed write ends the service's loop for good
  (`ProxyTrafficLoggerMiddleware.cs:332`);
- `MaxFileCount` is the "Number of files to retain", and "Old files are deleted when count
  exceeds `MaxFileCount`" (`reference/audit.md:49`, 75; the code's own comment,
  `ProxyTrafficLoggerMiddleware.cs:263`, says "Keep only the most recent MaxFileCount files").
  The clean-up runs before the new file exists, so one more stays; `FilesBounded` is the
  bound that holds. It deletes from the newest of the old files to the oldest, and ends at
  the first it cannot delete: the oldest then stay;
- the page of the plug-ins (`/reference/plugins/`) is named in the guide's sidebar
  (`config.ts:75`) and not in the reference's (lines 113-118), which is the one shown beside
  it (`OutOfPlace`);
- the text of the documentation's pages links to pages that do not exist
  (`/guide/endpoints/sql` in `reference/odata.md:417`); its menus do not;
- the limiter is a token bucket: an interval shorter than the window can see up to a
  bucket and its refill (`RateLimitingMiddleware.cs:125`), where the guide says "sliding
  window" (`guide/rate-limiting.md:15`); `IntervalBound` is the bound that does hold;
- a client refused again and again, one request at a time, is never a persistent
  violator: the count goes with the block (`RateLimitingMiddleware.cs:310`);
- `TokenWindow * (int)Math.Pow(2, n)` overflows before it is capped
  (`RateLimitingMiddleware.cs:425`); `BlockBackoff` has the wrap-around;
- the "first token ever created" of the free mode is the oldest active one
  (`TokenService.cs:32`);
- a token file is named after the user: changing one token of a user rewrites the file
  of another (TokenGenerator `Program.cs:538`);
- the cache provider is chosen once (`CacheManager.cs:24`), where the guide says it
  returns to Redis; a `RedisConnectionException` is not caught where memory would take over
  (`RedisCacheProvider.cs:148`);
- no write invalidates a cached answer (`EndpointController.cs:972`), where the caching
  guide says it does (`reference/caching.md:170`);
- the usage counter counts replaced contents twice (`FileServiceHandler.cs:168`), the
  overwrite check sees only the disk (line 142).

## 6. Plan

Done, in this order: the limiter, tokens, authentication, locks, the proxy cache on top
of them, the file store, the file index, licences, the traffic log, the documentation's menus;
and the proofs of every invariant and action property the runs check.

What could follow: more abstract specifications and proofs that the modules implement
them (a stored file as a register that an upload sets and a deletion clears), the health
check and the SQL pool as small modules, and a composition of `FileIndex` with
`FileStore`, whose product is too large for one run today.
