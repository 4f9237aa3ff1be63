------------------------------- MODULE ProxyCache -------------------------------
(***************************************************************************)
(* The cached GET of EndpointController.HandleProxyRequest: look into the  *)
(* cache, take the lock of the cache key, look again, call the service,    *)
(* store its answer, give the lock back.  One action is one call that may  *)
(* wait.  The cache of a server is its MemoryCacheProvider, or the Redis   *)
(* shared by the servers, with the first as its fallback.                  *)
(*                                                                         *)
(* One proxy endpoint in one environment; `path` stands for what follows   *)
(* the endpoint's name in the URL (segments, query, language), `caller`    *)
(* for the hash of the Authorization header.                               *)
(***************************************************************************)
EXTENDS CacheLock

CONSTANTS
  Callers, Paths,
  Ids, NoId,       \* ids in the first segment, as in Products(guid'...')
  Redis,           \* the store of Redis; a server's memory is named as the server
  Nowhere, Throws, \* an access that reaches no store, or ends in an exception
  NoEntry

Stores == Instances \cup {Redis}

ASSUME ProxyAssumption ==
  /\ Keys = Callers \X Paths
  /\ Redis \notin Instances
  /\ Nowhere \notin Stores /\ Throws \notin Stores /\ Nowhere # Throws
  /\ NoId \notin Ids

VARIABLES
  cache,     \* the entry of each key in each store
  pc,        \* where each request is in HandleProxyRequest
  ask        \* what it asks for: caller, id, path

pvars == <<cache, pc, ask>>
vars == <<lvars, pvars>>

Ask == [caller : Callers, id : Ids \cup {NoId}, path : Paths]

\* A key for all callers.
KeyOfAnyone(a) == <<CHOOSE c \in Callers : TRUE, a.path>>

\* CreateCacheKey: the remaining path and the caller, but not the id.
KeyOf(a) == <<a.caller, a.path>>

\* The URL of the service: an id hides the remaining path.
UrlOf(a) == IF a.id # NoId THEN <<"id", a.id>> ELSE <<"path", a.path>>

Urls == ({"id"} \X Ids) \cup ({"path"} \X Paths)
Entry == [caller : Callers, url : Urls]

ASSUME EntryAssumption == NoEntry \notin Entry

Stages == {"idle", "get", "lock", "locking", "recheck", "fetch", "store", "release",
           "bypass", "failed"}

ProxyTypeOK ==
  /\ LockTypeOK
  /\ cache \in [Stores -> [Keys -> Entry \cup {NoEntry}]]
  /\ pc \in [Requests -> Stages]
  /\ ask \in [Requests -> Ask]

IdleAsk == CHOOSE a \in Ask : TRUE

ProxyInit ==
  /\ LockInit
  /\ cache = [s \in Stores |-> [k \in Keys |-> NoEntry]]
  /\ pc = [r \in Requests |-> "idle"]
  /\ ask = [r \in Requests |-> IdleAsk]

--------------------------------------------------------------------------------
Goto(r, stage) == pc' = [pc EXCEPT ![r] = stage]

\* The fallback store of server i.
Aside(i) == IF Fallback THEN i ELSE Nowhere

\* GetAsync and SetAsync reach store s: an unreachable Redis throws, which
\* falls back to the memory unless it is a RedisConnectionException.
Reach(i, s) ==
  \/ provider[i] = "memory" /\ s = i /\ UNCHANGED connected
  \/ /\ provider[i] = "redis"
     /\ TryReconnect(i)
     /\ \/ connected'[i] /\ up /\ s = Redis
        \/ connected'[i] /\ ~up /\ s \in {Throws, Aside(i)}
        \/ ~connected'[i] /\ s = Aside(i)

\* What is read from there.
Read(s, k) == IF s \in Stores THEN cache[s][k] ELSE NoEntry

\* A GET, past the checks of its endpoint, method and URL.
Arrive(r, a) ==
  /\ pc[r] = "idle"
  /\ ask' = [ask EXCEPT ![r] = a]
  /\ Goto(r, "get")
  /\ UNCHANGED <<lvars, cache>>

\* GetAsync: a hit is the answer, and ends at `hit`; a miss goes on.
Look(r, hit, miss, throws) ==
  /\ \E s \in Stores \cup {Nowhere, Throws} :
       /\ Reach(HomeOf[r], s)
       /\ Goto(r, IF s = Throws THEN throws
                  ELSE IF Read(s, KeyOf(ask[r])) = NoEntry THEN miss ELSE hit)
  /\ UNCHANGED <<up, provider, lease, semaphore, at, key, cache, ask>>

Get(r) == pc[r] = "get" /\ Look(r, "idle", "lock", "failed")

Lock(r) ==
  /\ pc[r] = "lock"
  /\ Acquire(r, KeyOf(ask[r]))
  /\ Goto(r, "locking")
  /\ UNCHANGED <<cache, ask>>

\* AcquireLockAsync has returned a handle; or null, or thrown.
Locked(r) ==
  /\ pc[r] = "locking"
  /\ \/ /\ at[r] \in {"redisHeld", "memoryHeld"}
        /\ Goto(r, "recheck")
        /\ UNCHANGED lvars
     \/ /\ Leave(r)
        /\ Goto(r, IF at[r] = "refused" THEN "bypass" ELSE "failed")
  /\ UNCHANGED <<cache, ask>>

\* No double check,
RecheckSkipped(r) ==
  /\ pc[r] = "recheck"
  /\ Goto(r, "fetch")
  /\ UNCHANGED <<lvars, cache, ask>>

\* or one whose hit returns with the lock.
RecheckReturns(r) == pc[r] = "recheck" /\ Look(r, "idle", "fetch", "release")

\* The double check; hit or exception, the handle is disposed of.
Recheck(r) == pc[r] = "recheck" /\ Look(r, "release", "fetch", "release")

\* ExecuteProxyRequest: only a successful answer of a cacheable type is stored.
Fetch(r) ==
  /\ pc[r] = "fetch"
  /\ Goto(r, "store") \/ Goto(r, "release")
  /\ UNCHANGED <<lvars, cache, ask>>

\* What is stored of the answer.
EntryOf(a) == [caller |-> a.caller, url |-> UrlOf(a)]

Store(r) ==
  /\ pc[r] = "store"
  /\ \E s \in Stores \cup {Nowhere, Throws} :
       /\ Reach(HomeOf[r], s)
       /\ cache' = IF s \in Stores
                     THEN [cache EXCEPT ![s][KeyOf(ask[r])] = EntryOf(ask[r])]
                     ELSE cache
  /\ Goto(r, "release")
  /\ UNCHANGED <<up, provider, lease, semaphore, at, key, ask>>

\* The end of the block disposes of the handle.
Finish(r) ==
  /\ pc[r] = "release"
  /\ Release(r)
  /\ Goto(r, "idle")
  /\ UNCHANGED <<cache, ask>>

\* Without a lock the service is called and nothing is stored; an exception is
\* answered 500.
Bypass(r) ==
  /\ pc[r] \in {"bypass", "failed"}
  /\ Goto(r, "idle")
  /\ UNCHANGED <<lvars, cache, ask>>

\* A step of AcquireLockAsync.
LockStep(r) ==
  /\ pc[r] = "locking"
  /\ Acquiring(r)
  /\ UNCHANGED pvars

\* The retry of a command whose answer was lost.
Retry(r) ==
  /\ pc[r] = "locking"
  /\ LoseReply(r)
  /\ UNCHANGED pvars

\* An entry expires or is evicted.
EntryGone(s, k) ==
  /\ cache[s][k] # NoEntry
  /\ cache' = [cache EXCEPT ![s][k] = NoEntry]
  /\ UNCHANGED <<lvars, pc, ask>>

Serve(r) ==
  \/ Get(r) \/ Lock(r) \/ LockStep(r) \/ Locked(r) \/ Recheck(r) \/ Fetch(r)
  \/ Store(r) \/ Finish(r) \/ Bypass(r)

ProxyNext ==
  \/ \E r \in Requests : (\E a \in Ask : Arrive(r, a)) \/ Serve(r) \/ Retry(r)
  \/ \E s \in Stores, k \in Keys : EntryGone(s, k)
  \/ RedisNext /\ UNCHANGED pvars

ProxySpec == ProxyInit /\ [][ProxyNext]_vars

\* Requests that have arrived are served: waits time out, the HTTP client has a
\* timeout, and the thread pool runs every continuation.
FairProxySpec == ProxySpec /\ \A r \in Requests : WF_vars(Serve(r))

--------------------------------------------------------------------------------
\* A request holds a lock exactly from the double check to the end of the block
\* (or until AcquireLockAsync returns), and of its own key: no path of the
\* handler, however it ends, keeps a lock.
HandlesReturned ==
  \A r \in Requests :
    /\ pc[r] \in {"recheck", "fetch", "store", "release"} =>
         at[r] \in {"redisHeld", "memoryHeld"} /\ key[r] = KeyOf(ask[r])
    /\ pc[r] \in {"idle", "get", "lock", "bypass", "failed"} => at[r] = "out"

\* A cached answer reaches only the caller whose token it was fetched with
\* (CreateCacheKey), in every server, with Redis, memory or both.
CallersApart ==
  \A r \in Requests, s \in Stores :
    cache[s][KeyOf(ask[r])] # NoEntry => cache[s][KeyOf(ask[r])].caller = ask[r].caller

\* On a server that uses memory, the service is called only for a key that has no
\* entry, and by one request at a time: neither the lock nor the double check
\* can be passed by two requests that missed together.
FetchOnce ==
  \A r \in Requests : provider[HomeOf[r]] = "memory" /\ pc[r] \in {"fetch", "store"} =>
      /\ cache[HomeOf[r]][KeyOf(ask[r])] = NoEntry
      /\ \A q \in Requests \ {r} :
           pc[q] \in {"fetch", "store"} =>
             HomeOf[q] # HomeOf[r] \/ KeyOf(ask[q]) # KeyOf(ask[r])

\* Every request is answered, whatever becomes of Redis and of the lock.
Answered == \A r \in Requests : pc[r] # "idle" ~> pc[r] = "idle"
================================================================================
