------------------------------- MODULE CacheLock -------------------------------
(***************************************************************************)
(* The locks of the cache providers: AcquireLockAsync and the disposal of  *)
(* the handle it returns, for MemoryCacheProvider (a SemaphoreSlim per key *)
(* in each instance of the server) and RedisCacheProvider (a key with an   *)
(* expiry, set if absent, in the Redis shared by the instances; the memory *)
(* provider is its fallback).                                              *)
(*                                                                         *)
(* Time is abstract: a wait may time out once the request has found the    *)
(* lock taken, and the expiry of a lock in Redis may come at any moment,   *)
(* since a holder runs for as long as the service behind it takes.         *)
(***************************************************************************)
EXTENDS Integers

CONSTANTS
  Requests,         \* threads that serve requests
  Instances,        \* servers
  HomeOf,           \* the server of each request
  Keys,             \* cache keys
  RedisConfigured,  \* CacheOptions.ProviderType = Redis
  Fallback,         \* RedisOptions.FallbackToMemoryCache
  RedisFails,       \* whether Redis is ever out of reach
  Free,             \* no lock in Redis
  Orphan            \* the value of a lock whose request is gone

ASSUME LockAssumption ==
  /\ HomeOf \in [Requests -> Instances]
  /\ RedisConfigured \in BOOLEAN /\ Fallback \in BOOLEAN /\ RedisFails \in BOOLEAN
  /\ Free \notin Requests /\ Orphan \notin Requests /\ Free # Orphan

VARIABLES
  up,          \* whether Redis can be reached
  connected,   \* _isConnected of each instance
  provider,    \* _provider of each instance's CacheManager
  lease,       \* the lock of each key in Redis: whose value it has
  semaphore,   \* _locks of each instance: the count of each key's semaphore
  at,          \* where each request is in AcquireLockAsync, or what it holds
  key          \* its lockKey

lvars == <<up, connected, provider, lease, semaphore, at, key>>

Places == {"out", "redis", "redisWait", "memory", "memoryWait",
           "redisHeld", "memoryHeld", "refused", "failed"}

LockTypeOK ==
  /\ up \in BOOLEAN
  /\ connected \in [Instances -> BOOLEAN]
  /\ provider \in [Instances -> {"redis", "memory"}]
  /\ lease \in [Keys -> Requests \cup {Free, Orphan}]
  /\ semaphore \in [Instances -> [Keys -> Nat]]
  /\ at \in [Requests -> Places]
  /\ key \in [Requests -> Keys]

\* The provider is chosen once, by the connection of that moment.
LockInit ==
  /\ up \in BOOLEAN /\ (~RedisFails => up)
  /\ connected = [i \in Instances |-> up /\ RedisConfigured]
  /\ provider = [i \in Instances |-> IF connected[i] THEN "redis" ELSE "memory"]
  /\ lease = [k \in Keys |-> Free]
  /\ semaphore = [i \in Instances |-> [k \in Keys |-> 1]]
  /\ at = [r \in Requests |-> "out"]
  /\ key \in [Requests -> Keys]

--------------------------------------------------------------------------------
Go(r, place) == at' = [at EXCEPT ![r] = place]

\* TryReconnectAsync of an instance that is not connected: a ping, unless one
\* was tried within the last 30 seconds.
TryReconnect(i) ==
  \/ UNCHANGED connected
  \/ ~connected[i] /\ up /\ connected' = [connected EXCEPT ![i] = TRUE]

\* Where a request goes on when Redis is of no use.
WithoutRedis == IF Fallback THEN "memory" ELSE "refused"

\* The call of AcquireLockAsync.
Acquire(r, k) ==
  LET i == HomeOf[r]
  IN  /\ at[r] = "out"
      /\ key' = [key EXCEPT ![r] = k]
      /\ \/ provider[i] = "memory" /\ Go(r, "memory") /\ UNCHANGED connected
         \/ /\ provider[i] = "redis"
            /\ TryReconnect(i)
            /\ Go(r, IF connected'[i] THEN "redis" ELSE WithoutRedis)
      /\ UNCHANGED <<up, provider, lease, semaphore>>

\* SET NX: the lock is set when there is none ...
TakeLease(r) ==
  /\ at[r] \in {"redis", "redisWait"}
  /\ up
  /\ \/ /\ lease[key[r]] = Free
        /\ lease' = [lease EXCEPT ![key[r]] = r]
        /\ Go(r, "redisHeld")
     \/ /\ lease[key[r]] # Free /\ at[r] = "redis"
        /\ Go(r, "redisWait")
        /\ UNCHANGED lease
  /\ UNCHANGED <<up, connected, provider, semaphore, key>>

\* ... or its answer is lost, and the retry finds the lock taken, by itself.
LoseReply(r) ==
  /\ at[r] \in {"redis", "redisWait"}
  /\ RedisFails
  /\ up /\ lease[key[r]] = Free
  /\ lease' = [lease EXCEPT ![key[r]] = Orphan]
  /\ Go(r, "redisWait")
  /\ UNCHANGED <<up, connected, provider, semaphore, key>>

\* The wait that times out begins again.
LeaseTimeoutRetries(r) ==
  /\ at[r] = "redisWait"
  /\ Go(r, "redis")
  /\ UNCHANGED <<up, connected, provider, lease, semaphore, key>>

\* The wait for the lock in Redis times out.
LeaseTimeout(r) ==
  /\ at[r] = "redisWait"
  /\ Go(r, WithoutRedis)
  /\ UNCHANGED <<up, connected, provider, lease, semaphore, key>>

\* The command throws: a RedisConnectionException leaves AcquireLockAsync, any
\* other exception does not.
LeaseThrows(r) ==
  /\ at[r] \in {"redis", "redisWait"}
  /\ ~up
  /\ Go(r, "failed") \/ Go(r, WithoutRedis)
  /\ UNCHANGED <<up, connected, provider, lease, semaphore, key>>

\* WaitAsync on the semaphore of the key.
TakeSemaphore(r) ==
  LET i == HomeOf[r]
  IN  /\ at[r] \in {"memory", "memoryWait"}
      /\ \/ /\ semaphore[i][key[r]] > 0
            /\ semaphore' = [semaphore EXCEPT ![i][key[r]] = @ - 1]
            /\ Go(r, "memoryHeld")
         \/ /\ semaphore[i][key[r]] = 0 /\ at[r] = "memory"
            /\ Go(r, "memoryWait")
            /\ UNCHANGED semaphore
      /\ UNCHANGED <<up, connected, provider, lease, key>>

\* The wait that times out gives back what it did not take.
SemaphoreTimeoutReleases(r) ==
  /\ at[r] = "memoryWait"
  /\ semaphore' = [semaphore EXCEPT ![HomeOf[r]][key[r]] = @ + 1]
  /\ Go(r, "refused")
  /\ UNCHANGED <<up, connected, provider, lease, key>>

\* The wait for the semaphore times out.
SemaphoreTimeout(r) ==
  /\ at[r] = "memoryWait"
  /\ Go(r, "refused")
  /\ UNCHANGED <<up, connected, provider, lease, semaphore, key>>

\* The caller goes on without a lock.
Leave(r) ==
  /\ at[r] \in {"refused", "failed"}
  /\ Go(r, "out")
  /\ UNCHANGED <<up, connected, provider, lease, semaphore, key>>

\* The count is not given back.
ReleasedNever(n) == n

\* Release(): a semaphore at its maximum throws, which is logged.
Released(n) == IF n < 1 THEN n + 1 ELSE n

ReleaseSemaphore(r) ==
  /\ at[r] = "memoryHeld"
  /\ semaphore' = [semaphore EXCEPT ![HomeOf[r]][key[r]] = Released(@)]
  /\ Go(r, "out")
  /\ UNCHANGED <<up, connected, provider, lease, key>>

\* The lock is deleted without a look at its value.
DeletedAny(r, k) == Free

\* The script deletes the lock if it still has the value of the handle.
Deleted(r, k) == IF lease[k] = r THEN Free ELSE lease[k]

\* Without it the lock stays until it expires.
Abandoned(r, k) == IF lease[k] = r THEN Orphan ELSE lease[k]

ReleaseLease(r) ==
  LET k == key[r]
  IN  /\ at[r] = "redisHeld"
      /\ TryReconnect(HomeOf[r])
      /\ lease' = [lease EXCEPT ![k] =
                     IF up /\ connected'[HomeOf[r]] THEN Deleted(r, k) ELSE Abandoned(r, k)]
      /\ Go(r, "out")
      /\ UNCHANGED <<up, provider, semaphore, key>>

\* Dispose of the handle.
Release(r) == ReleaseSemaphore(r) \/ ReleaseLease(r)

\* The steps of AcquireLockAsync after the call.
Acquiring(r) ==
  \/ TakeLease(r) \/ LeaseTimeout(r) \/ LeaseThrows(r)
  \/ TakeSemaphore(r) \/ SemaphoreTimeout(r)

--------------------------------------------------------------------------------
\* The lock in Redis reaches its expiry, or Redis loses it.
LeaseExpires(k) ==
  /\ lease[k] # Free
  /\ lease' = [lease EXCEPT ![k] = Free]
  /\ UNCHANGED <<up, connected, provider, semaphore, at, key>>

\* Redis becomes unreachable, or reachable again.
RedisChanges ==
  /\ RedisFails
  /\ up' = ~up
  /\ UNCHANGED <<connected, provider, lease, semaphore, at, key>>

\* OnConnectionFailed and OnConnectionRestored.
ConnectionEvent(i) ==
  /\ RedisConfigured
  /\ connected[i] # up
  /\ connected' = [connected EXCEPT ![i] = up]
  /\ UNCHANGED <<up, provider, lease, semaphore, at, key>>

RedisNext ==
  \/ \E k \in Keys : LeaseExpires(k)
  \/ RedisChanges
  \/ \E i \in Instances : ConnectionEvent(i)

LockNext ==
  \/ \E r \in Requests : (\E k \in Keys : Acquire(r, k))
                         \/ Acquiring(r) \/ LoseReply(r) \/ Leave(r) \/ Release(r)
  \/ RedisNext

LockSpec == LockInit /\ [][LockNext]_lvars

--------------------------------------------------------------------------------
\* The requests that hold the semaphore of k in instance i.
MemoryHolders(i, k) ==
  {r \in Requests : at[r] = "memoryHeld" /\ HomeOf[r] = i /\ key[r] = k}

\* The semaphores of an instance are a mutual exclusion of its requests, also
\* as the fallback of Redis: timeouts, exceptions and reconnections neither
\* lose a count nor give one back twice.
Semaphores == INSTANCE Mutex WITH
  Names <- Instances \X Keys, Processes <- Requests,
  holders <- [n \in Instances \X Keys |-> MemoryHolders(n[1], n[2])]

SemaphoresExclude == Semaphores!Spec

\* A semaphore is taken exactly while a request holds it: no count is lost, so
\* that the key is never locked for good, nor given back twice.
SemaphoreBalance ==
  \A i \in Instances, k \in Keys :
    /\ semaphore[i][k] \in {0, 1}
    /\ semaphore[i][k] = 1 => MemoryHolders(i, k) = {}
    /\ semaphore[i][k] = 0 => \E r \in Requests : MemoryHolders(i, k) = {r}

\* A lock in Redis has the value of a request that holds its handle.
LeaseOwned ==
  \A k \in Keys : lease[k] \in Requests =>
    at[lease[k]] = "redisHeld" /\ key[lease[k]] = k

\* The inductive invariant of the locks.
LockInv == LockTypeOK /\ SemaphoreBalance /\ LeaseOwned

\* "We don't accidentally release someone else's lock if ours expired"
\* (ReleaseLockAsync): while a request holds its handle, only the expiry, a step
\* of no request, takes its lock from Redis.
LeaseKept ==
  [][\A k \in Keys : lease[k] \in Requests /\ lease'[k] # lease[k] =>
       at'[lease[k]] # "redisHeld" \/ at' = at]_lvars
================================================================================
