--------------------------- MODULE ProxyCache_proofs ---------------------------
(***************************************************************************)
(* What holds of the cache locks for any number of servers, requests and   *)
(* keys, and of the cached GET over them for any callers and paths, with   *)
(* Redis or without, reachable or not.                                     *)
(***************************************************************************)
EXTENDS ProxyCache, TLAPS


\* The steps that neither take nor give back a semaphore.
Elsewhere(r) ==
  \/ \E k \in Keys : Acquire(r, k)
  \/ TakeLease(r) \/ LoseReply(r) \/ LeaseTimeout(r) \/ LeaseThrows(r)
  \/ SemaphoreTimeout(r) \/ Leave(r) \/ ReleaseLease(r)
  \/ TakeSemaphore(r) /\ UNCHANGED semaphore

Taking(r) == TakeSemaphore(r) /\ semaphore[HomeOf[r]][key[r]] > 0

LEMMA WithoutRedisType == WithoutRedis \in Places
  BY DEF WithoutRedis, Places

LEMMA ReconnectType ==
  ASSUME LockTypeOK, NEW i \in Instances, TryReconnect(i)
  PROVE  connected' \in [Instances -> BOOLEAN]
  BY DEF TryReconnect, LockTypeOK

LEMMA TypeStep == LockTypeOK /\ [LockNext]_lvars => LockTypeOK'
<1> SUFFICES ASSUME LockTypeOK, [LockNext]_lvars PROVE LockTypeOK'
  OBVIOUS
<1> USE WithoutRedisType, LockAssumption
<1>1. ASSUME NEW r \in Requests, NEW k \in Keys, Acquire(r, k) PROVE LockTypeOK'
  <2>1. connected' \in [Instances -> BOOLEAN]
    BY <1>1, ReconnectType DEF Acquire, LockTypeOK
  <2>2. at' \in [Requests -> Places]
    BY <1>1 DEF Acquire, Go, LockTypeOK, Places, WithoutRedis
  <2> QED
    BY <1>1, <2>1, <2>2 DEF Acquire, LockTypeOK
<1>2. ASSUME NEW r \in Requests, TakeLease(r) PROVE LockTypeOK'
  <2>1. at' \in [Requests -> Places]
    BY <1>2 DEF TakeLease, Go, LockTypeOK, Places
  <2>2. lease' \in [Keys -> Requests \cup {Free, Orphan}]
    BY <1>2 DEF TakeLease, LockTypeOK
  <2> QED
    BY <1>2, <2>1, <2>2 DEF TakeLease, LockTypeOK
<1>3. ASSUME NEW r \in Requests, LoseReply(r) PROVE LockTypeOK'
  BY <1>3 DEF LoseReply, Go, LockTypeOK, Places
<1>4. ASSUME NEW r \in Requests, LeaseTimeout(r) PROVE LockTypeOK'
  BY <1>4 DEF LeaseTimeout, Go, LockTypeOK
<1>5. ASSUME NEW r \in Requests, LeaseThrows(r) PROVE LockTypeOK'
  <2>1. "failed" \in Places
    BY DEF Places
  <2> QED
    BY <1>5, <2>1 DEF LeaseThrows, Go, LockTypeOK
<1>6. ASSUME NEW r \in Requests, TakeSemaphore(r) PROVE LockTypeOK'
  <2> DEFINE i == HomeOf[r]
             k == key[r]
  <2>1. i \in Instances /\ k \in Keys /\ semaphore[i] \in [Keys -> Nat]
    BY DEF LockTypeOK
  <2>2. semaphore' \in [Instances -> [Keys -> Nat]]
    <3>1. CASE UNCHANGED semaphore
      BY <3>1 DEF LockTypeOK
    <3>2. CASE /\ semaphore[i][k] > 0
               /\ semaphore' = [semaphore EXCEPT ![i][k] = @ - 1]
      <4>1. semaphore[i][k] - 1 \in Nat
        BY <2>1, <3>2
      <4> HIDE DEF i, k
      <4> QED
        BY <2>1, <3>2, <4>1 DEF LockTypeOK
    <3> QED
      BY <1>6, <3>1, <3>2 DEF TakeSemaphore
  <2>3. at' \in [Requests -> Places]
    BY <1>6 DEF TakeSemaphore, Go, LockTypeOK, Places
  <2> QED
    BY <1>6, <2>2, <2>3 DEF TakeSemaphore, LockTypeOK
<1>7. ASSUME NEW r \in Requests, SemaphoreTimeout(r) \/ Leave(r) PROVE LockTypeOK'
  BY <1>7 DEF SemaphoreTimeout, Leave, Go, LockTypeOK, Places
<1>8. ASSUME NEW r \in Requests, ReleaseSemaphore(r) PROVE LockTypeOK'
  <2> DEFINE i == HomeOf[r]
             k == key[r]
  <2>1. i \in Instances /\ k \in Keys /\ semaphore[i] \in [Keys -> Nat]
    BY DEF LockTypeOK
  <2>2. Released(semaphore[i][k]) \in Nat
    BY <2>1 DEF Released
  <2>3. semaphore' \in [Instances -> [Keys -> Nat]]
    <3>1. semaphore' = [semaphore EXCEPT ![i][k] = Released(semaphore[i][k])]
      BY <1>8 DEF ReleaseSemaphore
    <3> HIDE DEF i, k
    <3> QED
      BY <2>1, <2>2, <3>1 DEF LockTypeOK
  <2>4. at' \in [Requests -> Places]
    BY <1>8 DEF ReleaseSemaphore, Go, LockTypeOK, Places
  <2> QED
    BY <1>8, <2>3, <2>4 DEF ReleaseSemaphore, LockTypeOK
<1>9. ASSUME NEW r \in Requests, ReleaseLease(r) PROVE LockTypeOK'
  <2>1. connected' \in [Instances -> BOOLEAN]
    BY <1>9, ReconnectType DEF ReleaseLease, LockTypeOK
  <2>2. /\ lease' \in [Keys -> Requests \cup {Free, Orphan}]
        /\ at' \in [Requests -> Places]
    BY <1>9 DEF ReleaseLease, Deleted, Abandoned, Go, LockTypeOK, Places
  <2> QED
    BY <1>9, <2>1, <2>2 DEF ReleaseLease, LockTypeOK
<1>10. ASSUME RedisNext PROVE LockTypeOK'
  <2>1. ASSUME NEW k \in Keys, LeaseExpires(k) PROVE LockTypeOK'
    BY <2>1 DEF LeaseExpires, LockTypeOK
  <2>2. ASSUME RedisChanges PROVE LockTypeOK'
    BY <2>2 DEF RedisChanges, LockTypeOK
  <2>3. ASSUME NEW i \in Instances, ConnectionEvent(i) PROVE LockTypeOK'
    BY <2>3 DEF ConnectionEvent, LockTypeOK
  <2> QED
    BY <1>10, <2>1, <2>2, <2>3 DEF RedisNext
<1>11. ASSUME UNCHANGED lvars PROVE LockTypeOK'
  BY <1>11 DEF lvars, LockTypeOK
<1> QED
  BY <1>1, <1>2, <1>3, <1>4, <1>5, <1>6, <1>7, <1>8, <1>9, <1>10, <1>11
  DEF LockNext, Acquiring, Release

--------------------------------------------------------------------------------
\* How the steps change who holds the semaphores.
LEMMA HoldersSame ==
  ASSUME LockTypeOK,
         \A r \in Requests : (at'[r] = "memoryHeld") <=> (at[r] = "memoryHeld"),
         \A r \in Requests : at[r] = "memoryHeld" => key'[r] = key[r]
  PROVE  \A i \in Instances, k \in Keys : MemoryHolders(i, k)' = MemoryHolders(i, k)
  BY DEF MemoryHolders

LEMMA ElsewhereHolders ==
  ASSUME LockTypeOK, SemaphoreBalance, NEW r \in Requests, Elsewhere(r)
  PROVE  /\ UNCHANGED semaphore
         /\ \A i \in Instances, k \in Keys : MemoryHolders(i, k)' = MemoryHolders(i, k)
<1>1. UNCHANGED semaphore
  BY DEF Elsewhere, Acquire, TakeLease, LoseReply, LeaseTimeout, LeaseThrows,
         SemaphoreTimeout, Leave, ReleaseLease
<1>2. PICK place : /\ at' = [at EXCEPT ![r] = place]
                   /\ place # "memoryHeld"
                   /\ at[r] # "memoryHeld"
  <2>1. CASE TakeSemaphore(r) /\ UNCHANGED semaphore
    <3>1. HomeOf[r] \in Instances /\ key[r] \in Keys /\ semaphore \in [Instances -> [Keys -> Nat]]
      BY LockAssumption DEF LockTypeOK
    <3> DEFINE i == HomeOf[r]
               k == key[r]
    <3>2. ~(semaphore[i][k] > 0 /\ semaphore' = [semaphore EXCEPT ![i][k] = @ - 1])
      <4> SUFFICES ASSUME semaphore[i][k] > 0, semaphore' = [semaphore EXCEPT ![i][k] = @ - 1]
                   PROVE  FALSE
        OBVIOUS
      <4> HIDE DEF i, k
      <4>1. semaphore'[i][k] = semaphore[i][k] - 1
        BY <3>1 DEF i, k
      <4>2. semaphore[i][k] \in Nat
        BY <3>1 DEF i, k
      <4> QED
        BY <2>1, <4>1, <4>2
    <3> QED
      BY <2>1, <3>2 DEF TakeSemaphore, Go
  <2>2. CASE \E k \in Keys : Acquire(r, k)
    BY <2>2 DEF Acquire, Go, WithoutRedis
  <2>3. CASE TakeLease(r) \/ LoseReply(r) \/ LeaseTimeout(r) \/ LeaseThrows(r)
    BY <2>3 DEF TakeLease, LoseReply, LeaseTimeout, LeaseThrows, Go, WithoutRedis
  <2>4. CASE SemaphoreTimeout(r) \/ Leave(r) \/ ReleaseLease(r)
    BY <2>4 DEF SemaphoreTimeout, Leave, ReleaseLease, Go
  <2> QED
    BY <2>1, <2>2, <2>3, <2>4 DEF Elsewhere
<1>3. \A s \in Requests : (at'[s] = "memoryHeld") <=> (at[s] = "memoryHeld")
  BY <1>2 DEF LockTypeOK
<1>4. \A s \in Requests : at[s] = "memoryHeld" => key'[s] = key[s]
  BY <1>2 DEF Elsewhere, Acquire, TakeLease, LoseReply, LeaseTimeout, LeaseThrows,
              SemaphoreTimeout, Leave, ReleaseLease, TakeSemaphore, LockTypeOK
<1> QED
  BY <1>1, <1>3, <1>4, HoldersSame

\* Taking a semaphore makes the request its only holder.
LEMMA TakingHolders ==
  ASSUME LockTypeOK, SemaphoreBalance, NEW r \in Requests, Taking(r)
  PROVE  \E h \in Instances, c \in Keys :
           /\ semaphore' = [semaphore EXCEPT ![h][c] = 0]
           /\ MemoryHolders(h, c) = {}
           /\ MemoryHolders(h, c)' = {r}
           /\ \A i \in Instances, k \in Keys : i # h \/ k # c =>
                MemoryHolders(i, k)' = MemoryHolders(i, k)
<1>1. PICK h \in Instances, c \in Keys : h = HomeOf[r] /\ c = key[r]
  BY LockAssumption DEF LockTypeOK
<1>2. semaphore[h][c] = 1
  BY <1>1 DEF Taking, SemaphoreBalance
<1>3. semaphore' = [semaphore EXCEPT ![h][c] = 0] /\ key' = key
  BY <1>1, <1>2 DEF Taking, TakeSemaphore
<1>4. at' = [at EXCEPT ![r] = "memoryHeld"] /\ at[r] # "memoryHeld"
  BY <1>1, <1>2 DEF Taking, TakeSemaphore, Go
<1>5. MemoryHolders(h, c) = {}
  BY <1>2 DEF SemaphoreBalance
<1>6. MemoryHolders(h, c)' = {r}
  BY <1>1, <1>3, <1>4, <1>5 DEF MemoryHolders, LockTypeOK
<1>7. ASSUME NEW i \in Instances, NEW k \in Keys, i # h \/ k # c
      PROVE  MemoryHolders(i, k)' = MemoryHolders(i, k)
  BY <1>1, <1>3, <1>4, <1>7 DEF MemoryHolders, LockTypeOK
<1> QED
  BY <1>3, <1>5, <1>6, <1>7

\* Giving it back leaves no holder.
LEMMA ReleasingHolders ==
  ASSUME LockTypeOK, SemaphoreBalance, NEW r \in Requests, ReleaseSemaphore(r)
  PROVE  \E h \in Instances, c \in Keys :
           /\ semaphore' = [semaphore EXCEPT ![h][c] = 1]
           /\ MemoryHolders(h, c) = {r}
           /\ MemoryHolders(h, c)' = {}
           /\ \A i \in Instances, k \in Keys : i # h \/ k # c =>
                MemoryHolders(i, k)' = MemoryHolders(i, k)
<1>1. PICK h \in Instances, c \in Keys : h = HomeOf[r] /\ c = key[r]
  BY LockAssumption DEF LockTypeOK
<1>2. r \in MemoryHolders(h, c)
  BY <1>1 DEF ReleaseSemaphore, MemoryHolders
<1>3. semaphore[h][c] = 0 /\ MemoryHolders(h, c) = {r}
  BY <1>2 DEF SemaphoreBalance
<1>4. semaphore' = [semaphore EXCEPT ![h][c] = 1] /\ key' = key
  BY <1>1, <1>3 DEF ReleaseSemaphore, Released
<1>5. at' = [at EXCEPT ![r] = "out"]
  BY DEF ReleaseSemaphore, Go
<1>6. MemoryHolders(h, c)' = {}
  BY <1>3, <1>4, <1>5 DEF MemoryHolders, LockTypeOK
<1>7. ASSUME NEW i \in Instances, NEW k \in Keys, i # h \/ k # c
      PROVE  MemoryHolders(i, k)' = MemoryHolders(i, k)
  BY <1>1, <1>4, <1>5, <1>7 DEF MemoryHolders, LockTypeOK
<1> QED
  BY <1>3, <1>4, <1>6, <1>7

\* The steps of Redis leave the semaphores alone.
LEMMA RedisHolders ==
  ASSUME LockTypeOK, RedisNext \/ UNCHANGED lvars
  PROVE  /\ UNCHANGED <<semaphore, at, key>>
         /\ \A i \in Instances, k \in Keys : MemoryHolders(i, k)' = MemoryHolders(i, k)
<1>1. UNCHANGED <<semaphore, at, key>>
  BY DEF RedisNext, LeaseExpires, RedisChanges, ConnectionEvent, lvars
<1> QED
  BY <1>1 DEF MemoryHolders

\* The steps, by what they do to the semaphores.
LEMMA Steps ==
  ASSUME LockTypeOK, [LockNext]_lvars
  PROVE  \/ \E r \in Requests : Elsewhere(r) \/ Taking(r) \/ ReleaseSemaphore(r)
         \/ RedisNext \/ UNCHANGED lvars
<1>1. \A r \in Requests : TakeSemaphore(r) => Taking(r) \/ Elsewhere(r)
  BY DEF TakeSemaphore, Taking, Elsewhere
<1> QED
  BY <1>1 DEF LockNext, Acquiring, Release, Elsewhere

--------------------------------------------------------------------------------
LEMMA BalanceStep == LockTypeOK /\ SemaphoreBalance /\ [LockNext]_lvars => SemaphoreBalance'
<1> SUFFICES ASSUME LockTypeOK, SemaphoreBalance, [LockNext]_lvars PROVE SemaphoreBalance'
  OBVIOUS
<1>1. ASSUME NEW r \in Requests, Elsewhere(r) PROVE SemaphoreBalance'
  BY <1>1, ElsewhereHolders DEF SemaphoreBalance
<1>2. ASSUME NEW r \in Requests, Taking(r) PROVE SemaphoreBalance'
  <2> SUFFICES ASSUME NEW i \in Instances, NEW k \in Keys
               PROVE  /\ semaphore'[i][k] \in {0, 1}
                      /\ semaphore'[i][k] = 1 => MemoryHolders(i, k)' = {}
                      /\ semaphore'[i][k] = 0 =>
                           \E s \in Requests : MemoryHolders(i, k)' = {s}
    BY DEF SemaphoreBalance
  <2>1. PICK h \in Instances, c \in Keys :
          /\ semaphore' = [semaphore EXCEPT ![h][c] = 0]
          /\ MemoryHolders(h, c)' = {r}
          /\ i # h \/ k # c => MemoryHolders(i, k)' = MemoryHolders(i, k)
    BY <1>2, TakingHolders
  <2>2. CASE i = h /\ k = c
    BY <2>1, <2>2 DEF LockTypeOK
  <2>3. CASE i # h \/ k # c
    <3>1. semaphore'[i][k] = semaphore[i][k]
      BY <2>1, <2>3 DEF LockTypeOK
    <3> QED
      BY <2>1, <2>3, <3>1 DEF SemaphoreBalance
  <2> QED
    BY <2>2, <2>3
<1>3. ASSUME NEW r \in Requests, ReleaseSemaphore(r) PROVE SemaphoreBalance'
  <2> SUFFICES ASSUME NEW i \in Instances, NEW k \in Keys
               PROVE  /\ semaphore'[i][k] \in {0, 1}
                      /\ semaphore'[i][k] = 1 => MemoryHolders(i, k)' = {}
                      /\ semaphore'[i][k] = 0 =>
                           \E s \in Requests : MemoryHolders(i, k)' = {s}
    BY DEF SemaphoreBalance
  <2>1. PICK h \in Instances, c \in Keys :
          /\ semaphore' = [semaphore EXCEPT ![h][c] = 1]
          /\ MemoryHolders(h, c)' = {}
          /\ i # h \/ k # c => MemoryHolders(i, k)' = MemoryHolders(i, k)
    BY <1>3, ReleasingHolders
  <2>2. CASE i = h /\ k = c
    BY <2>1, <2>2 DEF LockTypeOK
  <2>3. CASE i # h \/ k # c
    <3>1. semaphore'[i][k] = semaphore[i][k]
      BY <2>1, <2>3 DEF LockTypeOK
    <3> QED
      BY <2>1, <2>3, <3>1 DEF SemaphoreBalance
  <2> QED
    BY <2>2, <2>3
<1>4. ASSUME RedisNext \/ UNCHANGED lvars PROVE SemaphoreBalance'
  BY <1>4, RedisHolders DEF SemaphoreBalance
<1> QED
  BY <1>1, <1>2, <1>3, <1>4, Steps

\* A request that holds its lease is in none of the stages before.
LEMMA OwnedStep == LockTypeOK /\ LeaseOwned /\ [LockNext]_lvars => LeaseOwned'
<1> SUFFICES ASSUME LockTypeOK, LeaseOwned, [LockNext]_lvars PROVE LeaseOwned'
  OBVIOUS
<1> USE LockAssumption
<1>1. ASSUME NEW r \in Requests, at[r] # "redisHeld",
             UNCHANGED lease \/ lease' = [lease EXCEPT ![key[r]] = Orphan],
             NEW place \in Places, at' = [at EXCEPT ![r] = place],
             \A s \in Requests \ {r} : key'[s] = key[s]
      PROVE  LeaseOwned'
  BY <1>1 DEF LeaseOwned, LockTypeOK
<1>2. ASSUME NEW r \in Requests, NEW k \in Keys, Acquire(r, k) PROVE LeaseOwned'
  <2>1. PICK place \in Places : at' = [at EXCEPT ![r] = place]
    BY <1>2 DEF Acquire, Go, WithoutRedis, Places
  <2> QED
    BY <1>1, <1>2, <2>1 DEF Acquire, LockTypeOK
<1>3. ASSUME NEW r \in Requests, TakeLease(r) PROVE LeaseOwned'
  <2>1. CASE UNCHANGED lease
    BY <1>3, <2>1 DEF TakeLease, Go, LeaseOwned, LockTypeOK
  <2>2. CASE ~UNCHANGED lease
    BY <1>3, <2>2 DEF TakeLease, Go, LeaseOwned, LockTypeOK
  <2> QED
    BY <2>1, <2>2
<1>4. ASSUME NEW r \in Requests,
             LoseReply(r) \/ LeaseTimeout(r) \/ LeaseThrows(r) \/ TakeSemaphore(r)
               \/ SemaphoreTimeout(r) \/ Leave(r) \/ ReleaseSemaphore(r)
      PROVE  LeaseOwned'
  <2>1. PICK place \in Places : at' = [at EXCEPT ![r] = place]
    <3>1. CASE LoseReply(r) \/ LeaseTimeout(r) \/ LeaseThrows(r)
      BY <3>1, WithoutRedisType DEF LoseReply, LeaseTimeout, LeaseThrows, Go, Places
    <3>2. CASE TakeSemaphore(r)
      BY <3>2 DEF TakeSemaphore, Go, Places
    <3>3. CASE SemaphoreTimeout(r) \/ Leave(r) \/ ReleaseSemaphore(r)
      BY <3>3 DEF SemaphoreTimeout, Leave, ReleaseSemaphore, Go, Places
    <3> QED
      BY <1>4, <3>1, <3>2, <3>3
  <2>2. UNCHANGED lease \/ lease' = [lease EXCEPT ![key[r]] = Orphan]
    BY <1>4 DEF LoseReply, LeaseTimeout, LeaseThrows, TakeSemaphore, SemaphoreTimeout,
                Leave, ReleaseSemaphore
  <2>3. UNCHANGED key /\ at[r] # "redisHeld"
    BY <1>4 DEF LoseReply, LeaseTimeout, LeaseThrows, TakeSemaphore, SemaphoreTimeout,
                Leave, ReleaseSemaphore
  <2> QED
    BY <1>1, <2>1, <2>2, <2>3
<1>5. ASSUME NEW r \in Requests, ReleaseLease(r) PROVE LeaseOwned'
  <2>1. UNCHANGED key /\ at' = [at EXCEPT ![r] = "out"]
    BY <1>5 DEF ReleaseLease, Go
  <2>2. /\ lease' = [lease EXCEPT ![key[r]] = lease'[key[r]]]
        /\ lease'[key[r]] # r
        /\ lease'[key[r]] \in {lease[key[r]], Free, Orphan}
    BY <1>5 DEF ReleaseLease, Deleted, Abandoned, LockTypeOK
  <2> QED
    BY <2>1, <2>2 DEF LeaseOwned, LockTypeOK
<1>6. ASSUME RedisNext PROVE LeaseOwned'
  <2>1. ASSUME NEW k \in Keys, LeaseExpires(k) PROVE LeaseOwned'
    BY <2>1 DEF LeaseExpires, LeaseOwned, LockTypeOK
  <2>2. CASE UNCHANGED <<lease, at, key>>
    BY <2>2 DEF LeaseOwned
  <2> QED
    BY <1>6, <2>1, <2>2 DEF RedisNext, RedisChanges, ConnectionEvent
<1>7. ASSUME UNCHANGED lvars PROVE LeaseOwned'
  BY <1>7 DEF lvars, LeaseOwned
<1> QED
  BY <1>2, <1>3, <1>4, <1>5, <1>6, <1>7 DEF LockNext, Acquiring, Release

\* LockInv is inductive, for any numbers of servers, requests and keys.
THEOREM LocksInductive == LockSpec => []LockInv
<1>1. LockInit => LockInv
  BY LockAssumption DEF LockInit, LockInv, LockTypeOK, SemaphoreBalance, LeaseOwned,
                        MemoryHolders, Places
<1>2. LockInv /\ [LockNext]_lvars => LockInv'
  BY TypeStep, BalanceStep, OwnedStep DEF LockInv
<1> QED
  BY <1>1, <1>2, PTL DEF LockSpec

\* No semaphore is lost or given back twice, whatever Redis does
\* (SemaphoreBalance).
THEOREM SemaphoresBalanced == LockSpec => []SemaphoreBalance
<1>1. LockInv => SemaphoreBalance
  BY DEF LockInv
<1> QED
  BY <1>1, LocksInductive, PTL

\* Only a lock's holder and its expiry remove it from Redis (LeaseKept).
THEOREM LeasesKept == LockSpec => LeaseKept
<1> DEFINE Kept == \A k \in Keys : lease[k] \in Requests /\ lease'[k] # lease[k] =>
                     at'[lease[k]] # "redisHeld" \/ at' = at
<1>1. LockInv /\ [LockNext]_lvars => [Kept]_lvars
  <2> SUFFICES ASSUME LockInv, LockNext,
                      NEW k \in Keys, lease[k] \in Requests, lease'[k] # lease[k]
               PROVE  at'[lease[k]] # "redisHeld" \/ at' = at
    BY DEF lvars
  <2> USE LockAssumption
  <2>1. at[lease[k]] = "redisHeld" /\ key[lease[k]] = k
    BY DEF LockInv, LeaseOwned
  <2>2. CASE RedisNext
    BY <2>2 DEF RedisNext, LeaseExpires, RedisChanges, ConnectionEvent
  <2>3. ASSUME NEW r \in Requests, ReleaseLease(r)
        PROVE  at'[lease[k]] # "redisHeld"
    <3>1. lease[k] = r
      BY <2>3 DEF ReleaseLease, Deleted, Abandoned, LockInv, LockTypeOK
    <3> QED
      BY <2>3, <3>1 DEF ReleaseLease, Go, LockInv, LockTypeOK
  <2>4. ASSUME NEW r \in Requests, TakeLease(r) \/ LoseReply(r) PROVE FALSE
    BY <2>4 DEF TakeLease, LoseReply, LockInv, LockTypeOK
  <2>5. ASSUME NEW r \in Requests,
               (\E j \in Keys : Acquire(r, j)) \/ LeaseTimeout(r) \/ LeaseThrows(r)
                 \/ TakeSemaphore(r) \/ SemaphoreTimeout(r) \/ Leave(r) \/ ReleaseSemaphore(r)
        PROVE  FALSE
    BY <2>5 DEF Acquire, LeaseTimeout, LeaseThrows, TakeSemaphore, SemaphoreTimeout, Leave,
                ReleaseSemaphore
  <2> QED
    BY <2>2, <2>3, <2>4, <2>5 DEF LockNext, Acquiring, Release
<1> QED
  BY <1>1, LocksInductive, PTL DEF LockSpec, LeaseKept

\* The semaphores of the servers implement Mutex (SemaphoresExclude).
THEOREM SemaphoresImplementMutex == LockSpec => SemaphoresExclude
<1> DEFINE h == [n \in Instances \X Keys |-> MemoryHolders(n[1], n[2])]
<1>1. LockInit => Semaphores!Init
  BY LockAssumption DEF LockInit, Semaphores!Init, MemoryHolders
<1>2. LockInv /\ [LockNext]_lvars => [Semaphores!Next]_h
  <2> SUFFICES ASSUME LockInv, [LockNext]_lvars PROVE Semaphores!Next \/ h' = h
    OBVIOUS
  <2> USE DEF LockInv
  <2>1. ASSUME \A i \in Instances, k \in Keys : MemoryHolders(i, k)' = MemoryHolders(i, k)
        PROVE  h' = h
    BY <2>1
  <2>2. ASSUME NEW r \in Requests, Taking(r) PROVE Semaphores!Next
    <3>1. PICK i \in Instances, c \in Keys :
            /\ MemoryHolders(i, c) = {} /\ MemoryHolders(i, c)' = {r}
            /\ \A j \in Instances, k \in Keys : j # i \/ k # c =>
                 MemoryHolders(j, k)' = MemoryHolders(j, k)
      BY <2>2, TakingHolders
    <3>2. h[<<i, c>>] = {} /\ h' = [h EXCEPT ![<<i, c>>] = {r}]
      <4>1. \A j \in Instances, k \in Keys :
              MemoryHolders(j, k)' = IF <<j, k>> = <<i, c>> THEN {r} ELSE MemoryHolders(j, k)
        BY <3>1
      <4>2. \A n \in Instances \X Keys :
              h'[n] = IF n = <<i, c>> THEN {r} ELSE h[n]
        BY <4>1
      <4> QED
        BY <3>1, <4>2
    <3>3. Semaphores!Take(<<i, c>>, r)
      BY <3>2 DEF Semaphores!Take
    <3> QED
      BY <3>3 DEF Semaphores!Next
  <2>3. ASSUME NEW r \in Requests, ReleaseSemaphore(r) PROVE Semaphores!Next
    <3>1. PICK i \in Instances, c \in Keys :
            /\ MemoryHolders(i, c) = {r} /\ MemoryHolders(i, c)' = {}
            /\ \A j \in Instances, k \in Keys : j # i \/ k # c =>
                 MemoryHolders(j, k)' = MemoryHolders(j, k)
      BY <2>3, ReleasingHolders
    <3>2. h[<<i, c>>] = {r} /\ h' = [h EXCEPT ![<<i, c>>] = {}]
      <4>1. \A j \in Instances, k \in Keys :
              MemoryHolders(j, k)' = IF <<j, k>> = <<i, c>> THEN {} ELSE MemoryHolders(j, k)
        BY <3>1
      <4>2. \A n \in Instances \X Keys :
              h'[n] = IF n = <<i, c>> THEN {} ELSE h[n]
        BY <4>1
      <4> QED
        BY <3>1, <4>2
    <3>3. Semaphores!GiveBack(<<i, c>>, r)
      BY <3>2 DEF Semaphores!GiveBack
    <3> QED
      BY <3>3 DEF Semaphores!Next
  <2> QED
    BY <2>1, <2>2, <2>3, Steps, ElsewhereHolders, RedisHolders
<1> QED
  BY <1>1, <1>2, LocksInductive, PTL DEF LockSpec, SemaphoresExclude, Semaphores!Spec

--------------------------------------------------------------------------------

\* The steps of the handler that touch the locks take one step of them, and those
\* that do not may find Redis again.
Reconnecting == connected' \in [Instances -> BOOLEAN]
                /\ UNCHANGED <<up, provider, lease, semaphore, at, key>>

LEMMA ReachConnected ==
  ASSUME LockTypeOK, NEW i \in Instances, NEW s, Reach(i, s)
  PROVE  connected' \in [Instances -> BOOLEAN]
  BY ReconnectType DEF Reach, LockTypeOK

LEMMA ReconnectingInv == LockInv /\ Reconnecting => LockInv'
<1> SUFFICES ASSUME LockInv, Reconnecting PROVE LockInv'
  OBVIOUS
<1>1. LockTypeOK'
  BY DEF LockInv, LockTypeOK, Reconnecting
<1>2. \A i \in Instances, k \in Keys : MemoryHolders(i, k)' = MemoryHolders(i, k)
  BY DEF MemoryHolders, Reconnecting
<1>3. SemaphoreBalance'
  BY <1>2 DEF LockInv, SemaphoreBalance, Reconnecting
<1>4. LeaseOwned'
  BY DEF LockInv, LeaseOwned, Reconnecting
<1> QED
  BY <1>1, <1>3, <1>4 DEF LockInv

LEMMA KeyType == ASSUME NEW a \in Ask PROVE KeyOf(a) \in Keys /\ KeyOf(a)[1] = a.caller
  BY ProxyAssumption DEF Ask, KeyOf

LEMMA EntryType == ASSUME NEW a \in Ask PROVE EntryOf(a) \in Entry /\ EntryOf(a).caller = a.caller
  BY DEF Ask, Entry, EntryOf, UrlOf, Urls

LEMMA HomeType == ASSUME NEW r \in Requests PROVE HomeOf[r] \in Instances
  BY LockAssumption

LEMMA LooksReconnects ==
  ASSUME LockTypeOK, NEW r \in Requests, NEW hit, NEW miss, NEW throws, Look(r, hit, miss, throws)
  PROVE  Reconnecting /\ UNCHANGED <<cache, ask>>
  BY HomeType, ReachConnected DEF Look, Reconnecting

LEMMA StoreReconnects ==
  ASSUME LockTypeOK, NEW r \in Requests, Store(r)
  PROVE  Reconnecting
  BY HomeType, ReachConnected DEF Store, Reconnecting

\* The steps, by what they do to the locks.
LEMMA LockPart ==
  ASSUME ProxyTypeOK, [ProxyNext]_vars
  PROVE  [LockNext]_lvars \/ Reconnecting
<1> USE DEF ProxyTypeOK
<1>1. ASSUME NEW r \in Requests, Serve(r) PROVE [LockNext]_lvars \/ Reconnecting
  <2>1. CASE Get(r) \/ Recheck(r)
    BY <2>1, LooksReconnects DEF Get, Recheck
  <2>2. CASE Store(r)
    BY <2>2, StoreReconnects
  <2>3. CASE Lock(r)
    BY <2>3, KeyType DEF Lock, LockNext
  <2>4. CASE LockStep(r) \/ Locked(r) \/ Finish(r)
    BY <2>4 DEF LockStep, Locked, Finish, LockNext
  <2>5. CASE Fetch(r) \/ Bypass(r)
    BY <2>5 DEF Fetch, Bypass
  <2> QED
    BY <1>1, <2>1, <2>2, <2>3, <2>4, <2>5 DEF Serve
<1>2. ASSUME NEW r \in Requests, (\E a \in Ask : Arrive(r, a)) \/ Retry(r)
      PROVE  [LockNext]_lvars
  BY <1>2 DEF Arrive, Retry, LockNext
<1>3. CASE (\E s \in Stores, k \in Keys : EntryGone(s, k)) \/ UNCHANGED vars
  BY <1>3 DEF EntryGone, vars
<1>4. CASE RedisNext
  BY <1>4 DEF LockNext
<1> QED
  BY <1>1, <1>2, <1>3, <1>4 DEF ProxyNext

LEMMA LockInvStep == ProxyTypeOK /\ LockInv /\ [ProxyNext]_vars => LockInv'
<1>1. LockInv /\ [LockNext]_lvars => LockInv'
  BY TypeStep, BalanceStep, OwnedStep DEF LockInv
<1> QED
  BY <1>1, LockPart, ReconnectingInv

LEMMA GotoType ==
  ASSUME ProxyTypeOK, NEW r \in Requests, NEW stage \in Stages, Goto(r, stage)
  PROVE  pc' \in [Requests -> Stages]
  BY DEF ProxyTypeOK, Goto

LEMMA ProxyTypeStep == ProxyTypeOK /\ LockInv /\ [ProxyNext]_vars => ProxyTypeOK'
<1> SUFFICES ASSUME ProxyTypeOK, LockInv, [ProxyNext]_vars PROVE ProxyTypeOK'
  OBVIOUS
<1>0. LockTypeOK'
  BY LockInvStep DEF LockInv
<1> USE DEF ProxyTypeOK
<1>1. ASSUME NEW r \in Requests, Serve(r) PROVE ProxyTypeOK'
  <2>1. CASE Get(r)
    <3>1. pc' \in [Requests -> Stages]
      BY <2>1 DEF Get, Look, Goto, Stages
    <3> QED
      BY <1>0, <2>1, <3>1 DEF Get, Look
  <2>2. CASE Recheck(r)
    <3>1. pc' \in [Requests -> Stages]
      BY <2>2 DEF Recheck, Look, Goto, Stages
    <3> QED
      BY <1>0, <2>2, <3>1 DEF Recheck, Look
  <2>3. CASE Store(r)
    <3>1. pc' \in [Requests -> Stages]
      BY <2>3 DEF Store, Goto, Stages
    <3>2. KeyOf(ask[r]) \in Keys /\ EntryOf(ask[r]) \in Entry
      BY KeyType, EntryType
    <3>3. cache' \in [Stores -> [Keys -> Entry \cup {NoEntry}]]
      BY <2>3, <3>2 DEF Store
    <3> QED
      BY <1>0, <2>3, <3>1, <3>3 DEF Store
  <2>4. CASE Lock(r) \/ Locked(r) \/ Fetch(r) \/ Finish(r) \/ Bypass(r)
    <3>1. pc' \in [Requests -> Stages]
      BY <2>4 DEF Lock, Locked, Fetch, Finish, Bypass, Goto, Stages
    <3> QED
      BY <1>0, <2>4, <3>1 DEF Lock, Locked, Fetch, Finish, Bypass
  <2>5. CASE LockStep(r)
    BY <1>0, <2>5 DEF LockStep, pvars
  <2> QED
    BY <1>1, <2>1, <2>2, <2>3, <2>4, <2>5 DEF Serve
<1>2. ASSUME NEW r \in Requests, NEW a \in Ask, Arrive(r, a) PROVE ProxyTypeOK'
  <2>1. pc' \in [Requests -> Stages] /\ ask' \in [Requests -> Ask]
    BY <1>2 DEF Arrive, Goto, Stages
  <2> QED
    BY <1>0, <1>2, <2>1 DEF Arrive
<1>3. ASSUME NEW r \in Requests, Retry(r) PROVE ProxyTypeOK'
  BY <1>0, <1>3 DEF Retry, pvars
<1>4. ASSUME NEW s \in Stores, NEW k \in Keys, EntryGone(s, k) PROVE ProxyTypeOK'
  BY <1>0, <1>4 DEF EntryGone
<1>5. CASE (RedisNext /\ UNCHANGED pvars) \/ UNCHANGED vars
  BY <1>0, <1>5 DEF vars, pvars
<1> QED
  BY <1>1, <1>2, <1>3, <1>4, <1>5 DEF ProxyNext

--------------------------------------------------------------------------------
(* The lock that a request holds at each stage. *)
HandleInv ==
  \A r \in Requests :
    /\ pc[r] \in {"recheck", "fetch", "store", "release"} =>
         at[r] \in {"redisHeld", "memoryHeld"} /\ key[r] = KeyOf(ask[r])
    /\ pc[r] \in {"idle", "get", "lock", "bypass", "failed"} => at[r] = "out"
    /\ pc[r] = "locking" => key[r] = KeyOf(ask[r])
    /\ at[r] \in {"redis", "redisWait", "redisHeld"} => provider[HomeOf[r]] = "redis"

\* Other requests than r stay where they are.
OthersStay(r) ==
  \A q \in Requests \ {r} :
    pc'[q] = pc[q] /\ at'[q] = at[q] /\ key'[q] = key[q] /\ ask'[q] = ask[q]

LEMMA HandleLocal ==
  ASSUME HandleInv, NEW r \in Requests, OthersStay(r), UNCHANGED provider,
         pc'[r] \in {"recheck", "fetch", "store", "release"} =>
           at'[r] \in {"redisHeld", "memoryHeld"} /\ key'[r] = KeyOf(ask'[r]),
         pc'[r] \in {"idle", "get", "lock", "bypass", "failed"} => at'[r] = "out",
         pc'[r] = "locking" => key'[r] = KeyOf(ask'[r]),
         at'[r] \in {"redis", "redisWait", "redisHeld"} => provider[HomeOf[r]] = "redis"
  PROVE  HandleInv'
  BY DEF HandleInv, OthersStay, KeyOf

LEMMA AcquiringLocal ==
  ASSUME LockTypeOK, NEW r \in Requests, Acquiring(r) \/ LoseReply(r)
  PROVE  /\ UNCHANGED <<provider, key>>
         /\ \A q \in Requests \ {r} : at'[q] = at[q]
         /\ at'[r] \in {"redis", "redisWait", "redisHeld"} => at[r] \in {"redis", "redisWait"}
<1>1. CASE TakeLease(r) \/ LoseReply(r)
  BY <1>1 DEF TakeLease, LoseReply, Go, LockTypeOK
<1>2. CASE LeaseTimeout(r) \/ LeaseThrows(r)
  BY <1>2 DEF LeaseTimeout, LeaseThrows, Go, WithoutRedis, LockTypeOK
<1>3. CASE TakeSemaphore(r) \/ SemaphoreTimeout(r)
  BY <1>3 DEF TakeSemaphore, SemaphoreTimeout, Go, LockTypeOK
<1> QED
  BY <1>1, <1>2, <1>3 DEF Acquiring

LEMMA HandleServe ==
  ASSUME ProxyTypeOK, HandleInv, NEW r \in Requests, Serve(r) \/ Retry(r)
  PROVE  HandleInv'
<1> USE DEF ProxyTypeOK, LockTypeOK
<1>1. CASE Get(r)
  <2>1. UNCHANGED <<provider, at, key, ask>> /\ OthersStay(r) /\ pc'[r] \in {"idle", "lock", "failed"}
    BY <1>1 DEF Get, Look, Goto, OthersStay
  <2>2. at[r] = "out"
    BY <1>1 DEF Get, HandleInv
  <2> QED
    BY <2>1, <2>2, HandleLocal
<1>2. CASE Recheck(r)
  <2>1. UNCHANGED <<provider, at, key, ask>> /\ OthersStay(r) /\ pc'[r] \in {"release", "fetch"}
    BY <1>2 DEF Recheck, Look, Goto, OthersStay
  <2>2. at[r] \in {"redisHeld", "memoryHeld"} /\ key[r] = KeyOf(ask[r])
    BY <1>2 DEF Recheck, HandleInv
  <2> QED
    BY <2>1, <2>2, HandleLocal DEF HandleInv
<1>3. CASE Fetch(r) \/ Store(r)
  <2>1. UNCHANGED <<provider, at, key, ask>> /\ OthersStay(r) /\ pc'[r] \in {"release", "store"}
    BY <1>3 DEF Fetch, Store, Goto, OthersStay, lvars
  <2>2. at[r] \in {"redisHeld", "memoryHeld"} /\ key[r] = KeyOf(ask[r])
    BY <1>3 DEF Fetch, Store, HandleInv
  <2> QED
    BY <2>1, <2>2, HandleLocal DEF HandleInv
<1>4. CASE Lock(r)
  <2>1. UNCHANGED <<provider, ask>> /\ OthersStay(r) /\ pc'[r] = "locking" /\ key'[r] = KeyOf(ask[r])
    BY <1>4 DEF Lock, Acquire, Go, Goto, OthersStay
  <2>2. at'[r] \in {"redis", "redisWait", "redisHeld"} => provider[HomeOf[r]] = "redis"
    BY <1>4 DEF Lock, Acquire, Go
  <2> QED
    BY <2>1, <2>2, HandleLocal
<1>5. CASE Locked(r)
  <2>1. CASE at[r] \in {"redisHeld", "memoryHeld"} /\ Goto(r, "recheck") /\ UNCHANGED lvars
    <3>1. UNCHANGED <<provider, at, key, ask>> /\ OthersStay(r) /\ pc'[r] = "recheck"
      BY <1>5, <2>1 DEF Locked, Goto, OthersStay, lvars
    <3>2. key[r] = KeyOf(ask[r])
      BY <1>5 DEF Locked, HandleInv
    <3> QED
      BY <2>1, <3>1, <3>2, HandleLocal DEF HandleInv
  <2>2. CASE Leave(r) /\ pc'[r] \in {"bypass", "failed"} /\ \A q \in Requests \ {r} : pc'[q] = pc[q]
    <3>1. UNCHANGED <<provider, key, ask>> /\ OthersStay(r) /\ at'[r] = "out"
      BY <1>5, <2>2 DEF Locked, Leave, Go, OthersStay
    <3> QED
      BY <2>2, <3>1, HandleLocal
  <2> QED
    BY <1>5, <2>1, <2>2 DEF Locked, Goto
<1>6. CASE Finish(r)
  <2>1. UNCHANGED <<provider, key, ask>> /\ OthersStay(r) /\ at'[r] = "out" /\ pc'[r] = "idle"
    BY <1>6 DEF Finish, Release, ReleaseSemaphore, ReleaseLease, Go, Goto, OthersStay
  <2> QED
    BY <2>1, HandleLocal
<1>7. CASE Bypass(r)
  <2>1. UNCHANGED <<provider, at, key, ask>> /\ OthersStay(r) /\ pc'[r] = "idle"
    BY <1>7 DEF Bypass, Goto, OthersStay, lvars
  <2>2. at[r] = "out"
    BY <1>7 DEF Bypass, HandleInv
  <2> QED
    BY <2>1, <2>2, HandleLocal
<1>8. CASE LockStep(r) \/ Retry(r)
  <2>1. /\ Acquiring(r) \/ LoseReply(r)
        /\ pc[r] = "locking" /\ UNCHANGED pvars
    BY <1>8 DEF LockStep, Retry
  <2>2. UNCHANGED <<provider, key, ask, pc>> /\ OthersStay(r)
    BY <2>1, AcquiringLocal DEF OthersStay, pvars
  <2>3. at'[r] \in {"redis", "redisWait", "redisHeld"} => provider[HomeOf[r]] = "redis"
    BY <2>1, AcquiringLocal DEF HandleInv
  <2>4. key[r] = KeyOf(ask[r])
    BY <2>1 DEF HandleInv
  <2> QED
    BY <2>1, <2>2, <2>3, <2>4, HandleLocal
<1> QED
  BY <1>1, <1>2, <1>3, <1>4, <1>5, <1>6, <1>7, <1>8 DEF Serve

LEMMA HandleStep == ProxyTypeOK /\ HandleInv /\ [ProxyNext]_vars => HandleInv'
<1> SUFFICES ASSUME ProxyTypeOK, HandleInv, [ProxyNext]_vars PROVE HandleInv'
  OBVIOUS
<1>1. ASSUME NEW r \in Requests, NEW a \in Ask, Arrive(r, a) PROVE HandleInv'
  <2>1. UNCHANGED <<provider, at, key>> /\ OthersStay(r) /\ pc'[r] = "get"
    BY <1>1 DEF Arrive, Goto, OthersStay, lvars, ProxyTypeOK
  <2>2. at[r] = "out"
    BY <1>1 DEF Arrive, HandleInv
  <2> QED
    BY <2>1, <2>2, HandleLocal
<1>2. CASE UNCHANGED <<provider, at, key, ask, pc>>
  BY <1>2 DEF HandleInv, KeyOf
<1>3. (\E s \in Stores, k \in Keys : EntryGone(s, k)) \/ (RedisNext /\ UNCHANGED pvars)
        \/ UNCHANGED vars => UNCHANGED <<provider, at, key, ask, pc>>
  BY DEF EntryGone, RedisNext, LeaseExpires, RedisChanges, ConnectionEvent, lvars, pvars, vars
<1> QED
  BY <1>1, <1>2, <1>3, HandleServe DEF ProxyNext

LEMMA ProviderKept ==
  ASSUME [ProxyNext]_vars
  PROVE  UNCHANGED provider
<1>1. ASSUME NEW r \in Requests, Acquiring(r) \/ LoseReply(r) \/ Leave(r) \/ Release(r)
      PROVE  UNCHANGED provider
  BY <1>1 DEF Acquiring, TakeLease, LoseReply, LeaseTimeout, LeaseThrows, TakeSemaphore,
         SemaphoreTimeout, Leave, Release, ReleaseSemaphore, ReleaseLease
<1>2. ASSUME NEW r \in Requests, Serve(r) PROVE UNCHANGED provider
  BY <1>1, <1>2 DEF Serve, Get, Recheck, Look, Lock, Acquire, LockStep, Locked, Fetch, Store,
         Finish, Bypass, lvars
<1> QED
  BY <1>1, <1>2 DEF ProxyNext, Arrive, Retry, EntryGone, RedisNext, LeaseExpires, RedisChanges,
       ConnectionEvent, lvars, vars

\* What the steps do to the caches and to the stages.
LEMMA CacheSteps ==
  ASSUME ProxyTypeOK, [ProxyNext]_vars
  PROVE  \/ \E r \in Requests : Store(r)
         \/ \E s \in Stores, k \in Keys : EntryGone(s, k)
         \/ UNCHANGED cache
<1>1. ASSUME NEW r \in Requests, Serve(r) PROVE Store(r) \/ UNCHANGED cache
  BY <1>1 DEF Serve, Get, Recheck, Look, Lock, LockStep, Locked, Fetch, Finish, Bypass, pvars
<1> QED
  BY <1>1 DEF ProxyNext, Arrive, Retry, pvars, vars

LEMMA Stored ==
  ASSUME ProxyTypeOK, NEW r \in Requests, Store(r)
  PROVE  \/ UNCHANGED cache
         \/ \E s \in Stores : /\ Reach(HomeOf[r], s)
                              /\ cache' = [cache EXCEPT ![s][KeyOf(ask[r])] = EntryOf(ask[r])]
  BY DEF Store

--------------------------------------------------------------------------------
(* The entries of a key are those of its caller. *)
EntriesInv ==
  \A s \in Stores, k \in Keys : cache[s][k] # NoEntry => cache[s][k].caller = k[1]

LEMMA EntriesStep == ProxyTypeOK /\ EntriesInv /\ [ProxyNext]_vars => EntriesInv'
<1> SUFFICES ASSUME ProxyTypeOK, EntriesInv, [ProxyNext]_vars,
                    NEW s \in Stores, NEW k \in Keys, cache'[s][k] # NoEntry
             PROVE  cache'[s][k].caller = k[1]
  BY DEF EntriesInv
<1>1. CASE cache'[s][k] = cache[s][k]
  BY <1>1 DEF EntriesInv
<1>2. ASSUME NEW r \in Requests, NEW t \in Stores,
             cache' = [cache EXCEPT ![t][KeyOf(ask[r])] = EntryOf(ask[r])]
      PROVE  cache'[s][k].caller = k[1]
  <2>1. ask[r] \in Ask
    BY DEF ProxyTypeOK
  <2>2. CASE s = t /\ k = KeyOf(ask[r])
    <3>1. cache'[s][k] = EntryOf(ask[r])
      BY <1>2, <2>1, <2>2, KeyType DEF ProxyTypeOK
    <3> QED
      BY <2>1, <2>2, <3>1, KeyType, EntryType
  <2>3. CASE ~(s = t /\ k = KeyOf(ask[r]))
    <3>1. cache'[s][k] = cache[s][k]
      BY <1>2, <2>3 DEF ProxyTypeOK
    <3> QED
      BY <1>1, <3>1
  <2> QED
    BY <2>2, <2>3
<1>3. ASSUME NEW t \in Stores, NEW l \in Keys, EntryGone(t, l)
      PROVE  cache'[s][k] = cache[s][k]
  BY <1>3 DEF EntryGone, ProxyTypeOK
<1> QED
  BY <1>1, <1>2, <1>3, CacheSteps, Stored

--------------------------------------------------------------------------------
(* The double check holds until the request has stored its answer. *)
OnMemory(r) == provider[HomeOf[r]] = "memory"

FetchInv ==
  \A r \in Requests :
    OnMemory(r) /\ pc[r] \in {"fetch", "store"} => cache[HomeOf[r]][KeyOf(ask[r])] = NoEntry

\* A server writes to its own memory, and reads it.
LEMMA ReachOwn ==
  ASSUME NEW i \in Instances, NEW s \in Stores, Reach(i, s)
  PROVE  (s # Redis => s = i) /\ (provider[i] = "memory" => s = i)
  BY ProxyAssumption DEF Reach, Aside, Stores

\* Two requests are not behind the double check of a key of a server's memory.
LEMMA FetchersApart ==
  ASSUME ProxyTypeOK, LockInv, HandleInv, NEW r \in Requests, NEW q \in Requests,
         OnMemory(r), pc[r] \in {"fetch", "store"}, pc[q] \in {"fetch", "store"},
         HomeOf[q] = HomeOf[r], KeyOf(ask[q]) = KeyOf(ask[r])
  PROVE  q = r
<1> DEFINE i == HomeOf[r]
           k == KeyOf(ask[r])
<1>1. i \in Instances /\ k \in Keys
  BY HomeType, KeyType DEF ProxyTypeOK
<1>2. /\ at[r] = "memoryHeld" /\ key[r] = k
      /\ at[q] = "memoryHeld" /\ key[q] = k
  BY DEF HandleInv, OnMemory
<1>3. r \in MemoryHolders(i, k) /\ q \in MemoryHolders(i, k)
  BY <1>2 DEF MemoryHolders
<1> HIDE DEF i, k
<1>4. semaphore[i][k] = 0
  BY <1>1, <1>3 DEF LockInv, SemaphoreBalance
<1>5. PICK h \in Requests : MemoryHolders(i, k) = {h}
  BY <1>1, <1>4 DEF LockInv, SemaphoreBalance
<1> QED
  BY <1>3, <1>5

\* How a request comes behind the double check.
LEMMA Entering ==
  ASSUME ProxyTypeOK, [ProxyNext]_vars, NEW r \in Requests, pc'[r] \in {"fetch", "store"}
  PROVE  /\ ask'[r] = ask[r]
         /\ pc[r] \in {"fetch", "store"} \/ Recheck(r)
         /\ ~Store(r)
<1> USE DEF ProxyTypeOK
<1>1. ASSUME NEW q \in Requests, Serve(q) PROVE ask'[r] = ask[r] /\ (q # r => pc'[r] = pc[r])
  BY <1>1 DEF Serve, Get, Recheck, Look, Lock, LockStep, Locked, Fetch, Store, Finish, Bypass,
         Goto, pvars
<1>2. ASSUME Serve(r) PROVE pc[r] \in {"fetch", "store"} \/ Recheck(r)
  BY <1>2 DEF Serve, Get, Look, Lock, LockStep, Locked, Fetch, Store, Finish, Bypass, Goto, pvars
<1>3. ASSUME NEW q \in Requests, NEW a \in Ask, Arrive(q, a)
      PROVE  ask'[r] = ask[r] /\ pc'[r] = pc[r]
  BY <1>3 DEF Arrive, Goto
<1>4. ASSUME (\E q \in Requests : Retry(q)) \/ (\E s \in Stores, k \in Keys : EntryGone(s, k))
               \/ (RedisNext /\ UNCHANGED pvars) \/ UNCHANGED vars
      PROVE  ask'[r] = ask[r] /\ pc'[r] = pc[r]
  BY <1>4 DEF Retry, EntryGone, pvars, vars
<1>5. ~Store(r)
  BY DEF Store, Goto
<1> QED
  BY <1>1, <1>2, <1>3, <1>4, <1>5 DEF ProxyNext

LEMMA FetchStep ==
  ProxyTypeOK /\ LockInv /\ HandleInv /\ FetchInv /\ [ProxyNext]_vars => FetchInv'
<1> SUFFICES ASSUME ProxyTypeOK, LockInv, HandleInv, FetchInv, [ProxyNext]_vars,
                    NEW r \in Requests, provider'[HomeOf[r]] = "memory",
                    pc'[r] \in {"fetch", "store"}
             PROVE  cache'[HomeOf[r]][KeyOf(ask'[r])] = NoEntry
  BY DEF FetchInv, OnMemory, KeyOf
<1> DEFINE i == HomeOf[r]
           k == KeyOf(ask[r])
<1>1. OnMemory(r) /\ KeyOf(ask'[r]) = k /\ ~Store(r)
  BY ProviderKept, Entering DEF OnMemory
<1>2. i \in Instances /\ i \in Stores /\ i # Redis /\ k \in Keys
  BY HomeType, KeyType, ProxyAssumption DEF ProxyTypeOK, Stores
<1>3. CASE Recheck(r)
  <2>1. PICK s \in Stores \cup {Nowhere, Throws} :
          /\ Reach(i, s)
          /\ Goto(r, IF s = Throws THEN "release"
                     ELSE IF Read(s, k) = NoEntry THEN "fetch" ELSE "release")
    BY <1>3 DEF Recheck, Look
  <2>2. s = i
    BY <1>1, <2>1 DEF Reach, OnMemory
  <2>3. Read(s, k) = NoEntry
    BY <2>1 DEF Goto, ProxyTypeOK
  <2>4. cache[i][k] = NoEntry
    BY <1>2, <2>2, <2>3 DEF Read
  <2> QED
    BY <1>1, <1>3, <2>4 DEF Recheck, Look
<1>4. CASE pc[r] \in {"fetch", "store"}
  <2>1. cache[i][k] = NoEntry
    BY <1>1, <1>4 DEF FetchInv
  <2>2. ASSUME NEW q \in Requests, Store(q) PROVE cache'[i][k] = NoEntry
    <3>1. CASE UNCHANGED cache
      BY <2>1, <3>1
    <3>2. ASSUME NEW s \in Stores, Reach(HomeOf[q], s),
                 cache' = [cache EXCEPT ![s][KeyOf(ask[q])] = EntryOf(ask[q])]
          PROVE  cache'[i][k] = NoEntry
      <4>1. q # r /\ pc[q] = "store"
        BY <1>1, <2>2 DEF Store
      <4>2. ~(s = i /\ KeyOf(ask[q]) = k)
        BY <1>1, <1>2, <1>4, <3>2, <4>1, ReachOwn, HomeType, FetchersApart
      <4> HIDE DEF i, k
      <4>3. cache'[i][k] = cache[i][k]
        BY <1>2, <3>2, <4>2 DEF ProxyTypeOK
      <4> QED
        BY <2>1, <4>3
    <3> QED
      BY <2>2, <3>1, <3>2, Stored
  <2>3. ASSUME NEW s \in Stores, NEW l \in Keys, EntryGone(s, l) PROVE cache'[i][k] = NoEntry
    <3> HIDE DEF i, k
    <3> QED
      BY <1>2, <2>1, <2>3 DEF EntryGone, ProxyTypeOK
  <2> QED
    BY <1>1, <2>1, <2>2, <2>3, CacheSteps
<1> QED
  BY <1>3, <1>4, Entering

--------------------------------------------------------------------------------
ProxyInv == ProxyTypeOK /\ LockInv /\ HandleInv /\ EntriesInv /\ FetchInv

LEMMA ProxyStart == ProxyInit => ProxyInv
<1> SUFFICES ASSUME ProxyInit PROVE ProxyInv
  OBVIOUS
<1>1. LockInv
  BY LockAssumption DEF ProxyInit, LockInit, LockInv, LockTypeOK, SemaphoreBalance, LeaseOwned,
                        MemoryHolders, Places
<1>2. ASSUME NEW r \in Requests PROVE IdleAsk \in Ask
  <2>1. PICK k \in Callers \X Paths : k = key[r]
    BY ProxyAssumption DEF ProxyInit, LockInit
  <2>2. [caller |-> k[1], id |-> NoId, path |-> k[2]] \in Ask
    BY DEF Ask
  <2> QED
    BY <2>2 DEF IdleAsk
<1>3. ProxyTypeOK
  BY <1>1, <1>2 DEF LockInv, ProxyInit, ProxyTypeOK, Stages
<1>4. \A r \in Requests : pc[r] = "idle" /\ at[r] = "out"
  BY DEF ProxyInit, LockInit
<1>5. HandleInv /\ FetchInv
  BY <1>4 DEF HandleInv, FetchInv
<1>6. EntriesInv
  BY DEF ProxyInit, EntriesInv
<1> QED
  BY <1>1, <1>3, <1>5, <1>6 DEF ProxyInv

LEMMA ProxyStep == ProxyInv /\ [ProxyNext]_vars => ProxyInv'
  BY ProxyTypeStep, LockInvStep, HandleStep, EntriesStep, FetchStep DEF ProxyInv

LEMMA ProxyOk == ProxySpec => []ProxyInv
  BY ProxyStart, ProxyStep, PTL DEF ProxySpec

\* The handler and its locks have the types they are meant to have.
THEOREM ProxyTypeCorrect == ProxySpec => []ProxyTypeOK
<1>1. ProxyInv => ProxyTypeOK
  BY DEF ProxyInv
<1> QED
  BY <1>1, ProxyOk, PTL

\* No path through the handler, by hit, miss, refusal or exception, ends with a lock.
THEOREM NoLockKept == ProxySpec => []HandlesReturned
<1>1. ProxyInv => HandlesReturned
  BY DEF ProxyInv, HandleInv, HandlesReturned
<1> QED
  BY <1>1, ProxyOk, PTL

\* No answer fetched with a token reaches the caller of another.
THEOREM AnswersOfCaller == ProxySpec => []CallersApart
<1>1. ProxyInv => CallersApart
  <2> SUFFICES ASSUME ProxyInv, NEW r \in Requests, NEW s \in Stores,
                      cache[s][KeyOf(ask[r])] # NoEntry
               PROVE  cache[s][KeyOf(ask[r])].caller = ask[r].caller
    BY DEF CallersApart
  <2>1. ask[r] \in Ask
    BY DEF ProxyInv, ProxyTypeOK
  <2> QED
    BY <2>1, KeyType DEF ProxyInv, EntriesInv
<1> QED
  BY <1>1, ProxyOk, PTL

\* On a server that uses memory, one request at a time calls the service for a key,
\* and only while the key has no entry.
THEOREM OneFetch == ProxySpec => []FetchOnce
<1>1. ProxyInv => FetchOnce
  <2> SUFFICES ASSUME ProxyInv, NEW r \in Requests, OnMemory(r), pc[r] \in {"fetch", "store"},
                      NEW q \in Requests \ {r}, pc[q] \in {"fetch", "store"},
                      HomeOf[q] = HomeOf[r], KeyOf(ask[q]) = KeyOf(ask[r])
               PROVE  FALSE
    BY DEF FetchOnce, OnMemory, ProxyInv, FetchInv
  <2> QED
    BY FetchersApart DEF ProxyInv
<1> QED
  BY <1>1, ProxyOk, PTL
================================================================================
