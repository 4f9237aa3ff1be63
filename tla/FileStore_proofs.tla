--------------------------- MODULE FileStore_proofs ---------------------------
(***************************************************************************)
(* What holds of the file store for any number of requests, timers and     *)
(* files, any cache limit, and a disk that may fail or not.                *)
(***************************************************************************)
EXTENDS FileStoreChecks, SequenceTheorems, FiniteSetTheorems, TLAPS

\* A list without one of its elements.
LEMMA RemoveIs ==
  ASSUME NEW S, NEW s \in Seq(S), IsInjective(s), NEW e
  PROVE  /\ RemoveFirst(s, e) \in Seq(S)
         /\ IsInjective(RemoveFirst(s, e))
         /\ Range(RemoveFirst(s, e)) = Range(s) \ {e}
<1>1. CASE ~\E i \in 1..Len(s) : s[i] = e
  BY <1>1, RangeEquality DEF RemoveFirst
<1>2. ASSUME NEW i \in 1..Len(s), s[i] = e
      PROVE  /\ RemoveFirst(s, e) \in Seq(S)
             /\ IsInjective(RemoveFirst(s, e))
             /\ Range(RemoveFirst(s, e)) = Range(s) \ {e}
  <2> DEFINE n == Len(s)
             a == SubSeq(s, 1, i - 1)
             b == SubSeq(s, i + 1, n)
  <2>1. n \in Nat /\ DOMAIN s = 1..n /\ i \in 1..n
    BY LenProperties
  <2>2. {j \in 1..Len(s) : s[j] = e} = {i}
    BY <1>2, <2>1 DEF IsInjective
  <2>3. Min({i}) = i
    BY DEF Min
  <2>4. SelectInSeq(s, LAMBDA v : v = e) = i
    BY <2>2, <2>3 DEF SelectInSeq
  <2>5. RemoveFirst(s, e) = a \o b
    BY <1>2, <2>4 DEF RemoveFirst, RemoveAt
  <2>6. /\ a \in Seq(S) /\ Len(a) = i - 1 /\ \A j \in 1..i-1 : a[j] = s[j]
        /\ b \in Seq(S) /\ Len(b) = n - i /\ \A j \in 1..n-i : b[j] = s[i + j]
    <3>1. \A j \in 1..n : s[j] \in S
      BY ElementOfSeq
    <3>2. a \in Seq(S) /\ Len(a) = i - 1 /\ \A j \in 1..i-1 : a[j] = s[j]
      BY <2>1, <3>1
    <3>3. b \in Seq(S) /\ Len(b) = n - i /\ \A j \in 1..n-i : b[j] = s[i + j]
      <4> DEFINE m == i + 1
      <4>1. m \in Int /\ n \in Int /\ \A j \in m..n : s[j] \in S
        BY <2>1, <3>1
      <4> HIDE DEF n, m
      <4>2. /\ SubSeq(s, m, n) \in Seq(S)
            /\ Len(SubSeq(s, m, n)) = IF m <= n THEN n - m + 1 ELSE 0
            /\ \A j \in 1..n-m+1 : SubSeq(s, m, n)[j] = s[m + j - 1]
        BY <4>1, SubSeqProperties
      <4> USE DEF m
      <4>3. \A j \in 1..n-i : j \in 1..n-m+1 /\ m + j - 1 = i + j
        BY <2>1
      <4> QED
        BY <2>1, <4>2, <4>3
    <3> QED
      BY <3>2, <3>3
  <2> DEFINE r == a \o b
  <2>7. /\ r \in Seq(S) /\ Len(r) = n - 1
        /\ \A j \in 1..n-1 : r[j] = IF j < i THEN s[j] ELSE s[j + 1]
    <3> HIDE DEF a, b, n
    <3>1. r \in Seq(S) /\ Len(r) = n - 1
      <4>1. r \in Seq(S) /\ Len(r) = Len(a) + Len(b)
        BY <2>6, ConcatProperties
      <4> QED
        BY <2>1, <2>6, <4>1
    <3>2. \A j \in 1..n-1 : r[j] = IF j <= i - 1 THEN a[j] ELSE b[j - (i - 1)]
      BY <2>1, <2>6, ConcatProperties
    <3> QED
      BY <2>1, <2>6, <3>1, <3>2
  <2> HIDE DEF r, a, b
  <2>8. DOMAIN r = 1..n-1 /\ Range(r) = {r[j] : j \in 1..n-1}
    BY <2>1, <2>7, LenProperties, RangeEquality
  <2> DEFINE from(j) == IF j < i THEN j ELSE j + 1
  <2>11. \A j \in 1..n-1 : from(j) \in 1..n /\ from(j) # i /\ r[j] = s[from(j)]
    BY <2>1, <2>7
  <2>12. \A j, k \in 1..n-1 : from(j) = from(k) => j = k
    BY <2>1
  <2>13. \A j, k \in 1..n : s[j] = s[k] => j = k
    BY <2>1 DEF IsInjective
  <2> HIDE DEF n
  <2>9. IsInjective(r)
    <3>1. \A j, k \in 1..n-1 : r[j] = r[k] => j = k
      <4> HIDE DEF from
      <4> QED
        BY <2>11, <2>12, <2>13
    <3> QED
      BY <2>8, <3>1 DEF IsInjective
  <2>10. Range(r) = Range(s) \ {e}
    <3>1. \A j \in 1..n-1 : r[j] \in Range(s) /\ r[j] # e
      <4> HIDE DEF from
      <4> QED
        BY <1>2, <2>1, <2>11, <2>13 DEF Range
    <3>2. \A j \in 1..n : j # i => \E k \in 1..n-1 : r[k] = s[j]
      <4> SUFFICES ASSUME NEW j \in 1..n, j # i PROVE \E k \in 1..n-1 : r[k] = s[j]
        OBVIOUS
      <4>1. CASE j < i
        <5> j \in 1..n-1
          BY <2>1, <4>1
        <5> QED
          BY <2>7, <4>1
      <4>2. CASE j > i
        <5> j - 1 \in 1..n-1 /\ r[j-1] = s[j]
          BY <2>1, <2>7, <4>2
        <5> QED
          OBVIOUS
      <4> QED
        BY <2>1, <4>1, <4>2
    <3> QED
      BY <1>2, <2>1, <2>8, <3>1, <3>2, RangeEquality
  <2> QED
    BY <2>5, <2>7, <2>9, <2>10 DEF r
<1> QED
  BY <1>1, <1>2

\* A list with a new element at its end.
LEMMA AppendIs ==
  ASSUME NEW S, NEW s \in Seq(S), IsInjective(s), NEW e \in S, e \notin Range(s)
  PROVE  /\ Append(s, e) \in Seq(S)
         /\ IsInjective(Append(s, e))
         /\ Range(Append(s, e)) = Range(s) \cup {e}
<1> DEFINE n == Len(s)
           r == Append(s, e)
<1>1. n \in Nat /\ DOMAIN s = 1..n
  BY LenProperties
<1>2. r \in Seq(S) /\ Len(r) = n + 1 /\ DOMAIN r = 1..n+1
  BY AppendProperties, LenProperties
<1>3. r[n+1] = e /\ \A i \in 1..n : r[i] = s[i] /\ r[i] # e
  BY <1>1, AppendProperties DEF Range
<1> HIDE DEF r, n
<1>4. IsInjective(r)
  BY <1>1, <1>2, <1>3 DEF IsInjective
<1>5. Range(r) = Range(s) \cup {e}
  <2>1. 1..n+1 = 1..n \cup {n+1}
    BY <1>1
  <2>2. Range(r) = {r[i] : i \in 1..n+1} /\ Range(s) = {s[i] : i \in 1..n}
    BY <1>1, <1>2 DEF Range
  <2> QED
    BY <1>3, <2>1, <2>2
<1> QED
  BY <1>2, <1>4, <1>5 DEF r

\* The access times after a file was forgotten, and after it was used.
LEMMA AccessIs ==
  ASSUME access \in Seq(Files), IsInjective(access), NEW f \in Files
  PROVE  /\ Forgotten(f) \in Seq(Files) /\ IsInjective(Forgotten(f))
         /\ Range(Forgotten(f)) = Range(access) \ {f}
         /\ Touched(f) \in Seq(Files) /\ IsInjective(Touched(f))
         /\ Range(Touched(f)) = Range(access) \cup {f}
<1>1. /\ Forgotten(f) \in Seq(Files) /\ IsInjective(Forgotten(f))
      /\ Range(Forgotten(f)) = Range(access) \ {f}
  BY RemoveIs DEF Forgotten
<1> DEFINE r == Forgotten(f)
<1> HIDE DEF r
<1>2. r \in Seq(Files) /\ IsInjective(r) /\ f \notin Range(r) /\ Range(r) = Range(access) \ {f}
  BY <1>1 DEF r
<1>3. /\ Append(r, f) \in Seq(Files) /\ IsInjective(Append(r, f))
      /\ Range(Append(r, f)) = Range(r) \cup {f}
  BY <1>2, AppendIs
<1>4. Touched(f) = Append(r, f)
  BY DEF Touched, r
<1>5. Range(Append(r, f)) = Range(access) \cup {f}
  BY <1>2, <1>3
<1> QED
  BY <1>1, <1>3, <1>4, <1>5

\* The files a flush starts from, in some order.
LEMMA OrderIs ==
  ASSUME NEW S \in SUBSET Files, NEW order \in SetToSeqs(S)
  PROVE  order \in Seq(Files) /\ Range(order) = S
<1> DEFINE n == Cardinality(S)
<1>1. IsFiniteSet(S) /\ n \in Nat
  BY FileAssumption, FS_Subset, FS_CardinalityType
<1>2. order \in [1..n -> S] /\ \A i, j \in 1..n : i # j => order[i] # order[j]
  BY DEF SetToSeqs
<1>3. order \in Seq(Files)
  <2> order \in [1..n -> Files]
    BY <1>2
  <2> HIDE DEF n
  <2> QED
    BY <1>1, SeqDef
<1>4. Range(order) = S
  <2> DEFINE R == {order[i] : i \in 1..n}
  <2>1. R \subseteq S /\ Range(order) = R
    BY <1>2 DEF Range
  <2>2. order \in Surjection(1..n, R)
    BY <1>2 DEF Surjection
  <2>3. order \in Injection(1..n, R)
    BY <1>2 DEF Injection, IsInjective
  <2>4. IsFiniteSet(1..n) /\ Cardinality(1..n) = n
    BY <1>1, FS_Interval
  <2>5. order \in Bijection(1..n, R)
    BY <2>2, <2>3 DEF Bijection
  <2>6. Cardinality(R) = n
    BY <2>4, <2>5, FS_Bijection DEF ExistsBijection
  <2>7. R = S
    BY <1>1, <2>1, <2>6, FS_Subset
  <2> QED
    BY <2>1, <2>7
<1> QED
  BY <1>3, <1>4
--------------------------------------------------------------------------------
\* What has not been crossed after a step was not before it, and nobody else is
\* on the file.
LEMMA AloneBack ==
  ASSUME Observe, NEW f \in Files, Alone(f)'
  PROVE  /\ Alone(f)
         /\ \A p, q \in Processes : p # q => ~(OnFile(p, f) /\ OnFile(q, f))
         /\ \A p, q \in Processes : p # q => ~(OnFile(p, f)' /\ OnFile(q, f)')
<1>1. f \notin crossed' /\ ~\E p, q \in Processes : p # q /\ OnFile(p, f)' /\ OnFile(q, f)'
  BY DEF Alone, TwoOf
<1>2. f \notin crossed /\ ~\E p, q \in Processes : p # q /\ OnFile(p, f) /\ OnFile(q, f)
  BY <1>1 DEF Observe, TwoOf
<1> QED
  BY <1>1, <1>2 DEF Alone, TwoOf

LEMMA SingleBack ==
  ASSUME Observe, Single'
  PROVE  /\ Single
         /\ \A p, q \in Processes : p # q => at[p] = "idle" \/ at[q] = "idle"
         /\ \A p, q \in Processes : p # q => at'[p] = "idle" \/ at'[q] = "idle"
<1>1. ~overlapped' /\ ~\E p, q \in Processes : p # q /\ at'[p] # "idle" /\ at'[q] # "idle"
  BY DEF Single, TwoOf
<1>2. ~overlapped /\ ~\E p, q \in Processes : p # q /\ at[p] # "idle" /\ at[q] # "idle"
  BY <1>1 DEF Observe, TwoOf
<1> QED
  BY <1>1, <1>2 DEF Single, TwoOf

\* Two operations that meet on a file cross it.
LEMMA CrossedThen ==
  ASSUME Observe, NEW f \in Files, NEW p \in Processes, NEW q \in Processes,
         p # q, OnFile(p, f), OnFile(q, f)
  PROVE  f \in crossed'
BY DEF Observe, TwoOf

--------------------------------------------------------------------------------
\* The types.
LEMMA IdleJobType == IdleJob \in Job
<1>1. (CHOOSE f \in Files : TRUE) \in Files
  BY FileAssumption
<1> QED
  BY <1>1 DEF IdleJob, Job, Contents
LEMMA JobOf ==
  ASSUME FileTypeOK, NEW p \in Processes
  PROVE  /\ at[p] \in Places /\ job[p] \in Job
         /\ job[p].file \in Files /\ job[p].new \in Contents /\ job[p].todo \in Seq(Files)
         /\ job[p].need \in Int /\ job[p].stream \in Contents \cup {Disposed}
         /\ job[p].then \in {"put", "load", "idle"}
         /\ job[p].back \in {"evict", "drop", "sweep", "stop"}
BY DEF FileTypeOK, Job

\* The list of a process: its first file and the others.
LEMMA HeadIs ==
  ASSUME FileTypeOK, NEW p \in Processes, job[p].todo # <<>>
  PROVE  /\ Head(job[p].todo) \in Files /\ Tail(job[p].todo) \in Seq(Files)
         /\ Range(job[p].todo) = {Head(job[p].todo)} \cup Range(Tail(job[p].todo))
<1> DEFINE s == job[p].todo
           t == Tail(s)
<1>1. s \in Seq(Files)
  BY JobOf
<1> HIDE DEF s
<1>2. /\ Head(s) \in Files /\ t \in Seq(Files) /\ Len(t) = Len(s) - 1
      /\ Head(s) = s[1] /\ \A i \in 1..Len(t) : t[i] = s[i + 1]
  BY <1>1, HeadTailProperties DEF s
<1>3. Range(s) = {s[i] : i \in 1..Len(s)} /\ Range(t) = {t[i] : i \in 1..Len(t)}
  BY <1>1, <1>2, RangeEquality
<1>4. Len(s) \in Nat \ {0}
  BY <1>1, EmptySeq DEF s
<1> HIDE DEF t
<1>5. \A i \in 1..Len(s) : i = 1 \/ (i - 1 \in 1..Len(t) /\ s[i] = t[i - 1])
  BY <1>2, <1>4
<1>6. \A i \in 1..Len(t) : i + 1 \in 1..Len(s)
  BY <1>2, <1>4
<1>7. Range(s) \subseteq {Head(s)} \cup Range(t)
  BY <1>2, <1>3, <1>5
<1>8. {Head(s)} \cup Range(t) \subseteq Range(s)
  BY <1>2, <1>3, <1>4, <1>6
<1> QED
  BY <1>2, <1>7, <1>8 DEF s, t

LEMMA TurnIs ==
  ASSUME FileTypeOK, PlaceInv, NEW p \in Processes, at[p] \in Evicting
  PROVE  /\ InTurn(p) \in Files
         /\ at[p] \in {"drop", "forget"} => job[p].back = "drop"
         /\ job[p].back = "drop" => job[p].todo # <<>> /\ InTurn(p) = Head(job[p].todo)
         /\ job[p].back \in {"drop", "sweep", "stop"}
         /\ job[p].back # "drop" => InTurn(p) = job[p].file
<1>1. /\ job[p].back # "evict" /\ (job[p].back = "drop" => job[p].todo # <<>>)
      /\ job[p].back # "drop" => at[p] \in Flushing
  BY DEF PlaceInv, PlaceFine
<1>2. at[p] \in {"drop", "forget"} => job[p].back = "drop"
  BY <1>1 DEF Flushing
<1> QED
  BY <1>1, <1>2, JobOf, HeadIs DEF InTurn

LEMMA DisposeIs ==
  ASSUME FileTypeOK, NEW f \in Files, NEW begun \in BOOLEAN
  PROVE  /\ Dispose(f, begun) \in [Processes -> Job]
         /\ \A q \in Processes :
              \/ Dispose(f, begun)[q] = job[q]
              \/ /\ at[q] \in {"open", "write", "lost"} /\ InTurn(q) = f
                 /\ Dispose(f, begun)[q] = [job[q] EXCEPT !.stream = Disposed]
<1>1. \A q \in Processes : [job[q] EXCEPT !.stream = Disposed] \in Job
  BY JobOf DEF Job
<1> QED
  BY <1>1, JobOf DEF Dispose

LEMMA DisposeAt ==
  ASSUME FileTypeOK, NEW f \in Files, NEW begun \in BOOLEAN, NEW q \in Processes, NEW j,
         j = Dispose(f, begun)[q]
  PROVE  \/ j = job[q]
         \/ /\ at[q] \in {"open", "write", "lost"} /\ InTurn(q) = f
            /\ j = [job[q] EXCEPT !.stream = Disposed]
BY DisposeIs

LEMMA ReadOutIs ==
  ASSUME FileTypeOK, NEW f \in Files, NEW begun \in BOOLEAN
  PROVE  /\ ReadOut(f, begun) \in [Processes -> Job]
         /\ \A q \in Processes :
              \/ ReadOut(f, begun)[q] = job[q]
              \/ /\ at[q] \in {"write", "lost"} /\ InTurn(q) = f
                 /\ ReadOut(f, begun)[q] = [job[q] EXCEPT !.stream = Truncated]
<1>1. \A q \in Processes : [job[q] EXCEPT !.stream = Truncated] \in Job
  BY JobOf DEF Job, Contents
<1> QED
  BY <1>1, JobOf DEF ReadOut

LEMMA ReadOutAt ==
  ASSUME FileTypeOK, NEW f \in Files, NEW begun \in BOOLEAN, NEW q \in Processes, NEW j,
         j = ReadOut(f, begun)[q]
  PROVE  \/ j = job[q]
         \/ /\ at[q] \in {"write", "lost"} /\ InTurn(q) = f
            /\ j = [job[q] EXCEPT !.stream = Truncated]
<1>1. job[q] \in Job
  BY JobOf
<1> QED
  BY <1>1, ReadOutIs

\* What is left of a flush that has copied its stream, or failed to.
LEMMA ClosedIs ==
  ASSUME FileTypeOK, NEW p \in Processes, Closed(p)
  PROVE  /\ job' \in [Processes -> Job]
         /\ job'[p] = [job[p] EXCEPT !.stream = 0]
         /\ job'[p].file = job[p].file /\ job'[p].new = job[p].new /\ job'[p].todo = job[p].todo
         /\ job'[p].need = job[p].need /\ job'[p].then = job[p].then /\ job'[p].back = job[p].back
         /\ \A q \in Processes : p # q => job'[q] = job[q]
<1>1. job[p] \in Job /\ [job[p] EXCEPT !.stream = 0] \in Job
  BY JobOf DEF Job, Contents
<1>2. job' = [job EXCEPT ![p] = [job[p] EXCEPT !.stream = 0]]
  BY DEF Closed, FileTypeOK
<1> QED
  BY <1>1, <1>2 DEF FileTypeOK, Job

LEMMA TypeInit == Init => FileTypeOK
<1>1. "idle" \in Places
  BY DEF Places
<1>2. IsInjective(<<>>) /\ <<>> \in Seq(Files)
  BY DEF IsInjective
<1> QED
  BY <1>1, <1>2, IdleJobType DEF Init, FileTypeOK
LEMMA FileTypeStep == FileTypeOK /\ PlaceInv /\ [Next]_vars => FileTypeOK'
<1> SUFFICES ASSUME FileTypeOK, PlaceInv, [Next]_vars PROVE FileTypeOK'
  OBVIOUS
<1> DEFINE P == {"idle", "room", "evict", "drop", "forget", "put", "mark", "load", "keep",
                 "remove", "erase", "unlink", "sweep", "age", "stop", "clear",
                 "flush", "open", "write", "lost", "clean"}
<1>a. P = Places
  BY DEF Places
<1>b. IdleJob \in Job /\ \A p \in Processes : job[p] \in Job /\ at[p] \in P
  BY <1>a, IdleJobType, JobOf
<1>c. \A p \in Processes, place \in Places : Go(p, place) => at' \in [Processes -> Places]
  BY DEF Go, FileTypeOK
<1>d. \A f \in Files : /\ Forgotten(f) \in Seq(Files) /\ IsInjective(Forgotten(f))
                       /\ Touched(f) \in Seq(Files) /\ IsInjective(Touched(f))
  BY AccessIs DEF FileTypeOK
<1>e. \A p \in Processes : job[p].then \in Places /\ (job[p].back # "evict" => job[p].back \in Places)
  BY <1>a, JobOf
<1>f. \A p \in Processes : \A d \in Int : AddUsage(p, d) => usage' \in Int
  BY DEF AddUsage, FileTypeOK
<1>g. \A p \in Processes : Done(p) => at' \in [Processes -> Places] /\ job' \in [Processes -> Job]
  BY <1>a, <1>b, <1>c DEF Done, FileTypeOK
<1>h. \A p \in Processes : job[p].todo # <<>> => [job EXCEPT ![p].todo = Tail(@)] \in [Processes -> Job]
  BY HeadIs DEF FileTypeOK, Job
<1>1. ASSUME NEW p \in Requests, NEW f \in Files, Download(p, f) PROVE FileTypeOK'
  <2>1. CASE access' = Touched(f) /\ (\E begun \in BOOLEAN : job' = ReadOut(f, begun)) /\ UNCHANGED at
    BY <1>1, <1>d, <2>1, ReadOutIs DEF Download, FileTypeOK
  <2>2. CASE /\ disk[f] # Absent
             /\ job' = [job EXCEPT ![p] = [IdleJob EXCEPT !.file = f, !.new = disk[f], !.then = "load"]]
             /\ Go(p, "room") /\ UNCHANGED access
    <3>1. disk[f] \in Contents
      BY <2>2 DEF FileTypeOK
    <3>2. [IdleJob EXCEPT !.file = f, !.new = disk[f], !.then = "load"] \in Job
      BY <1>b, <3>1 DEF Job
    <3>3. job' \in [Processes -> Job]
      BY <2>2, <3>2 DEF FileTypeOK
    <3> QED
      BY <1>1, <1>a, <1>c, <2>2, <3>3 DEF Download, FileTypeOK, Processes
  <2> QED
    BY <1>1, <2>1, <2>2 DEF Download
<1>2. ASSUME NEW p \in Requests, NEW f \in Files, NEW overwrite \in BOOLEAN, Upload(p, f, overwrite)
      PROVE  FileTypeOK'
  <2>1. [IdleJob EXCEPT !.file = f, !.new = uploads + 1, !.then = "put"] \in Job
    <3>1. uploads + 1 \in Contents
      BY DEF Contents, FileTypeOK
    <3> QED
      BY <1>b, <3>1 DEF Job
  <2>2. job' \in [Processes -> Job]
    BY <1>2, <2>1 DEF Upload, FileTypeOK
  <2> QED
    BY <1>2, <1>a, <1>c, <2>2 DEF Upload, FileTypeOK, Processes
<1>3. ASSUME NEW p \in Requests, NEW f \in Files, Delete(p, f) PROVE FileTypeOK'
  <2>1. [IdleJob EXCEPT !.file = f] \in Job
    BY <1>b DEF Job
  <2> QED
    BY <1>3, <1>a, <1>c, <2>1 DEF Delete, FileTypeOK, Processes
<1>4. ASSUME NEW p \in Requests, Room(p) PROVE FileTypeOK'
  <2>1. [job[p] EXCEPT !.todo = access, !.need = usage + 1 - Limit] \in Job
    <3>1. usage + 1 - Limit \in Int /\ access \in Seq(Files) /\ job[p] \in Job
      BY <1>b, FileAssumption DEF FileTypeOK, Processes
    <3> QED
      BY <3>1 DEF Job
  <2>2. [job EXCEPT ![p].todo = access, ![p].need = usage + 1 - Limit] \in [Processes -> Job]
    BY <2>1 DEF FileTypeOK
  <2>3. at' \in [Processes -> Places]
    BY <1>4, <1>a, <1>c, <1>e DEF Room, Processes
  <2> QED
    BY <1>4, <2>2, <2>3 DEF Room, FileTypeOK
<1>5. ASSUME NEW p \in Requests, Put(p) PROVE FileTypeOK'
  <2>1. job[p].new \in Contents /\ p \in Processes
    BY JobOf DEF Processes
  <2> QED
    BY <1>5, <1>a, <1>c, <2>1 DEF Put, FileTypeOK
<1>6. ASSUME NEW p \in Requests, Mark(p) PROVE FileTypeOK'
  <2> DEFINE f == job[p].file
  <2>1. p \in Processes /\ f \in Files /\ job[p].new \in Contents
    BY JobOf DEF Processes
  <2>2. at[p] = "mark" => job[p].new \in Nat
    BY <2>1 DEF PlaceInv, PlaceFine
  <2>3. dirty' \in [Files -> BOOLEAN \cup {Absent}]
    BY <1>6 DEF Mark, FlagOf, FileTypeOK
  <2>4. last' \in [Files -> Nat \cup {Absent}] /\ failed' \subseteq Files
    BY <1>6, <2>2 DEF Mark, FileTypeOK
  <2>5. access' \in Seq(Files) /\ IsInjective(access')
    BY <1>6, <1>d, <2>1 DEF Mark
  <2>6. usage' \in Int
    BY <1>6, <1>f, <2>1 DEF Mark
  <2>7. at' \in [Processes -> Places] /\ job' \in [Processes -> Job]
    BY <1>6, <1>g, <2>1 DEF Mark
  <2> QED
    BY <1>6, <2>3, <2>4, <2>5, <2>6, <2>7 DEF Mark, FileTypeOK
<1>7. ASSUME NEW p \in Requests, Uncache(p) PROVE FileTypeOK'
  <2>1. p \in Processes /\ job[p].file \in Files
    BY JobOf DEF Processes
  <2>2. usage' \in Int
    BY <1>7, <1>f, <2>1 DEF Uncache, FileTypeOK
  <2>3. job' \in [Processes -> Job]
    BY <1>7, <2>1, DisposeIs DEF Uncache, FileTypeOK
  <2>4. at' \in [Processes -> Places]
    BY <1>7, <1>a, <1>c, <2>1 DEF Uncache
  <2> QED
    BY <1>7, <2>2, <2>3, <2>4 DEF Uncache, FileTypeOK
<1>8. ASSUME NEW p \in Requests, Erase(p) PROVE FileTypeOK'
  <2>1. p \in Processes /\ job[p].file \in Files
    BY JobOf DEF Processes
  <2> QED
    BY <1>8, <1>a, <1>c, <1>d, <2>1 DEF Erase, FileTypeOK
<1>9. ASSUME NEW p \in Requests, Unlink(p) PROVE FileTypeOK'
  <2>1. at' \in [Processes -> Places]
    BY <1>9, <1>a DEF Unlink, FileTypeOK
  <2> QED
    BY <1>9, <1>b, <2>1 DEF Unlink, FileTypeOK
<1>10. ASSUME NEW t \in Timers, StartTimer(t) \/ Shutdown(t) PROVE FileTypeOK'
  <2> DEFINE D == {f \in Files : dirty[f] = TRUE}
             M == {f \in Files : memory[f] # Absent}
  <2>1. \A order \in SetToSeqs(D) \cup SetToSeqs(M), back \in {"sweep", "stop"} :
          [IdleJob EXCEPT !.todo = order, !.back = back] \in Job
    <3>1. \A order \in SetToSeqs(D) \cup SetToSeqs(M) : order \in Seq(Files)
      BY OrderIs
    <3> QED
      BY <1>b, <3>1 DEF Job
  <2>2. job' \in [Processes -> Job]
    <3>1. \E order \in SetToSeqs(D) \cup SetToSeqs(M), back \in {"sweep", "stop"} :
            job' = [job EXCEPT ![t] = [IdleJob EXCEPT !.todo = order, !.back = back]]
      BY <1>10 DEF StartTimer, Shutdown
    <3> HIDE DEF D, M
    <3> QED
      BY <2>1, <3>1 DEF FileTypeOK
  <2>3. at' \in [Processes -> Places]
    BY <1>10, <1>a, <1>c DEF StartTimer, Shutdown, Processes
  <2> QED
    BY <1>10, <2>2, <2>3 DEF StartTimer, Shutdown, FileTypeOK
<1>11. ASSUME NEW t \in Timers, Sweep(t) \/ Stop(t) PROVE FileTypeOK'
  <2>1. ASSUME TakeNext(t), job[t].todo # <<>> PROVE job' \in [Processes -> Job]
    <3>1. t \in Processes /\ Head(job[t].todo) \in Files /\ Tail(job[t].todo) \in Seq(Files)
      BY <2>1, HeadIs DEF Processes
    <3>2. [job[t] EXCEPT !.file = Head(job[t].todo), !.todo = Tail(job[t].todo)] \in Job
      BY <1>b, <3>1 DEF Job
    <3>3. job' = [job EXCEPT ![t] = [job[t] EXCEPT !.file = Head(job[t].todo), !.todo = Tail(job[t].todo)]]
      BY <2>1, <3>1 DEF TakeNext, FileTypeOK
    <3> QED
      BY <3>2, <3>3 DEF FileTypeOK
  <2>2. job' \in [Processes -> Job]
    BY <1>11, <2>1 DEF Sweep, Stop, FileTypeOK
  <2>3. at' \in [Processes -> Places]
    BY <1>11, <1>a, <1>c DEF Sweep, Stop, Processes
  <2> QED
    BY <1>11, <2>2, <2>3 DEF Sweep, Stop, FileTypeOK
<1>12. ASSUME NEW t \in Timers, Age(t) PROVE FileTypeOK'
  <2>1. \A n \in 0..Len(access) : [IdleJob EXCEPT !.todo = SubSeq(access, 1, n), !.need = n] \in Job
    <3> SUFFICES ASSUME NEW n \in 0..Len(access)
                 PROVE  [IdleJob EXCEPT !.todo = SubSeq(access, 1, n), !.need = n] \in Job
      OBVIOUS
    <3>1. access \in Seq(Files) /\ Len(access) \in Nat
      BY LenProperties DEF FileTypeOK
    <3>2. SubSeq(access, 1, n) \in Seq(Files)
      BY <3>1
    <3>3. n \in Int
      BY <3>1
    <3> QED
      BY <1>b, <3>2, <3>3 DEF Job
  <2>2. job' \in [Processes -> Job]
    BY <1>12, <2>1 DEF Age, FileTypeOK
  <2> QED
    BY <1>12, <1>a, <1>c, <2>2 DEF Age, FileTypeOK, Processes
<1>13. ASSUME NEW t \in Timers, Restart(t) PROVE FileTypeOK'
  <2>1. IsInjective(<<>>) /\ <<>> \in Seq(Files)
    BY DEF IsInjective
  <2> QED
    BY <1>13, <1>a, <1>b, <2>1 DEF Restart, FileTypeOK
<1>14. ASSUME NEW p \in Processes, Evict(p) PROVE FileTypeOK'
  <2>1. [job EXCEPT ![p].back = "drop"] \in [Processes -> Job]
    BY DEF FileTypeOK, Job
  <2>2. job' \in [Processes -> Job]
    BY <1>14, <1>g, <1>h, <2>1 DEF Evict, FileTypeOK
  <2>3. at' \in [Processes -> Places]
    BY <1>14, <1>a, <1>c, <1>e, <1>g DEF Evict, FileTypeOK
  <2> QED
    BY <1>14, <2>2, <2>3 DEF Evict, FileTypeOK
<1>15. ASSUME NEW p \in Processes, Drop(p) PROVE FileTypeOK'
  <2> DEFINE f == Head(job[p].todo)
  <2>1. f \in Files
    BY <1>15, TurnIs DEF Drop, Evicting
  <2>2. usage' \in Int
    BY <1>15, <1>f DEF Drop, FileTypeOK
  <2>3. \A begun \in BOOLEAN : [Dispose(f, begun) EXCEPT ![p].need = @ - 1] \in [Processes -> Job]
    <3> SUFFICES ASSUME NEW begun \in BOOLEAN
                 PROVE  [Dispose(f, begun) EXCEPT ![p].need = @ - 1] \in [Processes -> Job]
      OBVIOUS
    <3> DEFINE d == Dispose(f, begun)
    <3>1. d \in [Processes -> Job]
      BY <2>1, DisposeIs
    <3> HIDE DEF d
    <3>2. [d[p] EXCEPT !.need = @ - 1] \in Job
      <4>1. d[p] \in Job /\ d[p].need - 1 \in Int
        BY <3>1 DEF Job
      <4>2. [d[p] EXCEPT !.need = d[p].need - 1] \in Job
        BY <4>1 DEF Job
      <4> QED
        BY <4>1, <4>2 DEF Job
    <3>3. [d EXCEPT ![p].need = @ - 1] \in [Processes -> Job]
      BY <3>1, <3>2
    <3> QED
      BY <3>3 DEF d
  <2>4. job' \in [Processes -> Job]
    BY <1>15, <2>3 DEF Drop, FileTypeOK
  <2>5. at' \in [Processes -> Places]
    BY <1>15, <1>a, <1>c DEF Drop
  <2> QED
    BY <1>15, <2>2, <2>4, <2>5 DEF Drop, FileTypeOK
<1>16. ASSUME NEW p \in Processes, Forget(p) PROVE FileTypeOK'
  <2> DEFINE f == Head(job[p].todo)
  <2>1. f \in Files /\ job[p].todo # <<>>
    BY <1>16, TurnIs DEF Forget, Evicting
  <2>2. job' \in [Processes -> Job]
    BY <1>16, <1>h, <2>1 DEF Forget
  <2>3. at' \in [Processes -> Places]
    BY <1>16, <1>a, <1>c DEF Forget
  <2> QED
    BY <1>16, <1>d, <2>1, <2>2, <2>3 DEF Forget, FileTypeOK
<1>17. ASSUME NEW p \in Processes, Flush(p) PROVE FileTypeOK'
  <2> DEFINE f == InTurn(p)
  <2>1. f \in Files /\ job[p].back \in Places
    BY <1>17, <1>a, TurnIs DEF Flush, Evicting, Flushing
  <2> HIDE DEF f
  <2>2. memory[f] # Absent => memory[f] \in Contents
    BY <2>1 DEF FileTypeOK
  <2>3. memory[f] # Absent => [job[p] EXCEPT !.stream = memory[f]] \in Job
    BY <1>b, <2>2 DEF Job
  <2>4. job' \in [Processes -> Job]
    BY <1>17, <2>3 DEF Flush, FileTypeOK, f
  <2>5. at' \in [Processes -> Places]
    BY <1>17, <1>a, <1>c, <2>1 DEF Flush, f
  <2> QED
    BY <1>17, <2>4, <2>5 DEF Flush, FileTypeOK
<1>18. ASSUME NEW p \in Processes, Open(p) PROVE FileTypeOK'
  <2>1. InTurn(p) \in Files /\ job[p].back \in Places
    BY <1>18, <1>a, TurnIs DEF Open, Evicting, Flushing
  <2>2. at' \in [Processes -> Places]
    BY <1>18, <1>a, <1>c, <2>1 DEF Open
  <2> QED
    BY <1>18, <2>1, <2>2 DEF Open, FileTypeOK, Contents
<1>19. ASSUME NEW p \in Processes, WriteOut(p) PROVE FileTypeOK'
  <2>1. InTurn(p) \in Files /\ job[p].back \in Places
    BY <1>19, <1>a, TurnIs DEF WriteOut, Evicting, Flushing
  <2>2. job[p].stream # Disposed => job[p].stream \in Contents
    BY JobOf
  <2>3. at' \in [Processes -> Places]
    BY <1>19, <1>a, <1>c, <2>1 DEF WriteOut
  <2>4. disk' \in [Files -> Contents \cup {Absent}] /\ failed' \subseteq Files
    BY <1>19, <2>1, <2>2 DEF WriteOut, Written, NotWritten, FileTypeOK
  <2> QED
    BY <1>19, <2>3, <2>4, ClosedIs DEF WriteOut, FileTypeOK
<1>20. ASSUME NEW p \in Processes, Clean(p) PROVE FileTypeOK'
  <2>1. job[p].back \in Places
    BY <1>20, <1>a, TurnIs DEF Clean, Evicting, Flushing
  <2>2. at' \in [Processes -> Places]
    BY <1>20, <1>c, <2>1 DEF Clean
  <2> QED
    BY <1>20, <2>2 DEF Clean, FileTypeOK
<1>21. CASE UNCHANGED vars
  BY <1>21 DEF vars, FileTypeOK
<1> QED
  <2> HIDE DEF P
  <2>1. ASSUME NEW p \in Requests, RequestStep(p) PROVE FileTypeOK'
    BY <2>1, <1>1, <1>2, <1>3, <1>4, <1>5, <1>6, <1>7, <1>8, <1>9 DEF RequestStep
  <2>2. ASSUME NEW t \in Timers, TimerStep(t) PROVE FileTypeOK'
    BY <2>2, <1>10, <1>11, <1>12, <1>13 DEF TimerStep
  <2>3. ASSUME NEW p \in Processes, FlushStep(p) PROVE FileTypeOK'
    BY <2>3, <1>14, <1>15, <1>16, <1>17, <1>18, <1>19, <1>20 DEF FlushStep
  <2> QED
    BY <1>21, <2>1, <2>2, <2>3 DEF Next
--------------------------------------------------------------------------------
\* A step of one process, other than a restart.
Step(p) ==
  \/ p \in Requests /\ RequestStep(p)
  \/ p \in Timers /\ (StartTimer(p) \/ Sweep(p) \/ Age(p) \/ Shutdown(p) \/ Stop(p))
  \/ FlushStep(p)

\* A step of p meets what is under way on f.
Meets(p, f) == OnFile(p, f) \/ f \in crossed'

\* What a step of p leaves of another process, and of a file.
Kept(p, q) ==
  /\ \/ job'[q] = job[q]
     \/ /\ at[q] \in {"open", "write", "lost"} /\ Meets(p, InTurn(q))
        /\ \E stream \in {Disposed, Truncated} : job'[q] = [job[q] EXCEPT !.stream = stream]
  /\ \/ at'[q] = at[q]
     \/ at[q] = "write" /\ at'[q] = "lost" /\ OnFile(p, InTurn(q))

Left(f) ==
  /\ disk'[f] = disk[f] /\ memory'[f] = memory[f] /\ dirty'[f] = dirty[f] /\ last'[f] = last[f]
  /\ f \in failed' <=> f \in failed

LEMMA NextIs ==
  ASSUME Next
  PROVE  (\E p \in Processes : Step(p)) \/ (\E t \in Timers : Restart(t))
BY DEF Next, Step, TimerStep, Processes

\* What an action does to its own process, and what it leaves alone.
LEMMA OthersStay ==
  ASSUME FileTypeOK, NEW p \in Processes, NEW q \in Processes, p # q,
         NEW place \in Places, Go(p, place), NEW j, job' = [job EXCEPT ![p] = j]
  PROVE  at'[p] = place /\ job'[p] = j /\ Kept(p, q)
BY DEF Go, Kept, FileTypeOK

LEMMA StepKeeps ==
  ASSUME FileTypeOK, PlaceInv, Observe, NEW p \in Processes, Step(p)
  PROVE  /\ \A q \in Processes : p # q => Kept(p, q)
         /\ \A f \in Files : OnFile(p, f) \/ Left(f)
<1> SUFFICES ASSUME NEW q \in Processes, NEW g \in Files
             PROVE  (p # q => Kept(p, q)) /\ (OnFile(p, g) \/ Left(g))
  BY FileAssumption
<1>a. job[p].file \in Files
  BY JobOf
<1>1. ASSUME NEW f \in Files, \/ Download(p, f) \/ Delete(p, f)
                              \/ \E overwrite \in BOOLEAN : Upload(p, f, overwrite)
      PROVE  (p # q => Kept(p, q)) /\ Left(g)
  <2>1. Left(g)
    BY <1>1 DEF Download, Delete, Upload, Left
  <2>2. ASSUME p # q, UNCHANGED at, NEW begun \in BOOLEAN, job' = ReadOut(f, begun) PROVE Kept(p, q)
    <3>1. \/ job'[q] = job[q]
          \/ /\ at[q] \in {"write", "lost"} /\ InTurn(q) = f
             /\ job'[q] = [job[q] EXCEPT !.stream = Truncated]
      BY <2>2, ReadOutAt
    <3>2. ASSUME job'[q] # job[q] PROVE f \in crossed'
      <4>1. job'[q].stream # job[q].stream
        BY <3>1, <3>2, JobOf DEF Job
      <4>2. StreamTaken(f)
        BY <2>2, <3>1, <3>2, <4>1 DEF StreamTaken
      <4> QED
        BY <4>2 DEF Observe
    <3> QED
      BY <2>2, <3>1, <3>2 DEF Kept, Meets
  <2>3. CASE p # q => job'[q] = job[q] /\ at'[q] = at[q]
    BY <2>1, <2>3 DEF Kept
  <2> QED
    BY <1>1, <2>1, <2>2, <2>3 DEF Download, Delete, Upload, Go, FileTypeOK
<1>2. ASSUME Room(p) PROVE (p # q => Kept(p, q)) /\ Left(g)
  BY <1>2 DEF Room, Go, Kept, Left, FileTypeOK
<1>3. ASSUME Put(p) PROVE (p # q => Kept(p, q)) /\ (OnFile(p, g) \/ Left(g))
  BY <1>3, <1>a DEF Put, Go, Kept, Left, OnFile, FileTypeOK
<1>4. ASSUME Mark(p) PROVE (p # q => Kept(p, q)) /\ (OnFile(p, g) \/ Left(g))
  <2>1. p # q => Kept(p, q)
    BY <1>4 DEF Mark, Done, Go, Kept, FileTypeOK
  <2>2. job[p].file # g => Left(g)
    BY <1>4 DEF Mark, Left, FileTypeOK
  <2> QED
    BY <1>4, <2>1, <2>2 DEF Mark, OnFile
<1>5. ASSUME Uncache(p) PROVE (p # q => Kept(p, q)) /\ (OnFile(p, g) \/ Left(g))
  <2>1. OnFile(p, job[p].file)
    BY <1>5 DEF Uncache, OnFile
  <2>2. job[p].file # g => Left(g)
    BY <1>5 DEF Uncache, Left, FileTypeOK
  <2>3. p # q => at'[q] = at[q]
    BY <1>5 DEF Uncache, Go, FileTypeOK
  <2>4. CASE UNCHANGED job
    BY <2>1, <2>2, <2>3, <2>4 DEF Kept, FileTypeOK
  <2>5. ASSUME NEW begun \in BOOLEAN, job' = Dispose(job[p].file, begun)
        PROVE  p # q => Kept(p, q)
    <3>1. \/ job'[q] = job[q]
          \/ /\ at[q] \in {"open", "write", "lost"} /\ InTurn(q) = job[p].file
             /\ job'[q] = [job[q] EXCEPT !.stream = Disposed]
      BY <1>a, <2>5, DisposeAt
    <3> QED
      BY <2>1, <2>3, <3>1 DEF Kept, Meets
  <2> QED
    BY <1>5, <2>1, <2>2, <2>4, <2>5 DEF Uncache
<1>6. ASSUME Erase(p) PROVE (p # q => Kept(p, q)) /\ (OnFile(p, g) \/ Left(g))
  BY <1>6, <1>a DEF Erase, Go, Kept, Left, OnFile, FileTypeOK
<1>7. ASSUME Unlink(p) PROVE (p # q => Kept(p, q)) /\ (OnFile(p, g) \/ Left(g))
  <2>1. OnFile(p, job[p].file)
    BY <1>7 DEF Unlink, OnFile
  <2>2. job[p].file # g => Left(g)
    BY <1>7 DEF Unlink, Left, FileTypeOK
  <2>3. p # q => Kept(p, q)
    BY <1>7, <2>1 DEF Unlink, Writes, Kept, FileTypeOK
  <2> QED
    BY <2>1, <2>2, <2>3
<1>8. ASSUME StartTimer(p) \/ Shutdown(p) \/ Sweep(p) \/ Stop(p) \/ Age(p) PROVE (p # q => Kept(p, q)) /\ Left(g)
  BY <1>8 DEF StartTimer, Shutdown, Sweep, Stop, Age, TakeNext, Go, Kept, Left, FileTypeOK
<1>9. ASSUME Evict(p) PROVE (p # q => Kept(p, q)) /\ Left(g)
  BY <1>9 DEF Evict, Done, Go, Kept, Left, FileTypeOK
<1>10. ASSUME Drop(p) PROVE (p # q => Kept(p, q)) /\ (OnFile(p, g) \/ Left(g))
  <2> DEFINE f == Head(job[p].todo)
  <2>1. f \in Files /\ OnFile(p, f)
    BY <1>10, TurnIs DEF Drop, OnFile, Evicting
  <2>2. f # g => Left(g)
    BY <1>10 DEF Drop, Left, FileTypeOK
  <2>3. p # q => at'[q] = at[q]
    BY <1>10 DEF Drop, Go, FileTypeOK
  <2>4. CASE UNCHANGED job
    BY <2>1, <2>2, <2>3, <2>4 DEF Kept, FileTypeOK
  <2>5. ASSUME NEW begun \in BOOLEAN, job' = [Dispose(f, begun) EXCEPT ![p].need = @ - 1]
        PROVE  p # q => Kept(p, q)
    <3>1. Dispose(f, begun) \in [Processes -> Job]
      BY <2>1, DisposeIs
    <3>2. p # q => job'[q] = Dispose(f, begun)[q]
      BY <2>5, <3>1
    <3>3. p # q => \/ job'[q] = job[q]
                     \/ /\ at[q] \in {"open", "write", "lost"} /\ InTurn(q) = f
                        /\ job'[q] = [job[q] EXCEPT !.stream = Disposed]
      BY <2>1, <3>2, DisposeAt
    <3> QED
      BY <2>1, <2>3, <3>3 DEF Kept, Meets, FileTypeOK
  <2> QED
    BY <1>10, <2>1, <2>2, <2>4, <2>5 DEF Drop
<1>11. ASSUME Forget(p) PROVE (p # q => Kept(p, q)) /\ (OnFile(p, g) \/ Left(g))
  <2>1. OnFile(p, Head(job[p].todo))
    BY <1>11 DEF Forget, OnFile
  <2>2. Head(job[p].todo) # g => Left(g)
    BY <1>11 DEF Forget, Left, FileTypeOK
  <2>3. p # q => Kept(p, q)
    BY <1>11 DEF Forget, Go, Kept, FileTypeOK
  <2> QED
    BY <2>1, <2>2, <2>3
<1>12. ASSUME Flush(p) PROVE (p # q => Kept(p, q)) /\ Left(g)
  BY <1>12 DEF Flush, Go, Kept, Left, FileTypeOK
<1>13. ASSUME Open(p) \/ WriteOut(p) \/ Clean(p) PROVE (p # q => Kept(p, q)) /\ (OnFile(p, g) \/ Left(g))
  <2>1. OnFile(p, InTurn(p))
    BY <1>13 DEF Open, WriteOut, Clean, OnFile
  <2>2. InTurn(p) # g => Left(g)
    BY <1>13 DEF Open, WriteOut, Written, NotWritten, Clean, Left, FileTypeOK
  <2>3. p # q => Kept(p, q)
    BY <1>13, ClosedIs DEF Open, WriteOut, Clean, Go, Kept, FileTypeOK
  <2> QED
    BY <2>1, <2>2, <2>3
<1> QED
  BY <1>1, <1>2, <1>3, <1>4, <1>5, <1>6, <1>7, <1>8, <1>9, <1>10, <1>11, <1>12, <1>13
     DEF Step, RequestStep, FlushStep

LEMMA KeptFields ==
  ASSUME FileTypeOK, NEW p \in Processes, NEW q \in Processes, Kept(p, q)
  PROVE  /\ job'[q].file = job[q].file /\ job'[q].new = job[q].new /\ job'[q].todo = job[q].todo
         /\ job'[q].need = job[q].need /\ job'[q].then = job[q].then /\ job'[q].back = job[q].back
         /\ InTurn(q)' = InTurn(q)
         /\ at'[q] = at[q] \/ (at[q] = "write" /\ at'[q] = "lost" /\ OnFile(p, InTurn(q)))
         /\ at[q] \notin {"open", "write", "lost"} \/ ~Meets(p, InTurn(q)) => job'[q] = job[q]
<1>1. job[q] \in Job
  BY JobOf
<1> QED
  BY <1>1 DEF Kept, InTurn, Job

LEMMA PlaceOthers ==
  ASSUME FileTypeOK, PlaceInv, Observe, NEW p \in Processes, NEW q \in Processes, p # q, Kept(p, q)
  PROVE  PlaceFine(q)'
<1>1. PlaceFine(q)
  BY DEF PlaceInv
<1>2. crossed \subseteq crossed'
  BY DEF Observe
<1>3. CASE at'[q] = at[q]
  BY <1>1, <1>2, <1>3, KeptFields DEF PlaceFine
<1>4. CASE at[q] = "write" /\ at'[q] = "lost" /\ OnFile(p, InTurn(q))
  <2>1. InTurn(q) \in Files /\ OnFile(q, InTurn(q))
    BY <1>4, TurnIs DEF OnFile, Evicting, Flushing
  <2>2. InTurn(q) \in crossed'
    BY <1>4, <2>1, CrossedThen
  <2>3. InTurn(q)' = InTurn(q)
    BY KeptFields
  <2> QED
    BY <1>1, <1>4, <2>2, <2>3, KeptFields DEF PlaceFine, Evicting, Flushing
<1> QED
  BY <1>3, <1>4, KeptFields

LEMMA PlaceOwn ==
  ASSUME FileTypeOK, PlaceInv, Observe, NEW p \in Processes, Step(p)
  PROVE  PlaceFine(p)'
<1>a. PlaceFine(p)
  BY DEF PlaceInv
<1>b. crossed \subseteq crossed'
  BY DEF Observe
<1>c. Requests \cap Timers = {} /\ (p \in Requests \/ p \in Timers)
  BY FileAssumption DEF Processes
<1>d. /\ IdleJob.then = "idle" /\ IdleJob.back = "evict" /\ IdleJob.todo = <<>>
      /\ IdleJob \in Job /\ job[p] \in Job
  BY IdleJobType, JobOf DEF IdleJob
<1>e. ASSUME Done(p) PROVE PlaceFine(p)'
  <2>1. at'[p] = "idle" /\ job'[p] = IdleJob
    BY <1>e DEF Done, Go, FileTypeOK
  <2> QED
    BY <1>d, <2>1 DEF PlaceFine, Evicting, Flushing
<1>1. ASSUME NEW f \in Files, p \in Requests, Download(p, f) PROVE PlaceFine(p)'
  <2>1. ASSUME NEW begun \in BOOLEAN, job' = ReadOut(f, begun), UNCHANGED at, at[p] = "idle"
        PROVE  PlaceFine(p)'
    <3>1. job'[p] = job[p] /\ at'[p] = at[p]
      BY <2>1, ReadOutAt
    <3> QED
      BY <1>a, <1>b, <3>1 DEF PlaceFine, InTurn
  <2>2. CASE /\ job' = [job EXCEPT ![p] = [IdleJob EXCEPT !.file = f, !.new = disk[f], !.then = "load"]]
             /\ Go(p, "room")
    <3>1. at'[p] = "room" /\ job'[p] = [IdleJob EXCEPT !.file = f, !.new = disk[f], !.then = "load"]
      BY <2>2 DEF Go, FileTypeOK
    <3>2. job'[p].then = "load" /\ job'[p].back = "evict"
      BY <1>d, <3>1 DEF Job
    <3> QED
      BY <1>1, <3>1, <3>2 DEF PlaceFine, Evicting, Flushing
  <2> QED
    BY <1>1, <2>1, <2>2 DEF Download
<1>2. ASSUME NEW f \in Files, NEW overwrite \in BOOLEAN, p \in Requests, Upload(p, f, overwrite)
      PROVE  PlaceFine(p)'
  <2>1. at'[p] = "room" /\ job'[p] = [IdleJob EXCEPT !.file = f, !.new = uploads + 1, !.then = "put"]
    BY <1>2 DEF Upload, Go, FileTypeOK
  <2>2. job'[p].then = "put" /\ job'[p].back = "evict" /\ job'[p].new \in Nat
    BY <1>d, <2>1 DEF Job, FileTypeOK
  <2> QED
    BY <1>2, <2>1, <2>2 DEF PlaceFine, Evicting, Flushing
<1>3. ASSUME NEW f \in Files, p \in Requests, Delete(p, f) PROVE PlaceFine(p)'
  <2>1. at'[p] = "remove" /\ job'[p] = [IdleJob EXCEPT !.file = f]
    BY <1>3 DEF Delete, Go, FileTypeOK
  <2>2. job'[p].then = "idle"
    BY <1>d, <2>1 DEF Job
  <2> QED
    BY <1>3, <2>1, <2>2 DEF PlaceFine, Evicting, Flushing
<1>4. ASSUME p \in Requests, Room(p) PROVE PlaceFine(p)'
  <2>1. job[p].then \in {"put", "load"} /\ job[p].back \in {"evict", "drop"}
    BY <1>4, <1>a, <1>d DEF Room, PlaceFine, Job
  <2>2. /\ job'[p].then = job[p].then /\ job'[p].back = job[p].back /\ job'[p].new = job[p].new
        /\ at'[p] = "evict" \/ at'[p] = job[p].then
    BY <1>4, <1>d DEF Room, Go, FileTypeOK, Job
  <2>3. job'[p].then = "put" => job'[p].new \in Nat
    BY <1>a, <2>2 DEF PlaceFine
  <2> QED
    BY <1>4, <2>1, <2>2, <2>3 DEF PlaceFine, Evicting, Flushing
<1>5. ASSUME p \in Requests, Put(p) PROVE PlaceFine(p)'
  <2>1. job'[p] = job[p] /\ at'[p] = (IF at[p] = "put" THEN "mark" ELSE "keep")
    BY <1>5 DEF Put, Go, FileTypeOK
  <2> QED
    BY <1>5, <1>a, <2>1 DEF Put, PlaceFine, Evicting, Flushing
<1>6. ASSUME p \in Requests, Uncache(p) \/ Erase(p) PROVE PlaceFine(p)'
  <2>1. at[p] \in {"remove", "erase"} /\ at'[p] \in {"erase", "unlink"}
    BY <1>6 DEF Uncache, Erase, Go, FileTypeOK
  <2>2. job'[p] = job[p]
    <3>1. ASSUME NEW begun \in BOOLEAN, job' = Dispose(job[p].file, begun) PROVE job'[p] = job[p]
      BY <2>1, <3>1, JobOf, DisposeAt
    <3> QED
      BY <1>6, <3>1 DEF Uncache, Erase
  <2> QED
    BY <1>6, <1>a, <2>1, <2>2 DEF PlaceFine, Evicting, Flushing
<1>7. ASSUME Unlink(p) PROVE PlaceFine(p)'
  <2>1. at'[p] = "idle" /\ job'[p] = IdleJob
    BY <1>7 DEF Unlink, FileTypeOK
  <2> QED
    BY <1>d, <2>1 DEF PlaceFine, Evicting, Flushing
<1>8. ASSUME p \in Timers, NEW order, NEW back \in {"sweep", "stop"}, Go(p, back),
             job' = [job EXCEPT ![p] = [IdleJob EXCEPT !.todo = order, !.back = back]]
      PROVE  PlaceFine(p)'
  <2>1. at'[p] = back /\ job'[p] = [IdleJob EXCEPT !.todo = order, !.back = back]
    BY <1>8 DEF Go, FileTypeOK
  <2>2. job'[p].then = "idle" /\ job'[p].back = back
    BY <1>d, <2>1 DEF Job
  <2> QED
    BY <1>8, <2>1, <2>2 DEF PlaceFine, Evicting, Flushing
<1>9. ASSUME p \in Timers, Sweep(p) \/ Stop(p) PROVE PlaceFine(p)'
  <2>1. at[p] = "sweep" \/ at[p] = "stop"
    BY <1>9 DEF Sweep, Stop
  <2>2. job[p].then = "idle" /\ job[p].back = at[p]
    BY <1>9, <1>a, <1>c, <2>1 DEF PlaceFine
  <2>3. CASE /\ at'[p] = "age" \/ (at'[p] = "clear" /\ at[p] = "stop" /\ job[p].todo = <<>>)
             /\ at'[p] = "age" => at[p] = "sweep"
             /\ job' = job
    BY <1>9, <2>1, <2>2, <2>3 DEF PlaceFine, Evicting, Flushing
  <2>4. CASE at'[p] = "flush" /\ TakeNext(p)
    <3>1. job'[p].then = "idle" /\ job'[p].back = at[p]
      BY <1>d, <2>2, <2>4 DEF TakeNext, FileTypeOK, Job
    <3> QED
      BY <1>9, <1>c, <2>1, <2>4, <3>1 DEF PlaceFine, Evicting, Flushing
  <2> QED
    BY <1>9, <2>3, <2>4 DEF Sweep, Stop, Go, FileTypeOK
<1>10. ASSUME p \in Timers, Age(p) PROVE PlaceFine(p)'
  <2>1. at'[p] = "evict" /\ job'[p].then = "idle" /\ job'[p].back = "evict"
    BY <1>10, <1>d DEF Age, Go, FileTypeOK, Job
  <2> QED
    BY <1>10, <1>c, <2>1 DEF PlaceFine, Evicting, Flushing
<1>11. ASSUME Evict(p) PROVE PlaceFine(p)'
  <2>0. at[p] = "evict" /\ job[p].back \in {"evict", "drop"} /\ job[p].then \in {"put", "load", "idle"}
    BY <1>11, <1>a, JobOf DEF Evict, PlaceFine
  <2>1. CASE job[p].then # "idle" /\ at'[p] = job[p].then /\ UNCHANGED job
    BY <1>a, <2>0, <2>1 DEF PlaceFine, Evicting, Flushing
  <2>2. CASE job' = [job EXCEPT ![p].todo = Tail(@)] /\ UNCHANGED at
    <3>1. /\ at'[p] = "evict" /\ job'[p].then = job[p].then /\ job'[p].back = job[p].back
          /\ job'[p].new = job[p].new
      BY <1>d, <2>0, <2>2 DEF FileTypeOK, Job
    <3> QED
      BY <1>a, <2>0, <3>1 DEF PlaceFine, Evicting, Flushing
  <2>3. CASE /\ job[p].todo # <<>> /\ job' = [job EXCEPT ![p].back = "drop"]
             /\ at'[p] \in {"flush", "drop"}
    <3>1. /\ job'[p].then = job[p].then /\ job'[p].back = "drop"
          /\ job'[p].new = job[p].new /\ job'[p].todo = job[p].todo
      BY <1>d, <2>3 DEF FileTypeOK, Job
    <3> QED
      BY <1>a, <2>0, <2>3, <3>1 DEF PlaceFine, Evicting, Flushing
  <2> QED
    BY <1>11, <1>e, <2>1, <2>2, <2>3 DEF Evict, Go, FileTypeOK
<1>12. ASSUME Drop(p) PROVE PlaceFine(p)'
  <2> DEFINE f == Head(job[p].todo)
  <2>0. at[p] = "drop" /\ job[p].back = "drop" /\ job[p].todo # <<>> /\ at'[p] = "forget" /\ f \in Files
    BY <1>12, TurnIs DEF Drop, Evicting, Go, FileTypeOK
  <2>1. /\ job'[p].then = job[p].then /\ job'[p].back = "drop"
        /\ job'[p].new = job[p].new /\ job'[p].todo = job[p].todo
    <3>1. CASE UNCHANGED job
      BY <2>0, <3>1
    <3>2. ASSUME NEW begun \in BOOLEAN, job' = [Dispose(f, begun) EXCEPT ![p].need = @ - 1]
          PROVE  job'[p] = [job[p] EXCEPT !.need = @ - 1]
      <4>1. Dispose(f, begun) \in [Processes -> Job]
        BY <2>0, DisposeIs
      <4>2. Dispose(f, begun)[p] = job[p]
        BY <2>0, DisposeAt
      <4> QED
        BY <3>2, <4>1, <4>2
    <3>3. CASE \E begun \in BOOLEAN : job' = [Dispose(f, begun) EXCEPT ![p].need = @ - 1]
      BY <1>d, <2>0, <3>2, <3>3 DEF Job
    <3> QED
      BY <1>12, <3>1, <3>3 DEF Drop
  <2> QED
    BY <1>a, <2>0, <2>1 DEF PlaceFine, Evicting, Flushing
<1>13. ASSUME Forget(p) PROVE PlaceFine(p)'
  <2>1. at[p] = "forget" /\ job[p].back = "drop" /\ at'[p] = "evict"
    BY <1>13, TurnIs DEF Forget, Evicting, Go, FileTypeOK
  <2>2. job'[p].then = job[p].then /\ job'[p].back = "drop" /\ job'[p].new = job[p].new
    BY <1>13, <1>d, <2>1 DEF Forget, FileTypeOK, Job
  <2> QED
    BY <1>a, <2>1, <2>2 DEF PlaceFine, Evicting, Flushing
<1>14. ASSUME Flush(p) \/ Open(p) \/ WriteOut(p) \/ Clean(p) PROVE PlaceFine(p)'
  <2>0. at[p] \in Flushing
    BY <1>14 DEF Flush, Open, WriteOut, Clean, Flushing
  <2>1. /\ job'[p].then = job[p].then /\ job'[p].back = job[p].back
        /\ job'[p].new = job[p].new /\ job'[p].todo = job[p].todo
    <3>1. CASE WriteOut(p)
      BY <3>1, ClosedIs DEF WriteOut
    <3>2. CASE Flush(p) \/ Open(p) \/ Clean(p)
      BY <3>2, <1>d DEF Flush, Open, Clean, FileTypeOK, Job
    <3> QED
      BY <1>14, <3>1, <3>2
  <2>2. at'[p] \in {"open", "write", "clean"} \/ at'[p] = job[p].back
    BY <1>14 DEF Flush, Open, WriteOut, Clean, Go, FileTypeOK
  <2>3. job[p].back \in {"drop", "sweep", "stop"} /\ (job[p].back = "drop" => job[p].todo # <<>>)
    BY <2>0, TurnIs DEF Evicting
  <2>4. job[p].back # "drop" => p \in Timers
    BY <1>a, <2>0 DEF PlaceFine, Evicting
  <2>5. p \in Requests => job[p].then # "idle"
    BY <1>a, <2>0 DEF PlaceFine, Evicting
  <2>6. (job[p].then # "idle" => p \in Requests) /\ (job[p].then = "put" => job[p].new \in Nat)
    BY <1>a DEF PlaceFine
  <2>7. at'[p] = job[p].back => at'[p] \in {"drop", "sweep", "stop"}
    BY <2>3
  <2> QED
    BY <1>c, <2>1, <2>2, <2>3, <2>4, <2>5, <2>6, <2>7 DEF PlaceFine, Evicting, Flushing
<1> QED
  <2>1. ASSUME p \in Requests, RequestStep(p) PROVE PlaceFine(p)'
    BY <2>1, <1>1, <1>2, <1>3, <1>4, <1>5, <1>6, <1>7, <1>e DEF RequestStep, Mark
  <2>2. ASSUME p \in Timers, StartTimer(p) \/ Sweep(p) \/ Age(p) \/ Shutdown(p) \/ Stop(p) PROVE PlaceFine(p)'
    BY <2>2, <1>8, <1>9, <1>10 DEF StartTimer, Shutdown
  <2> QED
    BY <2>1, <2>2, <1>11, <1>12, <1>13, <1>14 DEF Step, FlushStep

LEMMA PlaceStep ==
  ASSUME FileTypeOK, PlaceInv, Observe, Next
  PROVE  PlaceInv'
<1>1. ASSUME NEW p \in Processes, Step(p) PROVE PlaceInv'
  <2>1. \A q \in Processes : p # q => PlaceFine(q)'
    BY <1>1, StepKeeps, PlaceOthers
  <2>2. PlaceFine(p)'
    BY <1>1, PlaceOwn
  <2> QED
    BY <2>1, <2>2 DEF PlaceInv
<1>2. ASSUME NEW t \in Timers, Restart(t) PROVE PlaceInv'
  <2>1. \A q \in Processes : at'[q] = "idle" /\ job'[q].then = "idle"
    BY <1>2 DEF Restart, IdleJob
  <2> QED
    BY <2>1 DEF PlaceInv, PlaceFine, Evicting, Flushing
<1> QED
  BY <1>1, <1>2, NextIs

--------------------------------------------------------------------------------
\* The files.  A step of p touches the files p is on; the others stay as they were.
LEMMA Distinct ==
  /\ Absent \notin Contents /\ Disposed \notin Contents /\ Disposed # Absent
  /\ Absent # TRUE /\ Absent # FALSE /\ Truncated # Absent /\ Truncated \in Contents
BY FileAssumption DEF Contents

LEMMA OnFileKept ==
  ASSUME FileTypeOK, NEW p \in Processes, NEW q \in Processes, Kept(p, q), NEW f \in Files
  PROVE  OnFile(q, f)' <=> OnFile(q, f)
<1>1. CASE at'[q] = at[q]
  BY <1>1, KeptFields DEF OnFile
<1>2. CASE at[q] = "write" /\ at'[q] = "lost"
  BY <1>2, KeptFields DEF OnFile
<1> QED
  BY <1>1, <1>2, KeptFields

LEMMA WorkingKept ==
  ASSUME FileTypeOK, NEW p \in Processes, NEW q \in Processes, Kept(p, q),
         NEW f \in Files, ~Meets(p, f), Left(f), Working(q, f)
  PROVE  Working(q, f)'
<1>1. Settled(f)' <=> Settled(f)
  BY DEF Left, Settled, Shown, Visible
<1>2. Shown(f)' <=> Shown(f)
  BY DEF Left, Shown, Visible
<1>3. CASE at'[q] = at[q]
  <2>1. InTurn(q) = f /\ at[q] \in {"open", "write"} => job'[q] = job[q]
    BY KeptFields
  <2> QED
    BY <1>1, <1>2, <1>3, <2>1, KeptFields DEF Left, Working
<1>4. CASE at[q] = "write" /\ at'[q] = "lost" /\ OnFile(p, InTurn(q))
  <2>1. InTurn(q) # f /\ InTurn(q)' # f
    BY <1>4, KeptFields DEF Meets
  <2> QED
    BY <1>1, <1>2, <1>4, <2>1, KeptFields DEF Left, Working
<1> QED
  BY <1>3, <1>4, KeptFields

\* What a step of p makes of a file that it comes to, or is on.
Stage(p, f) ==
  /\ ~OnFile(p, f) /\ Settled(f) /\ Left(f) /\ OnFile(p, f)' => Working(p, f)'
  /\ OnFile(p, f) /\ Working(p, f) /\ OnFile(p, f)' => Working(p, f)'
  /\ OnFile(p, f) /\ Working(p, f) /\ ~OnFile(p, f)' => Settled(f)'

LEMMA FileFrame ==
  ASSUME FileTypeOK, FileInv, Observe, NEW p \in Processes, NEW f \in Files,
         \A q \in Processes : p # q => Kept(p, q), OnFile(p, f) \/ Left(f),
         Alone(f)', Stage(p, f)
  PROVE  FileFine(f)'
<1>1. \A q \in Processes : p # q => (OnFile(q, f)' <=> OnFile(q, f))
  BY OnFileKept
<1>2. FileFine(f)
  BY AloneBack DEF FileInv
<1>3. \A q \in Processes : p # q => ~(OnFile(p, f) /\ OnFile(q, f)) /\ ~(OnFile(p, f)' /\ OnFile(q, f)')
  BY AloneBack
<1>4. CASE OnFile(p, f)
  <2>1. Working(p, f)
    BY <1>2, <1>3, <1>4 DEF FileFine
  <2>2. CASE OnFile(p, f)'
    <3>1. Working(p, f)'
      BY <1>4, <2>1, <2>2 DEF Stage
    <3> QED
      BY <2>2, <3>1 DEF FileFine
  <2>3. CASE ~OnFile(p, f)'
    <3>1. Settled(f)'
      BY <1>4, <2>1, <2>3 DEF Stage
    <3>2. \A q \in Processes : ~OnFile(q, f)'
      BY <1>1, <1>3, <1>4, <2>3
    <3> QED
      BY <3>1, <3>2 DEF FileFine
  <2> QED
    BY <2>2, <2>3
<1>5. CASE ~OnFile(p, f)
  <2>1. CASE OnFile(p, f)'
    <3>1. Settled(f)
      BY <1>1, <1>2, <1>3, <1>5, <2>1 DEF FileFine
    <3>2. Working(p, f)'
      BY <1>5, <2>1, <3>1 DEF Stage
    <3> QED
      BY <2>1, <3>2 DEF FileFine
  <2>2. CASE ~OnFile(p, f)'
    <3>1. CASE Settled(f) /\ \A q \in Processes : ~OnFile(q, f)
      <4>1. Settled(f)'
        BY <1>5, <3>1 DEF Left, Settled, Shown, Visible
      <4>2. \A q \in Processes : ~OnFile(q, f)'
        BY <1>1, <2>2, <3>1
      <4> QED
        BY <4>1, <4>2 DEF FileFine
    <3>2. ASSUME NEW q \in Processes, OnFile(q, f), Working(q, f) PROVE FileFine(f)'
      <4>1. p # q
        BY <1>5, <3>2
      <4>2. OnFile(q, f)' /\ Working(q, f)'
        BY <1>1, <1>5, <3>2, <4>1, WorkingKept DEF Meets, Alone
      <4> QED
        BY <4>2 DEF FileFine
    <3> QED
      BY <1>2, <3>1, <3>2 DEF FileFine
  <2> QED
    BY <2>1, <2>2
<1> QED
  BY <1>4, <1>5

\* The file settles the same if nothing of it has changed.
LEMMA LeftSettled ==
  ASSUME NEW f, Left(f)
  PROVE  (Settled(f)' <=> Settled(f)) /\ (Shown(f)' <=> Shown(f))
BY DEF Left, Settled, Shown, Visible

\* An operation that starts, or its first steps.
LEMMA StageStart ==
  ASSUME FileTypeOK, NEW p \in Processes, NEW f \in Files, NEW g \in Files,
         \/ Download(p, g) \/ Delete(p, g) \/ \E overwrite \in BOOLEAN : Upload(p, g, overwrite)
  PROVE  Stage(p, f)
<1>1. at[p] = "idle" /\ ~OnFile(p, f)
  BY DEF Download, Delete, Upload, OnFile
<1>2. Left(f)
  BY DEF Download, Delete, Upload, Left
<1>3. IdleJob \in Job /\ IdleJob.then = "idle"
  BY IdleJobType DEF IdleJob
<1>4. SUFFICES ASSUME Settled(f), OnFile(p, f)' PROVE Working(p, f)'
  BY <1>1 DEF Stage
<1>5. Settled(f)'
  BY <1>2, <1>4, LeftSettled
<1>6. ASSUME at'[p] = "idle" PROVE FALSE
  BY <1>4, <1>6 DEF OnFile
<1>7. ASSUME at'[p] = "remove", job'[p].then = "idle" PROVE Working(p, f)'
  BY <1>5, <1>7 DEF Working, Evicting, Flushing
<1>8. ASSUME at'[p] = "room", job'[p].then = "put" PROVE Working(p, f)'
  BY <1>5, <1>8 DEF Working, Evicting, Flushing
<1>9. ASSUME at'[p] = "room", job'[p].file = g, job'[p].new = disk[g], memory[g] = Absent, disk[g] # Absent
      PROVE  Working(p, f)'
  <2>1. f = g
    BY <1>4, <1>9 DEF OnFile
  <2>2. memory'[f] = Absent /\ disk'[f] = job'[p].new /\ dirty'[f] # TRUE
    BY <1>2, <1>4, <1>9, <2>1 DEF Left, Settled
  <2> QED
    BY <1>5, <1>9, <2>2 DEF Working, Evicting, Flushing
<1>10. CASE Download(p, g)
  <2>1. CASE UNCHANGED at
    BY <1>1, <1>6, <2>1
  <2>2. CASE /\ memory[g] = Absent /\ disk[g] # Absent /\ Go(p, "room")
             /\ job' = [job EXCEPT ![p] = [IdleJob EXCEPT !.file = g, !.new = disk[g], !.then = "load"]]
    <3>1. at'[p] = "room" /\ job'[p] = [IdleJob EXCEPT !.file = g, !.new = disk[g], !.then = "load"]
      BY <2>2 DEF Go, FileTypeOK
    <3>2. job'[p].file = g /\ job'[p].new = disk[g]
      BY <1>3, <3>1 DEF Job
    <3> QED
      BY <1>9, <2>2, <3>1, <3>2
  <2> QED
    BY <1>10, <2>1, <2>2 DEF Download
<1>11. CASE Delete(p, g)
  <2>1. at'[p] = "remove" /\ job'[p] = [IdleJob EXCEPT !.file = g]
    BY <1>11 DEF Delete, Go, FileTypeOK
  <2> QED
    BY <1>3, <1>7, <2>1 DEF Job
<1>12. ASSUME NEW overwrite \in BOOLEAN, Upload(p, g, overwrite) PROVE Working(p, f)'
  <2>1. at'[p] = "room" /\ job'[p] = [IdleJob EXCEPT !.file = g, !.new = uploads + 1, !.then = "put"]
    BY <1>12 DEF Upload, Go, FileTypeOK
  <2> QED
    BY <1>3, <1>8, <2>1 DEF Job
<1> QED
  BY <1>10, <1>11, <1>12

\* A file on which an operation goes on, to a place that expects nothing more of it.
LEMMA StageOn ==
  ASSUME FileTypeOK, NEW p \in Processes, NEW f \in Files, Left(f),
         OnFile(p, f) => job[p].file = f /\ at[p] \in {"room", "evict"},
         OnFile(p, f)' => OnFile(p, f),
         job'[p].then = job[p].then, job'[p].file = job[p].file, job'[p].new = job[p].new,
         at'[p] \in {"room", "evict", "put", "load"}
  PROVE  Stage(p, f)
<1>1. SUFFICES ASSUME OnFile(p, f), Working(p, f)
               PROVE  Settled(f)' /\ Working(p, f)'
  BY DEF Stage
<1>2. Settled(f)'
  BY <1>1, LeftSettled DEF Working
<1>3. job[p].then = "load" =>
        memory'[f] = Absent /\ disk'[f] = job'[p].new /\ dirty'[f] # TRUE
  BY <1>1 DEF Left, Working
<1> QED
  BY <1>2, <1>3 DEF Working, Evicting, Flushing

LEMMA StageRoom ==
  ASSUME FileTypeOK, PlaceInv, NEW p \in Requests, NEW f \in Files, Room(p)
  PROVE  Stage(p, f)
<1>1. p \in Processes /\ job[p] \in Job
  BY JobOf DEF Processes
<1>2. at[p] = "room" /\ job[p].then \in {"put", "load"}
  BY <1>1 DEF Room, PlaceInv, PlaceFine, Job
<1>3. /\ job'[p].then = job[p].then /\ job'[p].file = job[p].file /\ job'[p].new = job[p].new
      /\ at'[p] \in {"evict", "put", "load"}
  BY <1>1, <1>2 DEF Room, Go, FileTypeOK, Job
<1>4. Left(f)
  BY DEF Room, Left
<1>5. OnFile(p, f) <=> job[p].file = f
  BY <1>2 DEF OnFile
<1>6. OnFile(p, f)' => job[p].file = f
  BY <1>3 DEF OnFile
<1> QED
  BY <1>1, <1>2, <1>3, <1>4, <1>5, <1>6, StageOn

\* The stages of an upload and of a download from disk.
LEMMA StagePut ==
  ASSUME FileTypeOK, PlaceInv, NEW p \in Requests, NEW f \in Files, Put(p)
  PROVE  Stage(p, f)
<1>1. p \in Processes /\ job[p].new \in Contents
  BY JobOf DEF Processes
<1>2. /\ (at[p] = "put" /\ at'[p] = "mark") \/ (at[p] = "load" /\ at'[p] = "keep")
      /\ job'[p] = job[p] /\ memory' = [memory EXCEPT ![job[p].file] = job[p].new]
      /\ UNCHANGED <<disk, dirty, last, failed>>
  <2>1. at[p] \in {"put", "load"} /\ at'[p] = (IF at[p] = "put" THEN "mark" ELSE "keep")
    BY <1>1 DEF Put, Go, FileTypeOK
  <2>2. /\ memory' = [memory EXCEPT ![job[p].file] = job[p].new] /\ job' = job
        /\ UNCHANGED <<disk, dirty, last, failed>>
    BY DEF Put
  <2> QED
    BY <2>1, <2>2
<1>3. (OnFile(p, f) <=> job[p].file = f) /\ (OnFile(p, f)' <=> job[p].file = f)
  BY <1>2 DEF OnFile
<1>4. SUFFICES ASSUME job[p].file = f, Working(p, f) PROVE Working(p, f)'
  BY <1>3 DEF Stage
<1>5. memory'[f] = job[p].new
  BY <1>2, <1>4 DEF FileTypeOK
<1>6. CASE at'[p] = "mark"
  <2>1. job[p].then = "put"
    BY <1>1, <1>2, <1>6 DEF PlaceInv, PlaceFine
  <2> QED
    BY <1>2, <1>5, <1>6, <2>1 DEF Working, Evicting, Flushing
<1>7. CASE at'[p] = "keep"
  <2>1. job[p].then = "load"
    BY <1>1, <1>2, <1>7 DEF PlaceInv, PlaceFine
  <2>2. memory[f] = Absent /\ disk[f] = job[p].new /\ dirty[f] # TRUE /\ Settled(f)
    BY <1>2, <1>4, <1>7, <2>1 DEF Working
  <2>3. Settled(f)'
    BY <1>1, <1>2, <1>5, <2>2, Distinct DEF Settled, Shown, Visible
  <2> QED
    BY <1>2, <1>5, <1>7, <2>1, <2>2, <2>3 DEF Working, Evicting, Flushing
<1> QED
  BY <1>2, <1>6, <1>7

LEMMA StageMark ==
  ASSUME FileTypeOK, PlaceInv, NEW p \in Requests, NEW f \in Files, Mark(p)
  PROVE  Stage(p, f)
<1>1. p \in Processes /\ job[p].new \in Contents
  BY JobOf DEF Processes
<1>2. at[p] \in {"mark", "keep"} /\ at'[p] = "idle"
  BY <1>1 DEF Mark, Done, Go, FileTypeOK
<1>3. (OnFile(p, f) <=> job[p].file = f) /\ ~OnFile(p, f)'
  BY <1>2 DEF OnFile
<1>4. SUFFICES ASSUME job[p].file = f, Working(p, f) PROVE Settled(f)'
  BY <1>3 DEF Stage
<1>5. UNCHANGED <<disk, memory>> /\ dirty'[f] = (at[p] = "mark")
  BY <1>4 DEF Mark, FlagOf, FileTypeOK
<1>6. CASE at[p] = "mark"
  <2>1. last'[f] = job[p].new /\ memory[f] = job[p].new
    BY <1>4, <1>6 DEF Mark, FileTypeOK, Working
  <2> QED
    BY <1>1, <1>5, <1>6, <2>1, Distinct DEF Settled, Shown, Visible
<1>7. CASE at[p] = "keep"
  <2>1. UNCHANGED <<last, failed>> /\ memory[f] = disk[f] /\ dirty[f] # TRUE /\ Settled(f)
    BY <1>4, <1>7 DEF Mark, Working
  <2> QED
    BY <1>5, <1>7, <2>1 DEF Settled, Shown, Visible
<1> QED
  BY <1>2, <1>6, <1>7

\* The stages of a deletion.
LEMMA StageDelete ==
  ASSUME FileTypeOK, PlaceInv, NEW p \in Requests, NEW f \in Files, Uncache(p) \/ Erase(p) \/ Unlink(p)
  PROVE  Stage(p, f)
<1>1. p \in Processes
  BY DEF Processes
<1>2. at[p] \in {"remove", "erase", "unlink"}
  BY DEF Uncache, Erase, Unlink
<1>3. OnFile(p, f) <=> job[p].file = f
  BY <1>2 DEF OnFile
<1>4. job[p].then = "idle"
  BY <1>1, <1>2, JobOf DEF PlaceInv, PlaceFine
<1>5. CASE Uncache(p)
  <2>1. job'[p] = job[p]
    <3>1. ASSUME NEW begun \in BOOLEAN, job' = Dispose(job[p].file, begun) PROVE job'[p] = job[p]
      BY <1>1, <1>2, <3>1, JobOf, DisposeAt
    <3> QED
      BY <1>5, <3>1 DEF Uncache
  <2>2. at[p] = "remove" /\ at'[p] \in {"unlink", "erase"} /\ UNCHANGED <<disk, dirty, last, failed>>
    BY <1>1, <1>5 DEF Uncache, Go, FileTypeOK
  <2>3. OnFile(p, f)' <=> job[p].file = f
    BY <2>1, <2>2 DEF OnFile
  <2>4. SUFFICES ASSUME job[p].file = f, Working(p, f) PROVE Working(p, f)'
    BY <1>3, <2>3 DEF Stage
  <2>5. memory'[f] = Absent
    BY <1>5, <2>4 DEF Uncache, FileTypeOK
  <2>6. Settled(f)
    BY <2>2, <2>4 DEF Working
  <2>7. CASE at'[p] = "unlink"
    <3>1. memory[f] = Absent
      BY <1>1, <1>5, <2>4, <2>7 DEF Uncache, Go, FileTypeOK
    <3>2. dirty'[f] # TRUE
      BY <2>2, <2>6, <3>1 DEF Settled
    <3> QED
      BY <1>4, <2>1, <2>5, <2>7, <3>2 DEF Working, Evicting, Flushing
  <2>8. CASE at'[p] = "erase"
    BY <1>4, <2>1, <2>5, <2>8 DEF Working, Evicting, Flushing
  <2> QED
    BY <2>2, <2>7, <2>8
<1>6. CASE Erase(p)
  <2>1. /\ job'[p] = job[p] /\ at[p] = "erase" /\ at'[p] = "unlink"
        /\ UNCHANGED <<disk, memory, last, failed>>
    BY <1>1, <1>6 DEF Erase, Go, FileTypeOK
  <2>2. OnFile(p, f)' <=> job[p].file = f
    BY <2>1 DEF OnFile
  <2>3. SUFFICES ASSUME job[p].file = f, Working(p, f) PROVE Working(p, f)'
    BY <1>3, <2>2 DEF Stage
  <2>4. memory'[f] = Absent /\ dirty'[f] # TRUE
    BY <1>6, <2>1, <2>3, Distinct DEF Erase, Working, FileTypeOK
  <2> QED
    BY <1>4, <2>1, <2>4 DEF Working, Evicting, Flushing
<1>7. CASE Unlink(p)
  <2>1. at[p] = "unlink" /\ at'[p] = "idle" /\ UNCHANGED <<memory, dirty, failed>>
    BY <1>1, <1>7 DEF Unlink, FileTypeOK
  <2>2. ~OnFile(p, f)'
    BY <2>1 DEF OnFile
  <2>3. SUFFICES ASSUME job[p].file = f, Working(p, f) PROVE Settled(f)'
    BY <1>3, <2>2 DEF Stage
  <2>4. memory[f] = Absent /\ dirty[f] # TRUE /\ disk'[f] = Absent /\ last'[f] = Absent
    BY <1>7, <2>1, <2>3 DEF Unlink, Working, FileTypeOK
  <2> QED
    BY <2>1, <2>4 DEF Settled, Shown, Visible
<1> QED
  BY <1>5, <1>6, <1>7

\* The stages of the timer and of the shutdown.
LEMMA StageTimer ==
  ASSUME FileTypeOK, PlaceInv, NEW p \in Timers, NEW f \in Files,
         StartTimer(p) \/ Sweep(p) \/ Age(p) \/ Shutdown(p) \/ Stop(p)
  PROVE  Stage(p, f)
<1>1. p \in Processes /\ p \notin Requests
  BY FileAssumption DEF Processes
<1>2. at[p] \in {"idle", "sweep", "age", "stop"}
  BY DEF StartTimer, Sweep, Age, Shutdown, Stop
<1>3. ~OnFile(p, f)
  BY <1>2 DEF OnFile
<1>4. Left(f)
  BY DEF StartTimer, Sweep, Age, Shutdown, Stop, Left
<1>5. IdleJob.then = "idle" /\ job[p].then = "idle" /\ IdleJob \in Job /\ job[p] \in Job
  BY <1>1, IdleJobType, JobOf DEF IdleJob, PlaceInv, PlaceFine
<1>6. at'[p] \in {"sweep", "age", "evict", "stop", "clear", "flush"}
  BY <1>1 DEF StartTimer, Sweep, Age, Shutdown, Stop, Go, FileTypeOK
<1>7. job'[p].then = "idle"
  <2>1. CASE StartTimer(p) \/ Shutdown(p) \/ Age(p)
    <3>1. \E order, n, back : job'[p] = [IdleJob EXCEPT !.todo = order, !.need = n, !.back = back]
      <4>1. CASE StartTimer(p) \/ Shutdown(p)
        <5>1. \E order, back : job'[p] = [IdleJob EXCEPT !.todo = order, !.back = back]
          <6>1. CASE StartTimer(p)
            <7>1. PICK order \in SetToSeqs({g \in Files : dirty[g] = TRUE}) :
                    job' = [job EXCEPT ![p] = [IdleJob EXCEPT !.todo = order, !.back = "sweep"]]
              BY <6>1 DEF StartTimer
            <7> QED
              BY <1>1, <7>1 DEF FileTypeOK
          <6>2. CASE Shutdown(p)
            <7>1. PICK order \in SetToSeqs({g \in Files : memory[g] # Absent}) :
                    job' = [job EXCEPT ![p] = [IdleJob EXCEPT !.todo = order, !.back = "stop"]]
              BY <6>2 DEF Shutdown
            <7> QED
              BY <1>1, <7>1 DEF FileTypeOK
          <6> QED
            BY <4>1, <6>1, <6>2
        <5>2. PICK order, back : job'[p] = [IdleJob EXCEPT !.todo = order, !.back = back]
          BY <5>1
        <5>3. job'[p] = [IdleJob EXCEPT !.todo = order, !.need = IdleJob.need, !.back = back]
          BY <1>5, <5>2 DEF Job
        <5> QED
          BY <5>3
      <4>2. CASE Age(p)
        <5>1. PICK n : job'[p] = [IdleJob EXCEPT !.todo = SubSeq(access, 1, n), !.need = n]
          BY <1>1, <4>2 DEF Age, FileTypeOK
        <5>2. job'[p] = [IdleJob EXCEPT !.todo = SubSeq(access, 1, n), !.need = n, !.back = IdleJob.back]
          BY <1>5, <5>1 DEF Job
        <5> QED
          BY <5>2
      <4> QED
        BY <2>1, <4>1, <4>2
    <3> QED
      BY <1>5, <3>1 DEF Job
  <2>2. CASE Sweep(p) \/ Stop(p)
    BY <1>1, <1>5, <2>2 DEF Sweep, Stop, TakeNext, FileTypeOK, Job
  <2> QED
    BY <2>1, <2>2
<1>8. SUFFICES ASSUME Settled(f), OnFile(p, f)' PROVE Working(p, f)'
  BY <1>3 DEF Stage
<1>9. at'[p] = "flush"
  BY <1>6, <1>7, <1>8 DEF OnFile
<1>10. Settled(f)'
  BY <1>4, <1>8, LeftSettled
<1> QED
  BY <1>7, <1>9, <1>10 DEF Working, Evicting

\* A file another file is evicted for, while that one is flushed or dropped.
LEMMA StageBystander ==
  ASSUME FileTypeOK, PlaceInv, NEW p \in Processes, NEW f \in Files, Left(f),
         at[p] \in Evicting, InTurn(p) # f,
         job'[p].then = job[p].then, job'[p].file = job[p].file, job'[p].new = job[p].new,
         at'[p] \in Evicting \cup {"evict", "sweep", "stop"},
         at'[p] \in {"sweep", "stop"} => p \in Timers,
         at'[p] \in Evicting => InTurn(p)' = InTurn(p),
         at'[p] \in {"drop", "forget"} => Head(job'[p].todo) = InTurn(p)
  PROVE  Stage(p, f)
<1>1. at[p] \in {"drop", "forget"} => InTurn(p) = Head(job[p].todo)
  BY TurnIs
<1>2. OnFile(p, f) <=> job[p].then # "idle" /\ job[p].file = f
  BY <1>1 DEF OnFile, Evicting, Flushing
<1>3. p \in Timers => job[p].then = "idle"
  BY FileAssumption DEF PlaceInv, PlaceFine
<1>4. OnFile(p, f)' => OnFile(p, f)
  BY <1>2 DEF OnFile, Evicting, Flushing
<1>5. OnFile(p, f) => OnFile(p, f)'
  BY <1>2, <1>3 DEF OnFile, Evicting, Flushing
<1>6. SUFFICES ASSUME OnFile(p, f), Working(p, f) PROVE Working(p, f)'
  BY <1>4, <1>5 DEF Stage
<1>7. at'[p] \in Evicting \cup {"evict"}
  BY <1>2, <1>3, <1>6
<1>8. Settled(f)'
  BY <1>6, LeftSettled DEF Working, Evicting, Flushing
<1>9. job[p].then = "load" =>
        memory'[f] = Absent /\ disk'[f] = job'[p].new /\ dirty'[f] # TRUE
  BY <1>2, <1>6 DEF Left, Working, Evicting, Flushing
<1> QED
  BY <1>7, <1>8, <1>9 DEF Working, Evicting, Flushing

LEMMA StageEvict ==
  ASSUME FileTypeOK, PlaceInv, NEW p \in Processes, NEW f \in Files, Evict(p)
  PROVE  Stage(p, f)
<1>1. at[p] = "evict" /\ job[p] \in Job /\ Left(f)
  BY JobOf DEF Evict, Left
<1>2. OnFile(p, f) <=> job[p].then # "idle" /\ job[p].file = f
  BY <1>1 DEF OnFile
<1>3. CASE job[p].then = "idle" /\ Done(p)
  <2>1. at'[p] = "idle"
    BY <1>3 DEF Done, Go, FileTypeOK
  <2> QED
    BY <1>2, <1>3, <2>1 DEF OnFile, Stage
<1>4. CASE job[p].then # "idle" /\ Go(p, job[p].then) /\ UNCHANGED job
  <2>1. at'[p] \in {"put", "load"}
    BY <1>1, <1>4 DEF Go, FileTypeOK, Job
  <2>2. OnFile(p, f)' => OnFile(p, f)
    BY <1>2, <1>4, <2>1 DEF OnFile
  <2> QED
    BY <1>1, <1>2, <1>4, <2>1, <2>2, StageOn
<1>5. CASE job' = [job EXCEPT ![p].todo = Tail(@)] /\ UNCHANGED at
  <2>1. job'[p].then = job[p].then /\ job'[p].file = job[p].file /\ job'[p].new = job[p].new
    BY <1>1, <1>5 DEF FileTypeOK, Job
  <2>2. OnFile(p, f)' => OnFile(p, f)
    BY <1>1, <1>2, <1>5, <2>1 DEF OnFile
  <2> QED
    BY <1>1, <1>2, <1>5, <2>1, <2>2, StageOn
<1>6. CASE /\ p \in Timers \/ memory[Head(job[p].todo)] # Absent
           /\ job' = [job EXCEPT ![p].back = "drop"]
           /\ Go(p, IF dirty[Head(job[p].todo)] = TRUE THEN "flush" ELSE "drop")
  <2> DEFINE h == Head(job[p].todo)
  <2>1. /\ job'[p].then = job[p].then /\ job'[p].file = job[p].file /\ job'[p].new = job[p].new
        /\ job'[p].todo = job[p].todo /\ job'[p].back = "drop"
    BY <1>1, <1>6 DEF FileTypeOK, Job
  <2>2. (at'[p] = "flush" \/ at'[p] = "drop") /\ InTurn(p)' = h
        /\ (at'[p] = "drop" => dirty[h] # TRUE)
    BY <1>6, <2>1 DEF Go, FileTypeOK, InTurn
  <2> HIDE DEF h
  <2>3. job[p].then = "load" => p \in Requests /\ p \notin Timers
    BY FileAssumption DEF PlaceInv, PlaceFine
  <2>4. OnFile(p, f)' <=> h = f \/ (job[p].then # "idle" /\ job[p].file = f)
    BY <2>1, <2>2 DEF OnFile, h
  <2>5. ASSUME Settled(f), OnFile(p, f)',
               job[p].then = "load" /\ job[p].file = f =>
                 memory[f] = Absent /\ disk[f] = job[p].new /\ dirty[f] # TRUE
        PROVE  Working(p, f)'
    <3>1. Settled(f)'
      BY <1>1, <2>5, LeftSettled
    <3>2. h = f /\ job[p].then = "load" => job[p].file # f
      BY <1>6, <2>3, <2>5 DEF h
    <3>3. job[p].then = "load" /\ job[p].file = f =>
            memory'[f] = Absent /\ disk'[f] = job'[p].new /\ dirty'[f] # TRUE
      BY <1>1, <2>1, <2>5 DEF Left
    <3>4. h = f /\ at'[p] = "drop" => dirty'[f] # TRUE
      BY <1>1, <2>2 DEF Left
    <3> QED
      BY <2>1, <2>2, <3>1, <3>2, <3>3, <3>4 DEF Working, Evicting, Flushing
  <2>6. ASSUME ~OnFile(p, f), Settled(f), OnFile(p, f)' PROVE Working(p, f)'
    BY <1>2, <2>5, <2>6
  <2>7. ASSUME OnFile(p, f), Working(p, f) PROVE OnFile(p, f)' /\ Working(p, f)'
    <3>1. Settled(f)
      BY <1>1, <2>7 DEF Working
    <3>2. job[p].then = "load" => memory[f] = Absent /\ disk[f] = job[p].new /\ dirty[f] # TRUE
      BY <1>1, <1>2, <2>7 DEF Working
    <3> QED
      BY <1>2, <2>4, <2>5, <2>7, <3>1, <3>2
  <2> QED
    BY <2>6, <2>7 DEF Stage
<1> QED
  BY <1>3, <1>4, <1>5, <1>6 DEF Evict

\* The file in turn is dropped from memory, ...
LEMMA DropIs ==
  ASSUME FileTypeOK, PlaceInv, NEW p \in Processes, Drop(p)
  PROVE  LET f == Head(job[p].todo)
         IN  /\ at[p] = "drop" /\ at'[p] = "forget" /\ f \in Files /\ job[p].todo # <<>>
             /\ job[p].back = "drop" /\ InTurn(p) = f /\ InTurn(p)' = f
             /\ job'[p].then = job[p].then /\ job'[p].file = job[p].file /\ job'[p].new = job[p].new
             /\ job'[p].todo = job[p].todo /\ job'[p].back = job[p].back
             /\ job'[p].need = job[p].need - (IF memory[f] = Absent THEN 0 ELSE 1)
             /\ memory' = [memory EXCEPT ![f] = Absent]
<1> DEFINE f == Head(job[p].todo)
<1>1. /\ at[p] = "drop" /\ at'[p] = "forget" /\ f \in Files /\ job[p].todo # <<>>
      /\ job[p].back = "drop" /\ InTurn(p) = f
  BY TurnIs DEF Drop, Evicting, Go, FileTypeOK
<1>2. job[p] \in Job
  BY JobOf
<1>3. CASE memory[f] = Absent /\ UNCHANGED <<memory, job>>
  <2>1. memory' = [memory EXCEPT ![f] = Absent]
    BY <1>1, <1>3 DEF FileTypeOK
  <2>2. InTurn(p)' = f /\ job'[p].need = job[p].need - 0
    BY <1>1, <1>2, <1>3 DEF InTurn, Job
  <2> QED
    BY <1>1, <1>3, <2>1, <2>2
<1>4. ASSUME NEW begun \in BOOLEAN, memory[f] # Absent, memory' = [memory EXCEPT ![f] = Absent],
             job' = [Dispose(f, begun) EXCEPT ![p].need = @ - 1]
      PROVE  /\ job'[p].then = job[p].then /\ job'[p].file = job[p].file /\ job'[p].new = job[p].new
             /\ job'[p].todo = job[p].todo /\ job'[p].back = job[p].back
             /\ job'[p].need = job[p].need - 1 /\ InTurn(p)' = f
  <2>1. Dispose(f, begun) \in [Processes -> Job]
    BY <1>1, DisposeIs
  <2>2. Dispose(f, begun)[p] = job[p]
    BY <1>1, DisposeAt
  <2>3. job'[p] = [job[p] EXCEPT !.need = @ - 1]
    BY <1>4, <2>1, <2>2
  <2>4. /\ job'[p].then = job[p].then /\ job'[p].file = job[p].file /\ job'[p].new = job[p].new
        /\ job'[p].todo = job[p].todo /\ job'[p].back = job[p].back
        /\ job'[p].need = job[p].need - 1
    BY <1>2, <2>3 DEF Job
  <2> QED
    BY <1>1, <2>4 DEF InTurn
<1> QED
  BY <1>1, <1>3, <1>4 DEF Drop

LEMMA StageDrop ==
  ASSUME FileTypeOK, PlaceInv, NEW p \in Processes, NEW f \in Files, Drop(p)
  PROVE  Stage(p, f)
<1>1. /\ at[p] = "drop" /\ at'[p] = "forget" /\ InTurn(p) \in Files
      /\ InTurn(p)' = InTurn(p) /\ Head(job[p].todo) = InTurn(p)
      /\ job'[p].then = job[p].then /\ job'[p].file = job[p].file /\ job'[p].new = job[p].new
      /\ job'[p].todo = job[p].todo /\ memory' = [memory EXCEPT ![InTurn(p)] = Absent]
      /\ UNCHANGED <<disk, dirty, last, failed>>
  BY DropIs DEF Drop
<1>2. CASE InTurn(p) # f
  <2>1. Left(f)
    BY <1>1, <1>2 DEF Left, FileTypeOK
  <2> QED
    BY <1>1, <1>2, <2>1, StageBystander DEF Evicting
<1>3. CASE InTurn(p) = f
  <2>1. OnFile(p, f) /\ OnFile(p, f)'
    BY <1>1, <1>3 DEF OnFile
  <2>2. SUFFICES ASSUME Working(p, f) PROVE Working(p, f)'
    BY <2>1 DEF Stage
  <2>3. /\ Settled(f) /\ (dirty[f] # TRUE \/ f \in failed)
        /\ job[p].then = "load" => job[p].file # f
    BY <1>1, <1>3, <2>2 DEF Working, Evicting
  <2>4. memory'[f] = Absent
    BY <1>1, <1>3 DEF FileTypeOK
  <2>5. Shown(f)'
    BY <1>1, <2>3, <2>4 DEF Settled, Shown, Visible
  <2> QED
    BY <1>1, <1>3, <2>3, <2>4, <2>5 DEF Working, Evicting
<1> QED
  BY <1>2, <1>3

\* ... and forgotten.
LEMMA StageForget ==
  ASSUME FileTypeOK, PlaceInv, NEW p \in Processes, NEW f \in Files, Forget(p)
  PROVE  Stage(p, f)
<1>1. /\ at[p] = "forget" /\ at'[p] = "evict" /\ InTurn(p) \in Files /\ Head(job[p].todo) = InTurn(p)
      /\ dirty' = [dirty EXCEPT ![InTurn(p)] = Absent] /\ UNCHANGED <<disk, memory, last, failed>>
  BY TurnIs DEF Forget, Evicting, Go, FileTypeOK
<1>2. job'[p].then = job[p].then /\ job'[p].file = job[p].file /\ job'[p].new = job[p].new
  BY JobOf DEF Forget, FileTypeOK, Job
<1>3. CASE InTurn(p) # f
  <2>1. Left(f)
    BY <1>1, <1>3 DEF Left, FileTypeOK
  <2> QED
    BY <1>1, <1>2, <1>3, <2>1, StageBystander DEF Evicting, Flushing
<1>4. CASE InTurn(p) = f
  <2>1. OnFile(p, f)
    BY <1>1, <1>4 DEF OnFile
  <2>2. SUFFICES ASSUME Working(p, f) PROVE Settled(f)' /\ Working(p, f)'
    BY <2>1 DEF Stage
  <2>3. /\ Shown(f) /\ memory[f] = Absent
        /\ job[p].then = "load" => job[p].file # f
    BY <1>1, <1>4, <2>2 DEF Working, Evicting
  <2>4. dirty'[f] # TRUE
    BY <1>1, <1>4, Distinct DEF FileTypeOK
  <2>5. Settled(f)'
    BY <1>1, <2>3, <2>4 DEF Settled, Shown, Visible
  <2> QED
    BY <1>1, <1>2, <2>3, <2>5 DEF Working, Evicting, Flushing
<1> QED
  BY <1>3, <1>4

\* What a flush goes on to, and what it leaves of its locals.
LEMMA FlushIs ==
  ASSUME FileTypeOK, PlaceInv, NEW p \in Processes, Flush(p) \/ Open(p) \/ WriteOut(p) \/ Clean(p)
  PROVE  /\ at[p] \in Flushing /\ InTurn(p) \in Files /\ InTurn(p)' = InTurn(p)
         /\ job'[p].then = job[p].then /\ job'[p].file = job[p].file /\ job'[p].new = job[p].new
         /\ job'[p].todo = job[p].todo /\ job'[p].back = job[p].back /\ job'[p].need = job[p].need
         /\ at'[p] \in {"open", "write", "clean"} \/ at'[p] = job[p].back
         /\ at'[p] \in {"open", "write", "clean", "drop", "sweep", "stop"}
         /\ at'[p] \in {"sweep", "stop"} => p \in Timers /\ job[p].then = "idle"
         /\ at'[p] = "drop" => Head(job'[p].todo) = InTurn(p)
         /\ \A f \in Files : InTurn(p) # f => Left(f)
<1>1. at[p] \in Flushing
  BY DEF Flush, Open, WriteOut, Clean, Flushing
<1>2. /\ InTurn(p) \in Files /\ job[p].back \in {"drop", "sweep", "stop"}
      /\ job[p].back = "drop" => InTurn(p) = Head(job[p].todo)
  BY <1>1, TurnIs DEF Evicting
<1>3. /\ job'[p].then = job[p].then /\ job'[p].file = job[p].file /\ job'[p].new = job[p].new
      /\ job'[p].todo = job[p].todo /\ job'[p].back = job[p].back /\ job'[p].need = job[p].need
  <2>1. CASE WriteOut(p)
    BY <2>1, ClosedIs DEF WriteOut
  <2>2. CASE Flush(p) \/ Open(p) \/ Clean(p)
    BY <2>2, JobOf DEF Flush, Open, Clean, FileTypeOK, Job
  <2> QED
    BY <2>1, <2>2
<1>4. at'[p] \in {"open", "write", "clean"} \/ at'[p] = job[p].back
  BY DEF Flush, Open, WriteOut, Clean, Go, FileTypeOK
<1>5. job[p].back # "drop" => p \in Timers /\ job[p].then = "idle"
  BY <1>1, FileAssumption DEF PlaceInv, PlaceFine, Evicting
<1>6. \A f \in Files : InTurn(p) # f => Left(f)
  <2> SUFFICES ASSUME NEW f \in Files, InTurn(p) # f PROVE Left(f)
    OBVIOUS
  <2>1. CASE Flush(p)
    BY <2>1 DEF Flush, Left
  <2>2. CASE Open(p) \/ WriteOut(p) \/ Clean(p)
    BY <2>2 DEF Open, WriteOut, Written, NotWritten, Clean, Left, FileTypeOK
  <2> QED
    BY <2>1, <2>2
<1>7. InTurn(p)' = InTurn(p)
  BY <1>3 DEF InTurn
<1>8. at'[p] \in {"open", "write", "clean", "drop", "sweep", "stop"}
  BY <1>2, <1>4
<1>9. at'[p] = "drop" => job[p].back = "drop"
  BY <1>4
<1>10. at'[p] \in {"sweep", "stop"} => job[p].back # "drop"
  BY <1>4
<1> QED
  BY <1>1, <1>2, <1>3, <1>4, <1>5, <1>6, <1>7, <1>8, <1>9, <1>10

\* The file in turn is flushed: whatever becomes of it on disk, it is in memory
\* and dirty until it is on disk.
LEMMA StageFlush ==
  ASSUME FileTypeOK, PlaceInv, NEW p \in Processes, NEW f \in Files, f \notin crossed,
         Flush(p) \/ Open(p) \/ WriteOut(p) \/ Clean(p)
  PROVE  Stage(p, f)
<1>1. CASE InTurn(p) # f
  BY <1>1, FlushIs, StageBystander DEF Evicting, Flushing
<1>2. CASE InTurn(p) = f
  <2>1. OnFile(p, f)
    BY <1>2, FlushIs DEF OnFile, Flushing
  <2>2. SUFFICES ASSUME Working(p, f) PROVE Settled(f)' /\ (OnFile(p, f)' => Working(p, f)')
    BY <2>1 DEF Stage
  <2>3. at[p] \in Flushing /\ at[p] # "lost"
    BY <1>2, FlushIs DEF PlaceInv, PlaceFine
  <2>4. Settled(f) /\ (job[p].then = "load" => job[p].file # f)
    BY <1>2, <2>2, <2>3 DEF Working, Evicting, Flushing
  <2>5. ASSUME Settled(f)',
               at'[p] \in {"open", "write"} => dirty'[f] = TRUE /\ job'[p].stream = memory'[f],
               at'[p] = "clean" => dirty'[f] = TRUE /\ disk'[f] = memory'[f],
               at'[p] = "drop" => dirty'[f] # TRUE \/ f \in failed'
        PROVE  OnFile(p, f)' => Working(p, f)'
    <3>1. at'[p] \in {"sweep", "stop"} => ~OnFile(p, f)'
      BY DEF OnFile
    <3>2. ASSUME at'[p] \in {"open", "write", "clean", "drop"} PROVE Working(p, f)'
      BY <1>2, <2>4, <2>5, <3>2, FlushIs DEF Working, Evicting, Flushing
    <3> QED
      BY <3>1, <3>2, FlushIs
  <2>6. CASE Flush(p)
    <3>1. UNCHANGED <<disk, memory, dirty, last, failed>>
      BY <2>6 DEF Flush
    <3>2. Settled(f)'
      BY <2>4, <3>1 DEF Settled, Shown, Visible
    <3>3. at'[p] = "open" => dirty[f] = TRUE /\ job'[p].stream = memory[f]
      <4>1. job[p] \in Job /\ job[p].back # "open"
        BY JobOf
      <4> QED
        BY <1>2, <2>6, <4>1 DEF Flush, Go, FileTypeOK, Job
    <3>4. at'[p] \in {"open", "drop", "sweep", "stop"}
      <4>1. at'[p] = "open" \/ at'[p] = job[p].back
        BY <2>6 DEF Flush, Go, FileTypeOK
      <4> QED
        BY <2>3, <4>1, TurnIs DEF Evicting
    <3>5. at'[p] # "open" => dirty[f] # TRUE
      BY <1>2, <2>4, <2>6 DEF Flush, Go, FileTypeOK, Settled
    <3> QED
      BY <2>5, <3>1, <3>2, <3>3, <3>4, <3>5
  <2>7. CASE Open(p)
    <3>1. at[p] = "open" /\ UNCHANGED <<memory, dirty, last, job>>
      BY <2>7 DEF Open
    <3>2. dirty[f] = TRUE /\ job[p].stream = memory[f]
      BY <1>2, <2>2, <3>1 DEF Working, Evicting, Flushing
    <3>3. CASE at'[p] = "write" /\ disk'[f] = Truncated /\ UNCHANGED failed
      <4>1. Settled(f)'
        BY <2>4, <3>1, <3>2, <3>3 DEF Settled, Shown, Visible
      <4> QED
        BY <2>5, <3>1, <3>2, <3>3, <4>1
    <3>4. CASE at'[p] = job[p].back /\ disk' = disk /\ failed' = failed \cup {f}
      <4>1. Settled(f)'
        BY <2>4, <3>1, <3>4 DEF Settled, Shown, Visible
      <4>2. at'[p] \in {"drop", "sweep", "stop"} /\ f \in failed'
        BY <1>2, <2>3, <3>4, TurnIs DEF Evicting
      <4> QED
        BY <2>5, <4>1, <4>2
    <3> QED
      BY <1>2, <2>7, <3>3, <3>4 DEF Open, Go, FileTypeOK
  <2>8. CASE WriteOut(p)
    <3>1. at[p] = "write" /\ UNCHANGED <<memory, dirty, last>>
      BY <2>3, <2>8 DEF WriteOut
    <3>2. dirty[f] = TRUE /\ job[p].stream = memory[f]
      BY <1>2, <2>2, <3>1 DEF Working, Evicting, Flushing
    <3>3. CASE at'[p] = "clean" /\ disk'[f] = job[p].stream /\ failed' = failed \ {f}
      <4>1. Settled(f)'
        BY <2>4, <3>1, <3>2, <3>3 DEF Settled, Shown, Visible
      <4> QED
        BY <2>5, <3>1, <3>2, <3>3, <4>1
    <3>4. CASE at'[p] = job[p].back /\ disk' = disk /\ failed' = failed \cup {f}
      <4>1. Settled(f)'
        BY <2>4, <3>1, <3>4 DEF Settled, Shown, Visible
      <4>2. at'[p] \in {"drop", "sweep", "stop"} /\ f \in failed'
        BY <1>2, <2>3, <3>4, TurnIs DEF Evicting
      <4> QED
        BY <2>5, <4>1, <4>2
    <3> QED
      BY <1>2, <2>8, <3>1, <3>3, <3>4 DEF WriteOut, Written, NotWritten, Go, FileTypeOK
  <2>9. CASE Clean(p)
    <3>1. at[p] = "clean" /\ UNCHANGED <<disk, memory, last, failed>> /\ at'[p] = job[p].back
      BY <2>9 DEF Clean, Go, FileTypeOK
    <3>2. disk[f] = memory[f] /\ dirty[f] = TRUE
      BY <1>2, <2>2, <3>1 DEF Working, Evicting, Flushing
    <3>3. dirty'[f] = FALSE
      BY <1>2, <2>9 DEF Clean, FileTypeOK
    <3>4. Settled(f)'
      BY <2>4, <3>1, <3>2, <3>3 DEF Settled, Shown, Visible
    <3>5. at'[p] \in {"drop", "sweep", "stop"}
      BY <2>3, <3>1, TurnIs DEF Evicting
    <3> QED
      BY <2>5, <3>3, <3>4, <3>5
  <2> QED
    BY <2>6, <2>7, <2>8, <2>9
<1> QED
  BY <1>1, <1>2

LEMMA StageOf ==
  ASSUME FileTypeOK, PlaceInv, NEW p \in Processes, NEW f \in Files, f \notin crossed, Step(p)
  PROVE  Stage(p, f)
<1>1. ASSUME p \in Requests, RequestStep(p) PROVE Stage(p, f)
  BY <1>1, StageStart, StageRoom, StagePut, StageMark, StageDelete DEF RequestStep
<1>2. ASSUME p \in Timers, StartTimer(p) \/ Sweep(p) \/ Age(p) \/ Shutdown(p) \/ Stop(p)
      PROVE  Stage(p, f)
  BY <1>2, StageTimer
<1>3. ASSUME FlushStep(p) PROVE Stage(p, f)
  BY <1>3, StageEvict, StageDrop, StageForget, StageFlush DEF FlushStep
<1> QED
  BY <1>1, <1>2, <1>3 DEF Step

\* A shutdown that is done has left every file on disk, unless it has failed to.
LEMMA RestartSettles ==
  ASSUME FileTypeOK, PlaceInv, FileInv, StopInv, NEW t \in Timers, Restart(t), NEW f \in Files, Alone(f)
  PROVE  Settled(f)'
<1>1. t \in Processes /\ at[t] = "clear" /\ job[t].back = "stop" /\ job[t].todo = <<>>
  BY DEF Restart, Processes, PlaceInv, PlaceFine
<1>2. (\A r \in Requests : at[r] = "idle") /\ Owed(t, f)
  BY <1>1 DEF StopInv, StopsFine
<1>3. dirty[f] = TRUE => f \in failed \/ \E p \in Processes : at[p] = "clean" /\ InTurn(p) = f
  <2>1. f \notin Range(job[t].todo)
    BY <1>1 DEF Range
  <2> QED
    BY <1>1, <1>2, <2>1 DEF Owed
<1>4. /\ memory'[f] = Absent /\ dirty'[f] = Absent /\ disk'[f] = disk[f] /\ last'[f] = last[f]
      /\ failed' = failed
  BY DEF Restart
<1>5. SUFFICES /\ last[f] = Absent => disk[f] = Absent
               /\ last[f] # Absent /\ f \notin failed => disk[f] = last[f]
  BY <1>4, Distinct DEF Settled, Shown, Visible
<1>6. CASE Settled(f) /\ \A p \in Processes : ~OnFile(p, f)
  <2>1. dirty[f] = TRUE => f \in failed
    BY <1>3, <1>6 DEF OnFile
  <2> QED
    BY <1>6, <2>1 DEF Settled, Shown, Visible
<1>7. ASSUME NEW p \in Processes, OnFile(p, f), Working(p, f)
      PROVE  /\ last[f] = Absent => disk[f] = Absent
             /\ last[f] # Absent /\ f \notin failed => disk[f] = last[f]
  <2>1. at[p] # "idle" /\ p \notin Requests /\ job[p].then = "idle"
    BY <1>2, <1>7 DEF OnFile, PlaceInv, PlaceFine
  <2>2. at[p] \in Evicting
    BY <1>7, <2>1 DEF OnFile, PlaceInv, PlaceFine, Evicting, Flushing
  <2>3. InTurn(p) = f
    BY <1>7, <2>1, <2>2, TurnIs DEF OnFile, Evicting, Flushing
  <2>4. CASE at[p] = "forget"
    BY <1>7, <2>2, <2>3, <2>4 DEF Working, Shown, Visible
  <2>5. CASE at[p] # "forget"
    <3>1. Settled(f)
      BY <1>7, <2>2, <2>5 DEF Working, Evicting, Flushing
    <3>2. dirty[f] = TRUE => f \in failed \/ at[p] = "clean"
      <4>1. ASSUME NEW q \in Processes, at[q] = "clean", InTurn(q) = f PROVE at[p] = "clean"
        <5>1. OnFile(q, f)
          BY <4>1 DEF OnFile
        <5> QED
          BY <1>7, <4>1, <5>1 DEF Alone, TwoOf
      <4> QED
        BY <1>3, <4>1
    <3>3. at[p] = "clean" => disk[f] = memory[f]
      BY <1>7, <2>2, <2>3 DEF Working
    <3> QED
      BY <3>1, <3>2, <3>3 DEF Settled, Shown, Visible
  <2> QED
    BY <2>4, <2>5
<1>8. FileFine(f)
  BY DEF FileInv
<1> QED
  BY <1>6, <1>7, <1>8 DEF FileFine

LEMMA FileStep ==
  ASSUME FileTypeOK, PlaceInv, FileInv, StopInv, Observe, Next
  PROVE  FileInv'
<1>1. SUFFICES ASSUME NEW f \in Files, Alone(f)' PROVE FileFine(f)'
  BY DEF FileInv
<1>2. Alone(f)
  BY <1>1, AloneBack
<1>3. ASSUME NEW p \in Processes, Step(p) PROVE FileFine(f)'
  <2>1. f \notin crossed
    BY <1>2 DEF Alone
  <2> QED
    BY <1>1, <1>3, <2>1, StepKeeps, StageOf, FileFrame
<1>4. ASSUME NEW t \in Timers, Restart(t) PROVE FileFine(f)'
  <2>1. Settled(f)'
    BY <1>2, <1>4, RestartSettles
  <2>2. \A p \in Processes : ~OnFile(p, f)'
    BY <1>4 DEF Restart, OnFile
  <2> QED
    BY <2>1, <2>2 DEF FileFine
<1> QED
  BY <1>3, <1>4, NextIs

--------------------------------------------------------------------------------
\* The shutdown.  What a timer's step makes of a dirty file.
LEMMA DirtyBack ==
  ASSUME FileTypeOK, PlaceInv, NEW p \in Processes, p \notin Requests, Step(p),
         NEW f \in Files, dirty'[f] = TRUE
  PROVE  /\ dirty[f] = TRUE
         /\ f \in failed => f \in failed' \/ (at'[p] = "clean" /\ InTurn(p)' = f)
         /\ at[p] = "clean" => InTurn(p) # f
<1>1. CASE StartTimer(p) \/ Sweep(p) \/ Age(p) \/ Shutdown(p) \/ Stop(p) \/ Evict(p)
  BY <1>1 DEF StartTimer, Sweep, Age, Shutdown, Stop, Evict
<1>2. CASE Drop(p)
  BY <1>2 DEF Drop
<1>3. CASE Forget(p)
  BY <1>3, Distinct DEF Forget, FileTypeOK
<1>4. CASE Flush(p) \/ Open(p)
  BY <1>4 DEF Flush, Open
<1>5. CASE WriteOut(p)
  <2>1. at[p] # "clean" /\ UNCHANGED dirty
    BY <1>5 DEF WriteOut
  <2>2. CASE Written(p) /\ Go(p, "clean")
    BY <1>5, <2>1, <2>2, FlushIs DEF Written, Go, FileTypeOK
  <2>3. CASE NotWritten(p)
    BY <2>1, <2>3 DEF NotWritten
  <2> QED
    BY <1>5, <2>2, <2>3 DEF WriteOut
<1>6. CASE Clean(p)
  BY <1>6, FlushIs DEF Clean, FileTypeOK
<1> QED
  BY <1>1, <1>2, <1>3, <1>4, <1>5, <1>6 DEF Step, FlushStep

LEMMA RequestsIdle ==
  ASSUME FileTypeOK, PlaceInv, Observe, NEW t \in Timers, at[t] # "idle", job[t].back = "stop",
         StopsFine(t), NEW p \in Processes, Step(p)
  PROVE  p \notin Requests /\ \A r \in Requests : at'[r] = "idle"
<1>1. \A r \in Requests : at[r] = "idle"
  BY DEF StopsFine
<1>2. Stopping
  BY DEF Stopping
<1>3. p \notin Requests
  <2>1. ASSUME p \in Requests PROVE FALSE
    <3>1. at[p] = "idle" /\ p \notin Timers
      BY <1>1, <2>1, FileAssumption
    <3> QED
      BY <1>2, <3>1 DEF Step, RequestStep, FlushStep, Room, Put, Mark, Uncache, Erase, Unlink,
                        Evict, Drop, Forget, Flush, Open, WriteOut, Clean
  <2> QED
    BY <2>1
<1>4. \A r \in Requests : r \in Processes /\ Kept(p, r)
  BY <1>3, StepKeeps DEF Processes
<1> QED
  BY <1>1, <1>3, <1>4, KeptFields

LEMMA OwedOthers ==
  ASSUME FileTypeOK, PlaceInv, StopInv, Observe, NEW t \in Timers, NEW p \in Processes, p # t, Step(p),
         at'[t] # "idle", job'[t].back = "stop"
  PROVE  StopsFine(t)'
<1>1. t \in Processes /\ Kept(p, t)
  BY StepKeeps DEF Processes
<1>2. at[t] # "idle" /\ job[t].back = "stop"
  BY <1>1, KeptFields
<1>3. StopsFine(t)
  BY <1>2 DEF StopInv
<1>4. p \notin Requests /\ \A r \in Requests : at'[r] = "idle"
  BY <1>2, <1>3, RequestsIdle
<1>5. at'[t] \in {"stop", "clear"} \cup Flushing
  BY <1>1, <1>3, KeptFields DEF StopsFine, Flushing
<1>6. ASSUME NEW f \in Files, Alone(f)', dirty'[f] = TRUE
      PROVE  \/ f \in failed'
             \/ f \in Range(job'[t].todo)
             \/ at'[t] \in {"flush", "open", "write"} /\ job'[t].file = f
             \/ \E q \in Processes : at'[q] = "clean" /\ InTurn(q)' = f
  <2>1. /\ dirty[f] = TRUE
        /\ f \in failed => f \in failed' \/ (at'[p] = "clean" /\ InTurn(p)' = f)
        /\ at[p] = "clean" => InTurn(p) # f
    BY <1>4, <1>6, DirtyBack
  <2>2. Alone(f)
    BY <1>6, AloneBack
  <2>3. \/ f \in failed
        \/ f \in Range(job[t].todo)
        \/ at[t] \in {"flush", "open", "write"} /\ job[t].file = f
        \/ \E q \in Processes : at[q] = "clean" /\ InTurn(q) = f
    BY <1>3, <2>1, <2>2 DEF StopsFine, Owed
  <2>4. CASE f \in Range(job[t].todo)
    BY <1>1, <2>4, KeptFields
  <2>5. CASE at[t] \in {"flush", "open", "write"} /\ job[t].file = f
    <3>1. InTurn(t) = f
      BY <1>2, <2>5 DEF InTurn
    <3>2. OnFile(t, f)
      BY <2>5, <3>1 DEF OnFile
    <3>3. at'[t] = at[t]
      <4>1. ASSUME OnFile(p, f) PROVE FALSE
        BY <1>1, <1>6, <3>2, <4>1, AloneBack
      <4> QED
        BY <1>1, <3>1, <4>1, KeptFields
    <3> QED
      BY <1>1, <2>5, <3>3, KeptFields
  <2>6. ASSUME NEW q \in Processes, at[q] = "clean", InTurn(q) = f
        PROVE  at'[q] = "clean" /\ InTurn(q)' = f
    <3>1. p # q /\ Kept(p, q)
      BY <2>1, <2>6, StepKeeps
    <3> QED
      BY <2>6, <3>1, KeptFields
  <2> QED
    BY <2>1, <2>3, <2>4, <2>5, <2>6
<1>7. \A f \in Files : Alone(f)' => Owed(t, f)'
  BY <1>6 DEF Owed
<1> QED
  BY <1>4, <1>5, <1>7 DEF StopsFine

\* The shutdown's own steps.
LEMMA DirtyInMemory ==
  ASSUME FileTypeOK, PlaceInv, FileInv, NEW f \in Files, Alone(f), dirty[f] = TRUE,
         \A r \in Requests : at[r] = "idle"
  PROVE  memory[f] # Absent \/ f \in failed
<1>1. CASE Settled(f)
  BY <1>1 DEF Settled
<1>2. ASSUME NEW p \in Processes, OnFile(p, f), Working(p, f) PROVE memory[f] # Absent \/ f \in failed
  <2>1. at[p] \notin {"mark", "erase", "unlink"}
    BY DEF PlaceInv, PlaceFine
  <2>2. at[p] = "forget" /\ InTurn(p) = f => f \in failed
    BY <1>2 DEF Working, Evicting
  <2> QED
    BY <1>2, <2>1, <2>2 DEF Working, Settled
<1> QED
  BY <1>1, <1>2 DEF FileInv, FileFine

LEMMA OwedOwn ==
  ASSUME FileTypeOK, PlaceInv, FileInv, StopInv, Observe, NEW t \in Timers, Step(t),
         at'[t] # "idle", job'[t].back = "stop"
  PROVE  StopsFine(t)'
<1>1. t \in Processes /\ t \notin Requests /\ job[t] \in Job
  BY FileAssumption, JobOf DEF Processes
<1>2. IdleJob.back = "evict" /\ IdleJob \in Job
  BY IdleJobType DEF IdleJob
<1>3. \A r \in Requests : r \in Processes /\ Kept(t, r)
  BY <1>1, StepKeeps DEF Processes
<1>4. CASE Shutdown(t)
  <2>1. \A r \in Requests : at[r] = "idle"
    BY <1>4 DEF Shutdown
  <2>2. \A r \in Requests : at'[r] = "idle"
    BY <1>1, <1>3, <2>1, KeptFields
  <2>3. at'[t] = "stop"
    BY <1>1, <1>4 DEF Shutdown, Go, FileTypeOK
  <2>4. PICK order \in SetToSeqs({f \in Files : memory[f] # Absent}) :
          job' = [job EXCEPT ![t] = [IdleJob EXCEPT !.todo = order, !.back = "stop"]]
    BY <1>4 DEF Shutdown
  <2>5. job'[t].todo = order
    BY <1>1, <1>2, <2>4 DEF FileTypeOK, Job
  <2>6. Range(order) = {f \in Files : memory[f] # Absent}
    BY OrderIs
  <2>7. ASSUME NEW f \in Files, Alone(f)', dirty'[f] = TRUE
        PROVE  f \in failed' \/ f \in Range(job'[t].todo)
    <3>1. Alone(f) /\ dirty[f] = TRUE /\ failed' = failed
      BY <1>4, <2>7, AloneBack DEF Shutdown
    <3> QED
      BY <2>1, <2>5, <2>6, <2>7, <3>1, DirtyInMemory
  <2>8. \A f \in Files : Alone(f)' => Owed(t, f)'
    BY <2>7 DEF Owed
  <2> QED
    BY <2>2, <2>3, <2>8 DEF StopsFine
<1>5. CASE ~Shutdown(t) /\ at[t] \in {"stop"} \cup Flushing /\ job[t].back = "stop"
  <2>1. StopsFine(t)
    BY <1>5 DEF StopInv, Flushing
  <2>2. \A r \in Requests : at[r] = "idle" /\ at'[r] = "idle"
    BY <1>1, <1>3, <2>1, KeptFields DEF StopsFine
  <2>3. Stop(t) \/ Flush(t) \/ Open(t) \/ WriteOut(t) \/ Clean(t)
    BY <1>1, <1>5 DEF Step, FlushStep, StartTimer, Sweep, Age, Evict, Drop, Forget, Flushing
  <2>4. InTurn(t) = job[t].file
    BY <1>5 DEF InTurn
  <2>5. at'[t] \in {"stop", "clear"} \cup Flushing
    <3>1. CASE Stop(t)
      BY <1>1, <3>1 DEF Stop, Go, FileTypeOK, Flushing
    <3>2. CASE Flush(t) \/ Open(t) \/ WriteOut(t) \/ Clean(t)
      BY <1>1, <1>5, <3>2, FlushIs DEF Flushing
    <3> QED
      BY <2>3, <3>1, <3>2
  <2>6. ASSUME NEW f \in Files, Alone(f)', dirty'[f] = TRUE
        PROVE  \/ f \in failed'
               \/ f \in Range(job'[t].todo)
               \/ at'[t] \in {"flush", "open", "write"} /\ job'[t].file = f
               \/ \E q \in Processes : at'[q] = "clean" /\ InTurn(q)' = f
    <3>1. /\ dirty[f] = TRUE
          /\ f \in failed => f \in failed' \/ (at'[t] = "clean" /\ InTurn(t)' = f)
          /\ at[t] = "clean" => InTurn(t) # f
      BY <1>1, <2>6, DirtyBack
    <3>2. Alone(f) /\ f \notin crossed
      BY <2>6, AloneBack DEF Alone
    <3>3. \/ f \in failed
          \/ f \in Range(job[t].todo)
          \/ at[t] \in {"flush", "open", "write"} /\ job[t].file = f
          \/ \E q \in Processes : at[q] = "clean" /\ InTurn(q) = f
      BY <2>1, <3>1, <3>2 DEF StopsFine, Owed
    <3>4. ASSUME NEW q \in Processes, at[q] = "clean", InTurn(q) = f
          PROVE  at'[q] = "clean" /\ InTurn(q)' = f
      <4>1. t # q /\ Kept(t, q)
        BY <1>1, <3>1, <3>4, StepKeeps
      <4> QED
        BY <1>1, <3>4, <4>1, KeptFields
    <3>5. CASE f \in Range(job[t].todo)
      <4>1. CASE Stop(t)
        <5>1. job[t].todo # <<>>
          BY <3>5 DEF Range
        <5>2. /\ at'[t] = "flush" /\ job'[t].file = Head(job[t].todo)
              /\ job'[t].todo = Tail(job[t].todo)
          BY <1>1, <4>1, <5>1 DEF Stop, TakeNext, Go, FileTypeOK, Job
        <5> QED
          BY <1>1, <3>5, <5>1, <5>2, HeadIs
      <4>2. CASE Flush(t) \/ Open(t) \/ WriteOut(t) \/ Clean(t)
        BY <1>1, <3>5, <4>2, FlushIs
      <4> QED
        BY <2>3, <4>1, <4>2
    <3>6. CASE at[t] \in {"flush", "open", "write"} /\ job[t].file = f
      <4>1. OnFile(t, f)
        BY <2>4, <3>6 DEF OnFile
      <4>2. CASE Flush(t)
        <5>1. Working(t, f)
          BY <1>1, <3>2, <4>1 DEF FileInv, FileFine, Alone, TwoOf
        <5>2. memory[f] # Absent
          BY <3>1, <4>2, <5>1 DEF Flush, Working, Settled
        <5>3. at'[t] = "open"
          BY <1>1, <2>4, <3>1, <3>6, <4>2, <5>2 DEF Flush, Go, FileTypeOK
        <5> QED
          BY <1>1, <3>6, <4>2, <5>3, FlushIs
      <4>3. CASE Open(t)
        BY <1>1, <2>4, <3>6, <4>3 DEF Open, Go, FileTypeOK
      <4>4. CASE WriteOut(t)
        <5>1. CASE Written(t) /\ Go(t, "clean")
          BY <1>1, <2>4, <3>6, <4>4, <5>1, FlushIs DEF Go, FileTypeOK
        <5>2. CASE NotWritten(t)
          BY <2>4, <3>6, <5>2 DEF NotWritten
        <5> QED
          BY <4>4, <5>1, <5>2 DEF WriteOut
      <4> QED
        BY <2>3, <3>6, <4>2, <4>3, <4>4 DEF Stop, Clean
    <3> QED
      BY <1>1, <3>1, <3>3, <3>4, <3>5, <3>6
  <2>7. \A f \in Files : Alone(f)' => Owed(t, f)'
    BY <2>6 DEF Owed
  <2> QED
    BY <2>2, <2>5, <2>7 DEF StopsFine
<1>6. Shutdown(t) \/ (at[t] \in {"stop"} \cup Flushing /\ job[t].back = "stop")
  <2>1. CASE StartTimer(t)
    <3>1. PICK order \in SetToSeqs({f \in Files : dirty[f] = TRUE}) :
            job' = [job EXCEPT ![t] = [IdleJob EXCEPT !.todo = order, !.back = "sweep"]]
      BY <2>1 DEF StartTimer
    <3> QED
      BY <1>1, <1>2, <3>1 DEF FileTypeOK, Job
  <2>2. CASE Sweep(t)
    <3>1. job[t].back = "sweep"
      BY <1>1, <2>2 DEF Sweep, PlaceInv, PlaceFine
    <3> QED
      BY <1>1, <2>2, <3>1 DEF Sweep, TakeNext, FileTypeOK, Job
  <2>3. CASE Age(t)
    BY <1>1, <1>2, <2>3 DEF Age, FileTypeOK, Job
  <2>4. CASE Stop(t)
    BY <1>1, <2>4 DEF Stop, PlaceInv, PlaceFine
  <2>5. CASE Evict(t)
    <3>1. job[t].back \in {"evict", "drop"}
      BY <1>1, <2>5 DEF Evict, PlaceInv, PlaceFine
    <3>2. job[t].then = "idle"
      BY <1>1 DEF PlaceInv, PlaceFine
    <3> QED
      BY <1>1, <1>2, <2>5, <3>1, <3>2 DEF Evict, Done, Go, FileTypeOK, Job
  <2>6. CASE Drop(t)
    BY <1>1, <2>6, DropIs
  <2>7. CASE Forget(t)
    <3>1. job[t].back = "drop"
      BY <1>1, <2>7, TurnIs DEF Forget, Evicting
    <3> QED
      BY <1>1, <2>7, <3>1 DEF Forget, FileTypeOK, Job
  <2>8. CASE Flush(t) \/ Open(t) \/ WriteOut(t) \/ Clean(t)
    BY <1>1, <2>8, FlushIs
  <2> QED
    BY <1>1, <2>1, <2>2, <2>3, <2>4, <2>5, <2>6, <2>7, <2>8 DEF Step, FlushStep
<1> QED
  BY <1>4, <1>5, <1>6

LEMMA StopStep ==
  ASSUME FileTypeOK, PlaceInv, FileInv, StopInv, Observe, Next
  PROVE  StopInv'
<1>1. ASSUME NEW p \in Processes, Step(p) PROVE StopInv'
  <2>1. SUFFICES ASSUME NEW t \in Timers, at'[t] # "idle", job'[t].back = "stop" PROVE StopsFine(t)'
    BY DEF StopInv
  <2> QED
    BY <1>1, <2>1, OwedOthers, OwedOwn
<1>2. ASSUME NEW t \in Timers, Restart(t) PROVE StopInv'
  BY <1>2 DEF Restart, StopInv, Processes
<1> QED
  BY <1>1, <1>2, NextIs

--------------------------------------------------------------------------------
\* The usage.  While one process works, its place alone says what is counted.
Sole(p) == \A q \in Processes : p # q => at[q] = "idle"

Spare(p) == IF Uncounted(p) THEN 1 ELSE 0

CacheOf(p) ==
  /\ Cardinality(InMemory) <= Limit
  /\ Cardinality(InMemory) <= usage + Spare(p)
  /\ \A f \in InMemory : f \in Range(access) \/ (Uncounted(p) /\ job[p].file = f)
  /\ CountFine(p)

LEMMA CacheSole ==
  ASSUME NEW p \in Processes, Sole(p)
  PROVE  CacheFine <=> CacheOf(p)
<1>1. \A q \in Processes : p # q => ~Uncounted(q) /\ CountFine(q)
  BY DEF Sole, Uncounted, CountFine, Evicting, Flushing
<1>2. (\E q \in Processes : Uncounted(q)) <=> Uncounted(p)
  BY <1>1
<1>3. \A f : (\E q \in Processes : Uncounted(q) /\ job[q].file = f) <=> (Uncounted(p) /\ job[p].file = f)
  BY <1>1
<1>4. (\A q \in Processes : CountFine(q)) <=> CountFine(p)
  BY <1>1
<1> HIDE DEF Sole
<1> QED
  BY <1>2, <1>3, <1>4 DEF CacheFine, CacheOf, Spare

LEMMA CacheSoleNext ==
  ASSUME NEW p \in Processes, Sole(p)'
  PROVE  CacheFine' <=> CacheOf(p)'
<1>1. \A q \in Processes : p # q => ~Uncounted(q)' /\ CountFine(q)'
  BY DEF Sole, Uncounted, CountFine, Evicting, Flushing
<1>2. (\E q \in Processes : Uncounted(q)') <=> Uncounted(p)'
  BY <1>1
<1>3. \A f : (\E q \in Processes : Uncounted(q)' /\ job'[q].file = f) <=> (Uncounted(p)' /\ job'[p].file = f)
  BY <1>1
<1>4. (\A q \in Processes : CountFine(q)') <=> CountFine(p)'
  BY <1>1
<1> HIDE DEF Sole
<1> QED
  BY <1>2, <1>3, <1>4 DEF CacheFine, CacheOf, Spare

LEMMA Counting ==
  ASSUME FileTypeOK
  PROVE  /\ IsFiniteSet(InMemory) /\ Cardinality(InMemory) \in Nat
         /\ usage \in Int /\ Limit \in Nat \ {0}
<1>1. InMemory \subseteq Files
  BY DEF InMemory
<1> QED
  BY <1>1, FileAssumption, FS_Subset, FS_CardinalityType DEF FileTypeOK

\* One file more in memory, or one less.
LEMMA OneMore ==
  ASSUME FileTypeOK, NEW f \in Files, NEW c \in Contents, memory' = [memory EXCEPT ![f] = c]
  PROVE  /\ InMemory' = InMemory \cup {f}
         /\ Cardinality(InMemory') \in Nat /\ Cardinality(InMemory') <= Cardinality(InMemory) + 1
         /\ InMemory = {} => Cardinality(InMemory') = 1
<1>1. InMemory' = InMemory \cup {f}
  BY Distinct DEF InMemory, FileTypeOK
<1>2. IsFiniteSet(InMemory) /\ Cardinality(InMemory) \in Nat
  BY Counting
<1>3. Cardinality(InMemory \cup {f}) =
        IF f \in InMemory THEN Cardinality(InMemory) ELSE Cardinality(InMemory) + 1
  BY <1>2, FS_AddElement
<1>4. InMemory = {} => Cardinality(InMemory) = 0 /\ f \notin InMemory
  BY FS_EmptySet
<1> QED
  BY <1>1, <1>2, <1>3, <1>4

LEMMA OneLess ==
  ASSUME FileTypeOK, NEW f \in Files, memory' = [memory EXCEPT ![f] = Absent]
  PROVE  /\ InMemory' = InMemory \ {f}
         /\ Cardinality(InMemory') \in Nat
         /\ Cardinality(InMemory') = Cardinality(InMemory) - (IF memory[f] = Absent THEN 0 ELSE 1)
<1>1. InMemory' = InMemory \ {f}
  BY DEF InMemory, FileTypeOK
<1>2. IsFiniteSet(InMemory) /\ Cardinality(InMemory) \in Nat
  BY Counting
<1>3. Cardinality(InMemory \ {f}) =
        IF f \in InMemory THEN Cardinality(InMemory) - 1 ELSE Cardinality(InMemory)
  BY <1>2, FS_RemoveElement
<1>4. f \in InMemory <=> memory[f] # Absent
  BY DEF InMemory
<1>5. IsFiniteSet(InMemory \ {f}) /\ Cardinality(InMemory \ {f}) \in Nat
  BY <1>2, FS_Subset, FS_CardinalityType
<1> QED
  BY <1>1, <1>2, <1>3, <1>4, <1>5

\* Nothing else changes the usage at once.
LEMMA UsageIs ==
  ASSUME NEW p \in Processes, Sole(p), NEW d, AddUsage(p, d)
  PROVE  usage' = usage + d
BY DEF Sole, AddUsage

\* A step that leaves memory, access times and usage alone needs only its place.
LEMMA CachePlace ==
  ASSUME NEW p \in Processes, CacheOf(p), UNCHANGED <<memory, access, usage>>,
         ~Uncounted(p), ~Uncounted(p)', CountFine(p)'
  PROVE  CacheOf(p)'
BY DEF CacheOf, Spare, InMemory

LEMMA CacheRequest ==
  ASSUME FileTypeOK, PlaceInv, NEW p \in Requests, Sole(p), CacheOf(p),
         Room(p) \/ Put(p) \/ Mark(p) \/ Uncache(p) \/ Erase(p) \/ Unlink(p)
  PROVE  CacheOf(p)'
<1> DEFINE f == job[p].file
<1>1. p \in Processes /\ f \in Files /\ job[p] \in Job /\ job[p].new \in Contents
  BY JobOf DEF Processes
<1>2. /\ IsFiniteSet(InMemory) /\ Cardinality(InMemory) \in Nat
      /\ usage \in Int /\ Limit \in Nat \ {0}
  BY Counting
<1>3. access \in Seq(Files) /\ IsInjective(access)
  BY DEF FileTypeOK
<1>4. CASE Room(p)
  <2>1. at[p] = "room" /\ ~Uncounted(p) /\ UNCHANGED <<memory, access, usage>>
    BY <1>4 DEF Room, Uncounted
  <2>2. job[p].then \in {"put", "load"}
    BY <1>1, <2>1 DEF PlaceInv, PlaceFine, Job
  <2>3. CASE usage + 1 > Limit
    <3>1. at'[p] = "evict" /\ job'[p].todo = access /\ job'[p].need = usage + 1 - Limit
      BY <1>1, <1>4, <2>3 DEF Room, Go, FileTypeOK, Job
    <3>2. InMemory \subseteq Range(access)
      BY <2>1 DEF CacheOf
    <3>3. ~Uncounted(p)' /\ CountFine(p)'
      BY <2>1, <3>1, <3>2 DEF Uncounted, CountFine, InMemory
    <3> QED
      BY <1>1, <2>1, <3>3, CachePlace
  <2>4. CASE ~(usage + 1 > Limit)
    <3>1. at'[p] \in {"put", "load"}
      BY <1>1, <1>4, <2>2, <2>4 DEF Room, Go, FileTypeOK
    <3>2. ~Uncounted(p)' /\ CountFine(p)'
      BY <1>2, <2>1, <2>4, <3>1 DEF Uncounted, CountFine, Evicting, Flushing
    <3> QED
      BY <1>1, <2>1, <3>2, CachePlace
  <2> QED
    BY <2>3, <2>4
<1>5. CASE Put(p)
  <2>1. at[p] \in {"put", "load"} /\ at'[p] \in {"mark", "keep"} /\ job' = job
    BY <1>1, <1>5 DEF Put, Go, FileTypeOK
  <2>2. memory' = [memory EXCEPT ![f] = job[p].new] /\ UNCHANGED <<access, usage>>
    BY <1>5 DEF Put
  <2>3. /\ usage + 1 <= Limit \/ InMemory = {}
        /\ Cardinality(InMemory) <= usage /\ InMemory \subseteq Range(access)
    BY <1>2, <2>1 DEF CacheOf, CountFine, Spare, Uncounted
  <2>4. /\ InMemory' = InMemory \cup {f}
        /\ Cardinality(InMemory') \in Nat /\ Cardinality(InMemory') <= Cardinality(InMemory) + 1
        /\ InMemory = {} => Cardinality(InMemory') = 1
    BY <1>1, <2>2, OneMore
  <2>5. Cardinality(InMemory') <= Limit /\ Cardinality(InMemory') <= usage + 1
    BY <1>2, <2>3, <2>4
  <2>6. Uncounted(p)' /\ CountFine(p)'
    BY <2>1 DEF Uncounted, CountFine, Evicting, Flushing
  <2> QED
    BY <2>1, <2>2, <2>3, <2>4, <2>5, <2>6 DEF CacheOf, Spare
<1>6. CASE Mark(p)
  <2>1. at[p] \in {"mark", "keep"} /\ at'[p] = "idle" /\ memory' = memory
    BY <1>1, <1>6 DEF Mark, Done, Go, FileTypeOK
  <2>2. usage' = usage + 1
    BY <1>1, <1>6, UsageIs DEF Mark
  <2>3. Range(access') = Range(access) \cup {f}
    BY <1>1, <1>3, <1>6, AccessIs DEF Mark
  <2>4. ~Uncounted(p)' /\ CountFine(p)'
    BY <2>1 DEF Uncounted, CountFine, Evicting, Flushing
  <2>5. Uncounted(p) /\ InMemory' = InMemory
    BY <2>1 DEF Uncounted, InMemory
  <2> QED
    BY <1>2, <2>2, <2>3, <2>4, <2>5 DEF CacheOf, Spare
<1>7. CASE Uncache(p)
  <2>1. at[p] = "remove" /\ at'[p] \in {"erase", "unlink"} /\ UNCHANGED access
    BY <1>1, <1>7 DEF Uncache, Go, FileTypeOK
  <2>2. job'[p] = job[p]
    <3>1. ASSUME NEW begun \in BOOLEAN, job' = Dispose(job[p].file, begun) PROVE job'[p] = job[p]
      BY <1>1, <2>1, <3>1, JobOf, DisposeAt
    <3> QED
      BY <1>7, <3>1 DEF Uncache
  <2>3. memory' = [memory EXCEPT ![f] = Absent]
    BY <1>1, <1>7 DEF Uncache, FileTypeOK
  <2>4. /\ InMemory' = InMemory \ {f} /\ Cardinality(InMemory') \in Nat
        /\ Cardinality(InMemory') = Cardinality(InMemory) - (IF memory[f] = Absent THEN 0 ELSE 1)
    BY <1>1, <2>3, OneLess
  <2>5. usage' = usage - (IF memory[f] = Absent THEN 0 ELSE 1)
    <3>1. CASE memory[f] = Absent
      BY <1>2, <1>7, <3>1 DEF Uncache
    <3>2. CASE memory[f] # Absent
      <4>1. usage' = usage + (-1)
        BY <1>1, <1>7, <3>2, UsageIs DEF Uncache
      <4> QED
        BY <1>2, <3>2, <4>1
    <3> QED
      BY <3>1, <3>2
  <2>6. ~Uncounted(p) /\ ~Uncounted(p)'
    BY <2>1 DEF Uncounted
  <2>7. CountFine(p)'
    <3>1. memory'[f] = Absent
      BY <1>1, <2>3 DEF FileTypeOK
    <3> QED
      BY <2>1, <2>2, <3>1 DEF CountFine, Evicting, Flushing
  <2>8. /\ Cardinality(InMemory) <= Limit /\ Cardinality(InMemory) <= usage
        /\ InMemory \subseteq Range(access)
    BY <1>2, <2>6 DEF CacheOf, Spare
  <2>9. Cardinality(InMemory') <= Limit /\ Cardinality(InMemory') <= usage'
    BY <1>2, <2>4, <2>5, <2>8
  <2>10. usage' \in Int
    BY <1>2, <2>5
  <2> QED
    BY <2>1, <2>4, <2>6, <2>7, <2>8, <2>9, <2>10 DEF CacheOf, Spare
<1>8. CASE Erase(p)
  <2>1. at[p] = "erase" /\ at'[p] = "unlink" /\ UNCHANGED <<memory, usage>>
    BY <1>1, <1>8 DEF Erase, Go, FileTypeOK
  <2>2. Range(access') = Range(access) \ {f}
    BY <1>1, <1>3, <1>8, AccessIs DEF Erase
  <2>3. f \notin InMemory
    BY <2>1 DEF CacheOf, CountFine, InMemory
  <2>4. ~Uncounted(p) /\ ~Uncounted(p)' /\ CountFine(p)'
    BY <2>1 DEF Uncounted, CountFine, Evicting, Flushing
  <2>5. InMemory' = InMemory
    BY <2>1 DEF InMemory
  <2> QED
    BY <2>1, <2>2, <2>3, <2>4, <2>5 DEF CacheOf, Spare
<1>9. CASE Unlink(p)
  <2>1. at[p] = "unlink" /\ at'[p] = "idle" /\ UNCHANGED <<memory, access, usage>>
    BY <1>1, <1>9 DEF Unlink, FileTypeOK
  <2>2. ~Uncounted(p) /\ ~Uncounted(p)' /\ CountFine(p)'
    BY <2>1 DEF Uncounted, CountFine, Evicting, Flushing
  <2> QED
    BY <1>1, <2>1, <2>2, CachePlace
<1> QED
  BY <1>4, <1>5, <1>6, <1>7, <1>8, <1>9

LEMMA CacheEvict ==
  ASSUME FileTypeOK, PlaceInv, NEW p \in Processes, Sole(p), CacheOf(p), FlushStep(p)
  PROVE  CacheOf(p)'
<1> DEFINE h == Head(job[p].todo)
<1>1. job[p] \in Job /\ access \in Seq(Files) /\ IsInjective(access)
  BY JobOf DEF FileTypeOK
<1>2. /\ IsFiniteSet(InMemory) /\ Cardinality(InMemory) \in Nat
      /\ usage \in Int /\ Limit \in Nat \ {0}
  BY Counting
<1>3. ASSUME at[p] \in Evicting \cup {"evict"}
      PROVE  /\ ~Uncounted(p) /\ Cardinality(InMemory) <= Limit /\ Cardinality(InMemory) <= usage
             /\ InMemory \subseteq Range(access)
             /\ job[p].then # "idle" =>
                  job[p].need = usage + 1 - Limit /\ InMemory \subseteq Range(job[p].todo)
  <2>1. ~Uncounted(p)
    BY <1>3 DEF Uncounted, Evicting, Flushing
  <2> QED
    BY <1>2, <1>3, <2>1 DEF CacheOf, CountFine, Spare
<1>4. CASE Evict(p)
  <2>1. at[p] = "evict" /\ UNCHANGED <<memory, access, usage>>
    BY <1>4 DEF Evict
  <2>2. InMemory' = InMemory
    BY <2>1 DEF InMemory
  <2>3. CASE job[p].then = "idle" /\ Done(p)
    <3>1. at'[p] = "idle"
      BY <2>3 DEF Done, Go, FileTypeOK
    <3>2. ~Uncounted(p)' /\ CountFine(p)'
      BY <3>1 DEF Uncounted, CountFine, Evicting, Flushing
    <3> QED
      BY <1>3, <2>1, <3>2, CachePlace
  <2>4. CASE job[p].then # "idle" /\ (job[p].todo = <<>> \/ job[p].need <= 0) /\ Go(p, job[p].then)
    <3>1. at'[p] \in {"put", "load"}
      BY <1>1, <2>4 DEF Go, FileTypeOK, Job
    <3>2. usage + 1 <= Limit \/ InMemory = {}
      <4>1. CASE job[p].todo = <<>>
        BY <1>3, <2>1, <2>4, <4>1 DEF Range
      <4>2. CASE job[p].need <= 0
        BY <1>2, <1>3, <2>1, <2>4, <4>2
      <4> QED
        BY <2>4, <4>1, <4>2
    <3>3. ~Uncounted(p)' /\ CountFine(p)'
      BY <2>1, <2>2, <3>1, <3>2 DEF Uncounted, CountFine, Evicting, Flushing
    <3> QED
      BY <1>3, <2>1, <3>3, CachePlace
  <2>5. CASE /\ job[p].todo # <<>> /\ memory[h] = Absent
             /\ job' = [job EXCEPT ![p].todo = Tail(@)] /\ UNCHANGED at
    <3>1. job'[p].todo = Tail(job[p].todo) /\ job'[p].then = job[p].then /\ job'[p].need = job[p].need
      BY <1>1, <2>5 DEF FileTypeOK, Job
    <3>2. job[p].then # "idle" => InMemory \subseteq Range(Tail(job[p].todo))
      BY <1>3, <2>1, <2>5, HeadIs DEF InMemory
    <3>3. ~Uncounted(p)' /\ CountFine(p)'
      BY <1>3, <2>1, <2>2, <2>5, <3>1, <3>2 DEF Uncounted, CountFine
    <3> QED
      BY <1>3, <2>1, <3>3, CachePlace
  <2>6. CASE /\ job' = [job EXCEPT ![p].back = "drop"]
             /\ Go(p, IF dirty[h] = TRUE THEN "flush" ELSE "drop")
    <3>1. job'[p].todo = job[p].todo /\ job'[p].then = job[p].then /\ job'[p].need = job[p].need
      BY <1>1, <2>6 DEF FileTypeOK, Job
    <3>2. at'[p] = "flush" \/ at'[p] = "drop"
      BY <2>6 DEF Go, FileTypeOK
    <3>3. ~Uncounted(p)' /\ CountFine(p)'
      BY <1>3, <2>1, <2>2, <3>1, <3>2 DEF Uncounted, CountFine
    <3> QED
      BY <1>3, <2>1, <3>3, CachePlace
  <2> QED
    BY <1>4, <2>3, <2>4, <2>5, <2>6 DEF Evict
<1>5. CASE Drop(p)
  <2>1. /\ at[p] = "drop" /\ at'[p] = "forget" /\ h \in Files
        /\ job'[p].then = job[p].then /\ job'[p].todo = job[p].todo
        /\ job'[p].need = job[p].need - (IF memory[h] = Absent THEN 0 ELSE 1)
        /\ memory' = [memory EXCEPT ![h] = Absent] /\ UNCHANGED access
    BY <1>5, DropIs DEF Drop
  <2>2. /\ InMemory' = InMemory \ {h} /\ Cardinality(InMemory') \in Nat
        /\ Cardinality(InMemory') = Cardinality(InMemory) - (IF memory[h] = Absent THEN 0 ELSE 1)
    BY <2>1, OneLess
  <2>3. usage' = usage - (IF memory[h] = Absent THEN 0 ELSE 1)
    <3>1. CASE memory[h] = Absent
      BY <1>2, <1>5, <3>1 DEF Drop
    <3>2. CASE memory[h] # Absent
      <4>1. usage' = usage + (-1)
        BY <1>5, <3>2, UsageIs DEF Drop
      <4> QED
        BY <1>2, <3>2, <4>1
    <3> QED
      BY <3>1, <3>2
  <2>4. /\ Cardinality(InMemory) <= Limit /\ Cardinality(InMemory) <= usage
        /\ InMemory \subseteq Range(access)
        /\ job[p].then # "idle" =>
             job[p].need = usage + 1 - Limit /\ InMemory \subseteq Range(job[p].todo)
    BY <1>3, <2>1 DEF Evicting
  <2>5. Cardinality(InMemory') <= Limit /\ Cardinality(InMemory') <= usage' /\ usage' \in Int
    BY <1>2, <2>2, <2>3, <2>4
  <2>6. job[p].then # "idle" => job'[p].need = usage' + 1 - Limit
    BY <1>2, <2>1, <2>3, <2>4
  <2>7. memory'[h] = Absent
    BY <2>1 DEF FileTypeOK
  <2>8. ~Uncounted(p)' /\ CountFine(p)'
    <3>1. InMemory' \subseteq InMemory
      BY <2>2
    <3> HIDE DEF h
    <3> QED
      BY <2>1, <2>4, <2>6, <2>7, <3>1 DEF Uncounted, CountFine, h
  <2> QED
    BY <2>1, <2>2, <2>4, <2>5, <2>8 DEF CacheOf, Spare
<1>6. CASE Forget(p)
  <2>1. at[p] = "forget" /\ at'[p] = "evict" /\ h \in Files /\ job[p].todo # <<>>
    BY <1>6, TurnIs DEF Forget, Evicting, Go, FileTypeOK
  <2>2. UNCHANGED <<memory, usage>> /\ Range(access') = Range(access) \ {h}
    BY <1>1, <1>6, <2>1, AccessIs DEF Forget
  <2>3. job'[p].todo = Tail(job[p].todo) /\ job'[p].then = job[p].then /\ job'[p].need = job[p].need
    BY <1>1, <1>6 DEF Forget, FileTypeOK, Job
  <2>4. InMemory' = InMemory /\ h \notin InMemory
    BY <2>1, <2>2 DEF CacheOf, CountFine, InMemory
  <2>5. /\ ~Uncounted(p) /\ Cardinality(InMemory) <= Limit /\ Cardinality(InMemory) <= usage
        /\ InMemory \subseteq Range(access)
        /\ job[p].then # "idle" =>
             job[p].need = usage + 1 - Limit /\ InMemory \subseteq Range(job[p].todo)
    BY <1>3, <2>1 DEF Evicting
  <2>6. job[p].then # "idle" => InMemory \subseteq Range(Tail(job[p].todo))
    BY <2>1, <2>4, <2>5, HeadIs
  <2>7. ~Uncounted(p)' /\ CountFine(p)'
    BY <2>1, <2>2, <2>3, <2>4, <2>5, <2>6 DEF Uncounted, CountFine
  <2> QED
    BY <1>2, <2>2, <2>4, <2>5, <2>7 DEF CacheOf, Spare
<1>7. CASE Flush(p) \/ Open(p) \/ WriteOut(p) \/ Clean(p)
  <2>1. /\ at[p] \in Flushing
        /\ job'[p].then = job[p].then /\ job'[p].todo = job[p].todo /\ job'[p].need = job[p].need
        /\ at'[p] \in {"open", "write", "clean", "drop", "sweep", "stop"}
    BY <1>7, FlushIs
  <2>2. UNCHANGED <<memory, access, usage>>
    BY <1>7 DEF Flush, Open, WriteOut, Clean
  <2>3. at[p] \in Evicting
    BY <2>1 DEF Evicting
  <2>4. InMemory' = InMemory
    BY <2>2 DEF InMemory
  <2>5. ~Uncounted(p)' /\ CountFine(p)'
    BY <1>3, <2>1, <2>2, <2>3, <2>4 DEF Uncounted, CountFine
  <2> QED
    BY <1>3, <2>2, <2>3, <2>5, CachePlace
<1> QED
  BY <1>4, <1>5, <1>6, <1>7 DEF FlushStep

LEMMA CacheStep ==
  ASSUME FileTypeOK, PlaceInv, PlaceInv', CacheInv, Observe, Next
  PROVE  CacheInv'
<1>1. SUFFICES ASSUME Single' PROVE CacheFine'
  BY DEF CacheInv
<1>2. /\ CacheFine
      /\ \A p, q \in Processes : p # q => at[p] = "idle" \/ at[q] = "idle"
      /\ \A p, q \in Processes : p # q => at'[p] = "idle" \/ at'[q] = "idle"
  BY <1>1, SingleBack DEF CacheInv
<1>3. ASSUME NEW p \in Processes, Step(p), at[p] # "idle" \/ at'[p] # "idle" PROVE CacheFine'
  <2>1. \A q \in Processes : p # q => Kept(p, q)
    BY <1>3, StepKeeps
  <2>2. \A q \in Processes : p # q => (at'[q] = "idle" <=> at[q] = "idle")
    BY <2>1, KeptFields
  <2>3. Sole(p)
    BY <1>2, <1>3, <2>2 DEF Sole
  <2>4. Sole(p)'
    BY <1>2, <1>3, <2>2, <2>3 DEF Sole
  <2>5. CacheOf(p)
    BY <1>2, <2>3, CacheSole
  <2>6. SUFFICES CacheOf(p)'
    BY <2>4, CacheSoleNext
  <2>7. ASSUME NEW f \in Files, \/ Download(p, f) \/ Delete(p, f)
                                \/ \E overwrite \in BOOLEAN : Upload(p, f, overwrite)
        PROVE  CacheOf(p)'
    <3>1. at[p] = "idle"
      BY <2>7 DEF Download, Delete, Upload
    <3>2. at'[p] \in {"room", "remove"} /\ UNCHANGED <<memory, access, usage>>
      BY <1>3, <2>7, <3>1 DEF Download, Delete, Upload, Go, FileTypeOK
    <3>3. ~Uncounted(p) /\ ~Uncounted(p)' /\ CountFine(p)'
      BY <3>1, <3>2 DEF Uncounted, CountFine, Evicting, Flushing
    <3> QED
      BY <2>5, <3>2, <3>3, CachePlace
  <2>8. ASSUME p \in Timers, StartTimer(p) \/ Sweep(p) \/ Age(p) \/ Shutdown(p) \/ Stop(p)
        PROVE  CacheOf(p)'
    <3>1. at[p] \in {"idle", "sweep", "age", "stop"} /\ UNCHANGED <<memory, access, usage>>
      BY <2>8 DEF StartTimer, Sweep, Age, Shutdown, Stop
    <3>2. at'[p] \in {"sweep", "age", "evict", "stop", "clear", "flush"}
      BY <2>8 DEF StartTimer, Sweep, Age, Shutdown, Stop, Go, FileTypeOK
    <3>3. job'[p].then = "idle"
      BY <2>8, FileAssumption DEF PlaceInv, PlaceFine
    <3>4. ~Uncounted(p) /\ ~Uncounted(p)' /\ CountFine(p)'
      BY <3>1, <3>2, <3>3 DEF Uncounted, CountFine
    <3> QED
      BY <2>5, <3>1, <3>4, CachePlace
  <2> QED
    BY <1>3, <2>3, <2>5, <2>7, <2>8, CacheRequest, CacheEvict DEF Step, RequestStep
<1>4. ASSUME NEW p \in Processes, Step(p), at[p] = "idle", at'[p] = "idle" PROVE CacheFine'
  <2>1. \/ p \in Requests /\ \E f \in Files : \/ Download(p, f) \/ Delete(p, f)
                                             \/ \E overwrite \in BOOLEAN : Upload(p, f, overwrite)
        \/ p \in Timers /\ (StartTimer(p) \/ Shutdown(p))
    BY <1>4 DEF Step, RequestStep, FlushStep, Room, Put, Mark, Uncache, Erase, Unlink, Sweep, Age, Stop,
                Evict, Drop, Forget, Flush, Open, WriteOut, Clean
  <2>2. PICK f \in Files : access' = Touched(f) /\ UNCHANGED <<memory, usage, at>>
    BY <1>4, <2>1 DEF Download, Delete, Upload, StartTimer, Shutdown, Go, FileTypeOK
  <2>3. Range(access') = Range(access) \cup {f}
    BY <2>2, AccessIs DEF FileTypeOK
  <2>5. \A q \in Processes : /\ Uncounted(q)' <=> Uncounted(q)
                             /\ job'[q].file = job[q].file \/ ~Uncounted(q)
                             /\ CountFine(q)'
    <3> SUFFICES ASSUME NEW q \in Processes
                 PROVE  /\ Uncounted(q)' <=> Uncounted(q)
                        /\ job'[q].file = job[q].file \/ ~Uncounted(q)
                        /\ CountFine(q)'
      OBVIOUS
    <3>1. CASE p = q
      BY <1>4, <2>2, <3>1 DEF Uncounted, CountFine, Evicting, Flushing
    <3>2. CASE p # q
      <4>1. Kept(p, q) /\ CountFine(q)
        BY <1>2, <1>4, <3>2, StepKeeps DEF CacheFine
      <4>2. /\ job'[q].file = job[q].file /\ job'[q].todo = job[q].todo
            /\ job'[q].need = job[q].need /\ job'[q].then = job[q].then
        BY <4>1, KeptFields
      <4> QED
        BY <2>2, <4>1, <4>2 DEF Uncounted, CountFine, InMemory
    <3> QED
      BY <3>1, <3>2
  <2>4. InMemory' = InMemory
    BY <2>2 DEF InMemory
  <2> QED
    BY <1>2, <2>2, <2>3, <2>4, <2>5 DEF CacheFine
<1>5. ASSUME NEW t \in Timers, Restart(t) PROVE CacheFine'
  <2>1. InMemory' = {} /\ usage' = 0 /\ \A q \in Processes : at'[q] = "idle"
    BY <1>5 DEF Restart, InMemory
  <2>2. Cardinality(InMemory') = 0 /\ Limit \in Nat
    BY <2>1, FS_EmptySet, FileAssumption
  <2>3. \A q \in Processes : ~Uncounted(q)' /\ CountFine(q)'
    BY <2>1 DEF Uncounted, CountFine, Evicting, Flushing
  <2> QED
    BY <2>1, <2>2, <2>3 DEF CacheFine
<1> QED
  BY <1>3, <1>4, <1>5, NextIs

--------------------------------------------------------------------------------
LEMMA ServiceInit == ChecksInit => ServiceInv
<1> SUFFICES ASSUME ChecksInit PROVE ServiceInv
  OBVIOUS
<1>1. Init /\ crossed = {} /\ FileTypeOK
  BY TypeInit DEF ChecksInit
<1>2. \A p \in Processes : at[p] = "idle" /\ job[p].then = "idle"
  BY <1>1 DEF Init, IdleJob
<1>3. PlaceInv
  BY <1>2 DEF PlaceInv, PlaceFine, Evicting, Flushing
<1>4. FileInv
  BY <1>1, <1>2, Distinct DEF Init, FileInv, FileFine, Settled, Shown, Visible, OnFile
<1>5. StopInv
  BY <1>2 DEF StopInv, Processes
<1>6. CacheInv
  <2>1. InMemory = {} /\ usage = 0
    BY <1>1 DEF Init, InMemory
  <2>2. Cardinality(InMemory) = 0 /\ Limit \in Nat
    BY <2>1, FS_EmptySet, FileAssumption
  <2>3. \A q \in Processes : ~Uncounted(q) /\ CountFine(q)
    BY <1>2 DEF Uncounted, CountFine, Evicting, Flushing
  <2> QED
    BY <2>1, <2>2, <2>3 DEF CacheInv, CacheFine
<1> QED
  BY <1>1, <1>3, <1>4, <1>5, <1>6 DEF ServiceInv

LEMMA ServiceStep == ServiceInv /\ [Next /\ Observe]_cvars => ServiceInv'
<1> SUFFICES ASSUME ServiceInv, [Next /\ Observe]_cvars PROVE ServiceInv'
  OBVIOUS
<1>1. CASE Next /\ Observe
  <2>1. FileTypeOK'
    BY <1>1, FileTypeStep DEF ServiceInv
  <2>2. PlaceInv'
    BY <1>1, PlaceStep DEF ServiceInv
  <2>3. FileInv'
    BY <1>1, FileStep DEF ServiceInv
  <2>4. StopInv'
    BY <1>1, StopStep DEF ServiceInv
  <2>5. CacheInv'
    BY <1>1, <2>2, CacheStep DEF ServiceInv
  <2> QED
    BY <2>1, <2>2, <2>3, <2>4, <2>5 DEF ServiceInv
<1>2. CASE UNCHANGED cvars
  <2>1. FileTypeOK' /\ PlaceInv'
    BY <1>2 DEF cvars, vars, ServiceInv, FileTypeOK, PlaceInv, PlaceFine, InTurn
  <2>2. FileInv'
    <3>1. UNCHANGED <<disk, memory, dirty, last, failed, at, job, crossed>>
      BY <1>2 DEF cvars, vars
    <3>2. \A p \in Processes, f \in Files : OnFile(p, f)' <=> OnFile(p, f)
      BY <3>1 DEF OnFile, InTurn
    <3>3. \A f \in Files : (Alone(f)' <=> Alone(f)) /\ (Settled(f)' <=> Settled(f)) /\ (Shown(f)' <=> Shown(f))
      BY <3>1, <3>2 DEF Alone, TwoOf, Settled, Shown, Visible
    <3>4. \A p \in Processes, f \in Files : Working(p, f)' <=> Working(p, f)
      <4> SUFFICES ASSUME NEW p \in Processes, NEW f \in Files PROVE Working(p, f)' <=> Working(p, f)
        OBVIOUS
      <4>1. /\ memory'[f] = memory[f] /\ dirty'[f] = dirty[f] /\ disk'[f] = disk[f] /\ failed' = failed
            /\ at'[p] = at[p] /\ job'[p] = job[p]
        BY <3>1
      <4>2. InTurn(p)' = InTurn(p)
        BY <3>1 DEF InTurn
      <4> QED
        BY <3>3, <4>1, <4>2 DEF Working
    <3> QED
      BY <3>2, <3>3, <3>4 DEF ServiceInv, FileInv, FileFine
  <2>3. StopInv'
    BY <1>2 DEF cvars, vars, ServiceInv, StopInv, StopsFine, Owed, Alone, TwoOf, OnFile, InTurn
  <2>4. CacheInv'
    BY <1>2 DEF cvars, vars, ServiceInv, CacheInv, CacheFine, CountFine, Uncounted, Single, TwoOf, InMemory
  <2> QED
    BY <2>1, <2>2, <2>3, <2>4 DEF ServiceInv
<1> QED
  BY <1>1, <1>2

\* The stages of every upload, download, deletion, eviction, flush and shutdown
\* of FileHandlerService fit together, whatever their number and interleaving.
THEOREM ServiceInductive == ChecksSpec => []ServiceInv
BY ServiceInit, ServiceStep, PTL DEF ChecksSpec

\* The dictionaries of FileHandlerService, the disk and the locals of its
\* operations keep their types.
THEOREM TypeCorrect == ChecksSpec => []FileTypeOK
<1>1. ServiceInv => FileTypeOK
  BY DEF ServiceInv
<1> QED
  BY <1>1, ServiceInductive, PTL

\* With no operation under way, every file that was never crossed is settled.
LEMMA QuietSettled ==
  ASSUME ServiceInv, Quiet, NEW f \in Files, f \notin crossed
  PROVE  Settled(f)
<1>1. \A p \in Processes : ~OnFile(p, f)
  BY DEF Quiet, OnFile
<1>2. Alone(f)
  BY <1>1 DEF Alone, TwoOf
<1> QED
  BY <1>1, <1>2 DEF ServiceInv, FileInv, FileFine

\* A file shows its last upload through evictions, flushes and restarts, unless
\* it could not be written or two operations have overlapped on it.
THEOREM UploadsAlwaysKept == ChecksSpec => []UploadsKept
<1>1. ServiceInv => UploadsKept
  BY QuietSettled DEF UploadsKept, Settled, Shown
<1> QED
  BY <1>1, ServiceInductive, PTL

\* A deleted file stays deleted: no flush, eviction or restart brings it back
\* unless it has overlapped with another operation on the file.
THEOREM DeletesAreFinal == ChecksSpec => []DeletesFinal
<1>1. ServiceInv => DeletesFinal
  BY QuietSettled DEF DeletesFinal, Settled, Shown, Visible
<1> QED
  BY <1>1, ServiceInductive, PTL

\* A file in memory that FlushFileToDiskAsync has marked clean, or that was
\* loaded from disk, has its contents on disk.
THEOREM CleanIsStored == ChecksSpec => []CleanUnlessCrossed
<1>1. ServiceInv => CleanUnlessCrossed
  BY QuietSettled DEF CleanUnlessCrossed, Settled
<1> QED
  BY <1>1, ServiceInductive, PTL

\* Operations that do not overlap keep to MaxTotalMemoryCacheMB.
THEOREM MemoryLimited == ChecksSpec => []CacheLimit
<1>1. ASSUME ServiceInv PROVE CacheLimit
  <2>1. SUFFICES ASSUME Quiet, ~overlapped PROVE Cardinality(InMemory) <= Limit
    BY DEF CacheLimit, InMemory
  <2>2. Single
    BY <2>1 DEF Quiet, Single, TwoOf
  <2> QED
    BY <1>1, <2>2 DEF ServiceInv, CacheInv, CacheFine
<1> QED
  BY <1>1, ServiceInductive, PTL
================================================================================
