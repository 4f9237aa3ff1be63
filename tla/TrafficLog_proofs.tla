--------------------------- MODULE TrafficLog_proofs ---------------------------
(***************************************************************************)
(* What holds of the traffic log for any size of its queue, its batches    *)
(* and its files, wherever the storage fails and the process ends.         *)
(***************************************************************************)
EXTENDS TrafficLog, SequenceTheorems, FiniteSetTheorems, WellFoundedInduction, TLAPS

\* The entries of s, in the order of their requests.
Ascending(s) == \A i, j \in 1..Len(s) : i < j => s[i] < s[j]

\* Every entry of S came before every entry of T.
Before(S, T) == \A d \in S, e \in T : d < e

LEMMA Integral == Entries \subseteq Int /\ Seconds \subseteq Int /\ 0 \in Seconds /\ <<>> \in Seq(Entries)
BY TrafficAssumption DEF Entries, Seconds

LEMMA RangeIs ==
  ASSUME NEW s \in Seq(Entries)
  PROVE  /\ \A i \in 1..Len(s) : s[i] \in Range(s)
         /\ \A x \in Range(s) : \E i \in 1..Len(s) : x = s[i]
         /\ Range(s) \subseteq Entries
BY LenProperties, ElementOfSeq DEF Range

LEMMA Appended ==
  ASSUME NEW s \in Seq(Entries), NEW e \in Entries
  PROVE  /\ Append(s, e) \in Seq(Entries) /\ Len(Append(s, e)) = Len(s) + 1
         /\ Append(s, e) # <<>>
         /\ Range(Append(s, e)) = Range(s) \cup {e}
         /\ Ascending(s) /\ Before(Range(s), {e}) => Ascending(Append(s, e))
<1> DEFINE t == Append(s, e)
<1>1. /\ t \in Seq(Entries) /\ Len(t) = Len(s) + 1 /\ t # <<>>
      /\ \A i \in 1..Len(s) : t[i] = s[i]
      /\ t[Len(s) + 1] = e
  BY AppendProperties
<1>2. Len(s) \in Nat /\ DOMAIN s = 1..Len(s) /\ DOMAIN t = 1..Len(t)
  BY <1>1, LenProperties
<1> HIDE DEF t
<1>3. Range(t) = Range(s) \cup {e}
  BY <1>1, <1>2 DEF Range
<1>4. ASSUME Ascending(s), Before(Range(s), {e}) PROVE Ascending(t)
  <2>1. \A i \in 1..Len(s) : s[i] < e
    BY <1>2, <1>4 DEF Before, Range
  <2> QED
    BY <1>1, <1>2, <1>4, <2>1 DEF Ascending
<1> QED
  BY <1>1, <1>3, <1>4 DEF t

LEMMA Beheaded ==
  ASSUME NEW s \in Seq(Entries), s # <<>>
  PROVE  /\ Head(s) \in Entries /\ Tail(s) \in Seq(Entries) /\ Len(Tail(s)) = Len(s) - 1
         /\ Range(s) = {Head(s)} \cup Range(Tail(s))
         /\ Ascending(s) => Ascending(Tail(s)) /\ Before({Head(s)}, Range(Tail(s)))
<1> DEFINE t == Tail(s)
           h == Head(s)
<1>1. /\ h \in Entries /\ t \in Seq(Entries) /\ Len(t) = Len(s) - 1
      /\ \A i \in 1..Len(t) : t[i] = s[i + 1]
  BY HeadTailProperties
<1>2. Len(s) \in Nat \ {0} /\ DOMAIN s = 1..Len(s) /\ DOMAIN t = 1..Len(t) /\ h = s[1]
  BY <1>1, LenProperties, EmptySeq
<1> HIDE DEF t, h
<1>3. Range(s) = {h} \cup Range(t)
  <2>1. \A i \in 1..Len(s) : i = 1 \/ (i - 1 \in 1..Len(t) /\ s[i] = t[i - 1])
    BY <1>1, <1>2
  <2>2. \A i \in 1..Len(t) : i + 1 \in 1..Len(s) /\ s[i + 1] = t[i]
    BY <1>1, <1>2
  <2>3. ASSUME NEW x \in Range(s) PROVE x = h \/ x \in Range(t)
    <3>1. PICK i \in 1..Len(s) : x = s[i]
      BY <1>1, RangeIs
    <3>2. \A j \in 1..Len(t) : t[j] \in Range(t)
      BY <1>1, RangeIs
    <3> QED
      BY <1>2, <2>1, <3>1, <3>2
  <2>4. \A x \in Range(t) : x \in Range(s)
    BY <1>1, <1>2, <2>2, RangeIs
  <2>5. h \in Range(s)
    BY <1>2, RangeIs
  <2> QED
    BY <2>3, <2>4, <2>5
<1>4. ASSUME Ascending(s) PROVE Ascending(t) /\ Before({h}, Range(t))
  BY <1>1, <1>2, <1>4 DEF Ascending, Before, Range
<1> QED
  BY <1>1, <1>3, <1>4 DEF t, h

LEMMA Joined ==
  ASSUME NEW s \in Seq(Entries), NEW t \in Seq(Entries)
  PROVE  /\ s \o t \in Seq(Entries)
         /\ Range(s \o t) = Range(s) \cup Range(t)
         /\ Ascending(s) /\ Ascending(t) /\ Before(Range(s), Range(t)) => Ascending(s \o t)
<1> DEFINE u == s \o t
<1>1. /\ u \in Seq(Entries) /\ Len(u) = Len(s) + Len(t)
      /\ \A i \in 1..Len(s) + Len(t) : u[i] = IF i <= Len(s) THEN s[i] ELSE t[i - Len(s)]
  BY ConcatProperties
<1>2. /\ Len(s) \in Nat /\ Len(t) \in Nat
      /\ DOMAIN s = 1..Len(s) /\ DOMAIN t = 1..Len(t) /\ DOMAIN u = 1..Len(u)
  BY <1>1, LenProperties
<1> HIDE DEF u
<1>3. Range(u) = Range(s) \cup Range(t)
  <2>1. \A i \in 1..Len(u) : \/ i \in 1..Len(s) /\ u[i] = s[i]
                             \/ i - Len(s) \in 1..Len(t) /\ u[i] = t[i - Len(s)]
    BY <1>1, <1>2
  <2>2. \A i \in 1..Len(s) : i \in 1..Len(u) /\ u[i] = s[i]
    BY <1>1, <1>2
  <2>3. \A i \in 1..Len(t) : i + Len(s) \in 1..Len(u) /\ u[i + Len(s)] = t[i]
    BY <1>1, <1>2
  <2>4. ASSUME NEW x \in Range(u) PROVE x \in Range(s) \/ x \in Range(t)
    <3>1. PICK i \in 1..Len(u) : x = u[i]
      BY <1>1, RangeIs
    <3> QED
      BY <1>1, <3>1, <2>1, RangeIs
  <2>5. ASSUME NEW x \in Range(s) PROVE x \in Range(u)
    <3>1. PICK i \in 1..Len(s) : x = s[i]
      BY <1>1, RangeIs
    <3> QED
      BY <1>1, <3>1, <2>2, RangeIs
  <2>6. ASSUME NEW x \in Range(t) PROVE x \in Range(u)
    <3>1. PICK i \in 1..Len(t) : x = t[i]
      BY <1>1, RangeIs
    <3> QED
      BY <1>1, <3>1, <2>3, RangeIs
  <2> QED
    BY <2>4, <2>5, <2>6
<1>4. ASSUME Ascending(s), Ascending(t), Before(Range(s), Range(t)) PROVE Ascending(u)
  <2>1. \A i \in 1..Len(s), j \in 1..Len(t) : s[i] < t[j]
    BY <1>2, <1>4 DEF Before, Range
  <2> SUFFICES ASSUME NEW i \in 1..Len(u), NEW j \in 1..Len(u), i < j PROVE u[i] < u[j]
    BY DEF Ascending
  <2>2. CASE j <= Len(s)
    BY <1>1, <1>2, <1>4, <2>2 DEF Ascending
  <2>3. CASE i <= Len(s) /\ j > Len(s)
    <3>1. i \in 1..Len(s) /\ j - Len(s) \in 1..Len(t)
      BY <1>1, <1>2, <2>3
    <3>2. u[i] = s[i] /\ u[j] = t[j - Len(s)]
      BY <1>1, <1>2, <2>3
    <3> QED
      BY <2>1, <3>1, <3>2
  <2>4. CASE i > Len(s)
    <3>1. i - Len(s) \in 1..Len(t) /\ j - Len(s) \in 1..Len(t) /\ i - Len(s) < j - Len(s)
      BY <1>1, <1>2, <2>4
    <3>2. u[i] = t[i - Len(s)] /\ u[j] = t[j - Len(s)]
      BY <1>1, <1>2, <2>4
    <3> QED
      BY <1>4, <3>1, <3>2 DEF Ascending
  <2> QED
    BY <1>1, <1>2, <2>2, <2>3, <2>4
<1> QED
  BY <1>1, <1>3, <1>4 DEF u

LEMMA Split ==
  ASSUME NEW s \in Seq(Entries), NEW n \in 0..Len(s)
  PROVE  /\ SubSeq(s, 1, n) \in Seq(Entries) /\ Len(SubSeq(s, 1, n)) = n
         /\ Range(s) = Range(SubSeq(s, 1, n)) \cup Range(SubSeq(s, n + 1, Len(s)))
         /\ Range(SubSeq(s, n + 1, Len(s))) \subseteq Entries
         /\ Ascending(s) => /\ Ascending(SubSeq(s, 1, n))
                            /\ Before(Range(SubSeq(s, 1, n)), Range(SubSeq(s, n + 1, Len(s))))
<1> DEFINE t == SubSeq(s, 1, n)
           u == SubSeq(s, n + 1, Len(s))
<1>1. Len(s) \in Nat /\ DOMAIN s = 1..Len(s) /\ \A i \in 1..Len(s) : s[i] \in Entries
  BY LenProperties, ElementOfSeq
<1>2. /\ t \in Seq(Entries) /\ Len(t) = n
      /\ \A i \in 1..n : t[i] = s[i]
  <2>1. \A i \in 1..n : s[i] \in Entries
    BY <1>1
  <2>2. /\ t \in Seq(Entries) /\ Len(t) = IF 1 <= n THEN n - 1 + 1 ELSE 0
        /\ \A i \in 1..n - 1 + 1 : t[i] = s[1 + i - 1]
    BY <1>1, <2>1, SubSeqProperties
  <2> HIDE DEF t
  <2> QED
    BY <1>1, <2>2
<1>3. /\ u \in Seq(Entries) /\ Len(u) = Len(s) - n
      /\ \A i \in 1..Len(u) : u[i] = s[n + i]
  <2>1. \A i \in n + 1..Len(s) : s[i] \in Entries
    BY <1>1
  <2>2. /\ u \in Seq(Entries) /\ Len(u) = IF n + 1 <= Len(s) THEN Len(s) - (n + 1) + 1 ELSE 0
        /\ \A i \in 1..Len(s) - (n + 1) + 1 : u[i] = s[(n + 1) + i - 1]
    BY <1>1, <2>1, SubSeqProperties
  <2> HIDE DEF u
  <2>3. Len(u) = Len(s) - n
    <3> DEFINE l == Len(s)
    <3>1. l \in Nat /\ n \in 0..l
      BY <1>1
    <3>2. Len(u) = IF n + 1 <= l THEN l - (n + 1) + 1 ELSE 0
      BY <2>2
    <3> HIDE DEF l
    <3>3. Len(u) = l - n
      BY <3>1, <3>2
    <3> QED
      BY <3>3 DEF l
  <2>4. \A i \in 1..Len(u) : u[i] = s[n + i]
    <3> SUFFICES ASSUME NEW i \in 1..Len(u) PROVE u[i] = s[n + i]
      OBVIOUS
    <3>1. i \in 1..Len(s) - (n + 1) + 1 /\ (n + 1) + i - 1 = n + i
      BY <1>1, <2>3
    <3> QED
      BY <2>2, <3>1
  <2> QED
    BY <2>2, <2>3, <2>4
<1> HIDE DEF t, u
<1>5. Range(s) = Range(t) \cup Range(u)
  <2>1. \A i \in 1..Len(s) : \/ i \in 1..n /\ s[i] = t[i]
                             \/ i - n \in 1..Len(u) /\ s[i] = u[i - n]
    <3> SUFFICES ASSUME NEW i \in 1..Len(s), i > n PROVE i - n \in 1..Len(u) /\ s[i] = u[i - n]
      BY <1>1, <1>2
    <3>1. i - n \in 1..Len(u) /\ n + (i - n) = i
      BY <1>1, <1>3
    <3> QED
      BY <1>3, <3>1
  <2>2. \A i \in 1..n : i \in 1..Len(s) /\ s[i] = t[i]
    BY <1>1, <1>2
  <2>3. \A i \in 1..Len(u) : n + i \in 1..Len(s) /\ s[n + i] = u[i]
    BY <1>1, <1>3
  <2>4. ASSUME NEW x \in Range(s) PROVE x \in Range(t) \/ x \in Range(u)
    <3>1. PICK i \in 1..Len(s) : x = s[i]
      BY <1>1, RangeIs
    <3> QED
      BY <1>1, <3>1, <1>2, <1>3, <2>1, RangeIs
  <2>5. \A x \in Range(t) : x \in Range(s)
    BY <1>2, <2>2, RangeIs
  <2>6. ASSUME NEW x \in Range(u) PROVE x \in Range(s)
    <3>1. PICK i \in 1..Len(u) : x = u[i]
      BY <1>1, <1>3, RangeIs
    <3> QED
      BY <1>1, <3>1, <1>3, <2>3, RangeIs
  <2> QED
    BY <2>4, <2>5, <2>6
<1>6. Range(u) \subseteq Entries
  BY <1>3, RangeIs
<1>7. Ascending(s) => Ascending(t)
  BY <1>1, <1>2 DEF Ascending
<1>8. ASSUME Ascending(s) PROVE Before(Range(t), Range(u))
  <2> SUFFICES ASSUME NEW x \in Range(t), NEW y \in Range(u) PROVE x < y
    BY DEF Before
  <2>1. PICK i \in 1..n : x = s[i]
    BY <1>2, RangeIs
  <2>2. PICK j \in 1..Len(u) : y = s[n + j]
    <3>1. PICK j \in 1..Len(u) : y = u[j]
      BY <1>3, RangeIs
    <3> QED
      BY <1>3, <3>1
  <2>3. i \in 1..Len(s) /\ n + j \in 1..Len(s) /\ i < n + j
    BY <1>1, <1>3
  <2> QED
    BY <1>8, <2>1, <2>2, <2>3 DEF Ascending
<1> QED
  BY <1>2, <1>5, <1>6, <1>7, <1>8 DEF t, u
--------------------------------------------------------------------------------
\* The entries that are in fs, and no longer in ks.
Gone(fs, ks) == Contents(fs) \ Contents(ks)

\* The files of fs that are newer than s.
After(fs, s) == {t \in Existing(fs) : t > s}

\* The files of fs that have only entries later than d.
Newer(fs, d) == {s \in Existing(fs) : \A e \in Range(fs[s]) : d < e}

\* ks has files of fs: MaxFileCount of them are newer than any that it has not.
Keeps(fs, ks) ==
  /\ ks \in [Seconds -> Seq(Entries)]
  /\ \A s \in Seconds : ks[s] = fs[s] \/ ks[s] = <<>>
  /\ \A s \in Existing(fs) \ Existing(ks) : Cardinality(After(ks, s)) >= MaxFileCount

FilesInOrder(fs, del) ==
  /\ \A s \in Seconds : Ascending(fs[s])
  /\ \A s, t \in Seconds : s < t => Before(Range(fs[s]), Range(fs[t]))
  /\ del \cap Contents(fs) = {}
  /\ \A d \in del : Cardinality(Newer(fs, d)) >= MaxFileCount

\* gs has the entries of w at the end of the file of name.
Extends(gs, fs, name, w) == gs = [fs EXCEPT ![name] = fs[name] \o w]

\* No file of fs is newer than that of name.
Newest(fs, name) == \A s \in Seconds : s > name => fs[s] = <<>>

LEMMA ExistingFinite ==
  ASSUME NEW fs
  PROVE  /\ Existing(fs) \subseteq Seconds /\ IsFiniteSet(Existing(fs))
         /\ \A S \in SUBSET Existing(fs) : IsFiniteSet(S) /\ Cardinality(S) \in Nat
<1>1. IsFiniteSet(Seconds)
  BY FS_Interval, TrafficAssumption DEF Seconds
<1>2. Existing(fs) \in SUBSET Seconds
  BY DEF Existing
<1>3. IsFiniteSet(Existing(fs))
  BY <1>1, <1>2, FS_Subset
<1> QED
  BY <1>2, <1>3, FS_Subset, FS_CardinalityType

\* Of some files one is the oldest.
LEMMA Oldest ==
  ASSUME NEW S, S \subseteq Seconds, S # {}
  PROVE  \E m \in S : \A s \in S : m <= s
<1> DEFINE less == OpToRel(<, Nat)
<1>1. S \subseteq Nat
  BY TrafficAssumption DEF Seconds
<1>2. IsWellFoundedOn(less, Nat)
  BY NatLessThanWellFounded
<1>3. \A s, m \in Nat : s < m => <<s, m>> \in less
  BY DEF OpToRel
<1> HIDE DEF less
<1>4. PICK m \in S : \A s \in S : ~(<<s, m>> \in less)
  BY <1>1, <1>2, WFMin
<1>5. ASSUME NEW s \in S PROVE m <= s
  <2>1. s \in Nat /\ m \in Nat /\ ~(s < m)
    BY <1>1, <1>3, <1>4
  <2> QED
    BY <2>1
<1> QED
  BY <1>4, <1>5

\* Of some files one is the newest.
LEMMA Latest ==
  ASSUME NEW S, S \subseteq Seconds, S # {}
  PROVE  \E m \in S : \A s \in S : s <= m
<1> DEFINE T == {MaxTime - s : s \in S}
<1>1. T \subseteq Seconds /\ T # {}
  <2>1. \A s \in Seconds : MaxTime - s \in Seconds
    BY TrafficAssumption DEF Seconds
  <2>2. PICK s \in S : TRUE
    OBVIOUS
  <2>3. MaxTime - s \in T
    BY <2>2
  <2> QED
    BY <2>1, <2>3
<1>2. PICK n \in T : \A t \in T : n <= t
  <2> HIDE DEF T
  <2> QED
    BY <1>1, Oldest
<1>3. PICK m \in S : n = MaxTime - m
  BY <1>2
<1>4. ASSUME NEW s \in S PROVE s <= m
  <2>1. MaxTime - m <= MaxTime - s
    BY <1>2, <1>3
  <2> QED
    BY <2>1, TrafficAssumption DEF Seconds
<1> QED
  BY <1>4

\* A set of files is no smaller for having more of them.
LEMMA Larger ==
  ASSUME NEW fs, NEW S, NEW T, S \subseteq T, T \subseteq Existing(fs), Cardinality(S) >= MaxFileCount
  PROVE  Cardinality(T) >= MaxFileCount
<1>1. /\ IsFiniteSet(T) /\ Cardinality(T) \in Nat /\ Cardinality(S) \in Nat
      /\ Cardinality(S) <= Cardinality(T)
  <2>1. IsFiniteSet(T) /\ T \in SUBSET Existing(fs) /\ S \in SUBSET Existing(fs) /\ S \in SUBSET T
    BY ExistingFinite
  <2> QED
    BY <2>1, ExistingFinite, FS_Subset
<1> QED
  BY <1>1, TrafficAssumption

LEMMA Nothing == Ascending(<<>>) /\ Range(<<>>) = {}
BY DEF Ascending, Range

\* A clean-up deletes no file but with MaxFileCount newer ones; it may leave old ones.
LEMMA CleanedKeeps ==
  ASSUME NEW fs \in [Seconds -> Seq(Entries)], NEW ks \in Cleaned(fs)
  PROVE  /\ Keeps(fs, ks)
         /\ \A s \in Seconds : s \notin Old(fs) => ks[s] = fs[s]
<1>1. PICK undeleted \in Old(fs) \cup {-1} :
        ks = [s \in Seconds |-> IF s \in Old(fs) /\ s > undeleted THEN <<>> ELSE fs[s]]
  BY DEF Cleaned
<1> DEFINE D == {u \in Old(fs) : u > undeleted}
<1>2. /\ ks \in [Seconds -> Seq(Entries)]
      /\ \A s \in Seconds : ks[s] = IF s \in D THEN <<>> ELSE fs[s]
  BY <1>1, Integral
<1>3. D \subseteq Seconds /\ undeleted \in Int
  BY Integral DEF Old, Existing
<1>4. ASSUME NEW s \in Existing(fs) \ Existing(ks) PROVE Cardinality(After(ks, s)) >= MaxFileCount
  <2>1. s \in D /\ s \in Seconds
    BY <1>2 DEF Existing
  <2>2. PICK m \in D : \A u \in D : u <= m
    <3> HIDE DEF D
    <3> QED
      BY <1>3, <2>1, Latest
  <2>3. s <= m /\ s \in Int /\ m \in Int /\ m > undeleted
    BY <1>3, <2>1, <2>2, Integral
  <2>4. Cardinality(After(fs, m)) >= MaxFileCount
    BY DEF Old, After
  <2>5. After(fs, m) \subseteq After(ks, s)
    <3> SUFFICES ASSUME NEW t \in Existing(fs), t > m PROVE t \in Existing(ks) /\ t > s
      BY DEF After
    <3>1. t \in Seconds /\ t \in Int /\ fs[t] # <<>>
      BY Integral DEF Existing
    <3>2. t > s /\ t \notin D
      BY <2>2, <2>3, <3>1
    <3> QED
      BY <1>2, <3>1, <3>2 DEF Existing
  <2>6. After(ks, s) \subseteq Existing(ks)
    BY DEF After
  <2> QED
    BY <2>4, <2>5, <2>6, Larger
<1>5. \A s \in Seconds : ks[s] = fs[s] \/ ks[s] = <<>>
  BY <1>2
<1>6. \A s \in Seconds : s \notin Old(fs) => ks[s] = fs[s]
  BY <1>2
<1> QED
  BY <1>2, <1>4, <1>5, <1>6 DEF Keeps

LEMMA Trimmed ==
  ASSUME NEW fs \in [Seconds -> Seq(Entries)], NEW ks, Keeps(fs, ks),
         NEW del \in SUBSET Entries, FilesInOrder(fs, del)
  PROVE  /\ FilesInOrder(ks, del \cup Gone(fs, ks))
         /\ Contents(fs) = Contents(ks) \cup Gone(fs, ks)
         /\ Gone(fs, ks) \subseteq Entries
<1>1. \A s \in Seconds : Range(ks[s]) = Range(fs[s]) \/ ks[s] = <<>>
  BY DEF Keeps
<1>2. \A s \in Seconds : Ascending(ks[s])
  BY Nothing DEF Keeps, FilesInOrder
<1>3. ASSUME NEW s \in Seconds, NEW t \in Seconds, s < t PROVE Before(Range(ks[s]), Range(ks[t]))
  BY <1>1, <1>3, Nothing DEF FilesInOrder, Before
<1>4. Contents(ks) \subseteq Contents(fs)
  BY <1>1, Nothing DEF Contents
<1>5. \A s \in Existing(ks) : s \in Existing(fs) /\ ks[s] = fs[s]
  BY DEF Keeps, Existing
<1>6. (del \cup Gone(fs, ks)) \cap Contents(ks) = {}
  BY <1>4 DEF FilesInOrder, Gone
<1>7. \A s \in Seconds : Range(fs[s]) \subseteq Entries
  BY RangeIs
\* What is later than some entry of a file that has gone is later than d.
<1>8. ASSUME NEW d \in Entries, NEW s \in Existing(fs) \ Existing(ks),
             NEW x \in Range(fs[s]), d <= x
      PROVE  Cardinality(Newer(ks, d)) >= MaxFileCount
  <2>1. Cardinality(After(ks, s)) >= MaxFileCount
    BY DEF Keeps
  <2>2. After(ks, s) \subseteq Newer(ks, d)
    <3> SUFFICES ASSUME NEW t \in Existing(ks), t > s, NEW e \in Range(ks[t]) PROVE d < e
      BY DEF After, Newer
    <3>1. s \in Seconds /\ t \in Seconds /\ s < t /\ ks[t] = fs[t]
      BY <1>5, Integral DEF Existing
    <3>2. x < e
      BY <3>1 DEF FilesInOrder, Before
    <3>3. x \in Int /\ e \in Int /\ d \in Int
      BY <1>7, <3>1, Integral
    <3> QED
      BY <1>8, <3>2, <3>3
  <2>3. Newer(ks, d) \subseteq Existing(ks)
    BY DEF Newer
  <2> QED
    BY <2>1, <2>2, <2>3, Larger
<1>9. ASSUME NEW d \in del PROVE Cardinality(Newer(ks, d)) >= MaxFileCount
  <2>1. CASE Newer(fs, d) \subseteq Existing(ks)
    <3>1. Newer(fs, d) \subseteq Newer(ks, d) /\ Newer(ks, d) \subseteq Existing(ks)
      BY <1>5, <2>1 DEF Newer
    <3>2. Cardinality(Newer(fs, d)) >= MaxFileCount
      BY DEF FilesInOrder
    <3> QED
      BY <3>1, <3>2, Larger
  <2>2. CASE ~(Newer(fs, d) \subseteq Existing(ks))
    <3>1. PICK s \in Newer(fs, d) : s \notin Existing(ks)
      BY <2>2
    <3>2. s \in Existing(fs) \ Existing(ks) /\ s \in Seconds /\ \A e \in Range(fs[s]) : d < e
      BY <3>1 DEF Newer, Existing
    <3>3. PICK x : x \in Range(fs[s])
      <4>1. fs[s] \in Seq(Entries) /\ fs[s] # <<>>
        BY <3>2 DEF Existing
      <4>2. Head(fs[s]) \in Range(fs[s])
        BY <4>1, Beheaded
      <4> QED
        BY <4>2
    <3>4. d \in Entries /\ d < x /\ d \in Int /\ x \in Int
      BY <1>7, <3>2, <3>3, Integral
    <3>5. d <= x
      BY <3>4
    <3> QED
      BY <1>8, <3>2, <3>3, <3>4, <3>5
  <2> QED
    BY <2>1, <2>2
<1>10. ASSUME NEW d \in Gone(fs, ks) PROVE Cardinality(Newer(ks, d)) >= MaxFileCount
  <2>1. PICK s \in Seconds : d \in Range(fs[s])
    BY DEF Gone, Contents
  <2>2. s \in Existing(fs)
    BY <2>1, Nothing DEF Existing
  <2>3. s \notin Existing(ks)
    BY <1>5, <2>1 DEF Gone, Contents
  <2>4. d \in Entries
    BY <1>7, <2>1
  <2>5. d <= d
    BY <2>4, Integral
  <2> QED
    BY <1>8, <2>1, <2>2, <2>3, <2>4, <2>5
<1>11. Contents(fs) = Contents(ks) \cup Gone(fs, ks)
  BY <1>4 DEF Gone
<1>12. Gone(fs, ks) \subseteq Entries
  BY <1>7 DEF Gone, Contents
<1> QED
  BY <1>2, <1>3, <1>6, <1>9, <1>10, <1>11, <1>12 DEF FilesInOrder

LEMMA Extended ==
  ASSUME NEW fs \in [Seconds -> Seq(Entries)], NEW del \in SUBSET Entries, FilesInOrder(fs, del),
         NEW name \in Seconds, Newest(fs, name),
         NEW w \in Seq(Entries), Ascending(w), Before(Contents(fs) \cup del, Range(w)),
         NEW gs, Extends(gs, fs, name, w)
  PROVE  /\ gs \in [Seconds -> Seq(Entries)]
         /\ FilesInOrder(gs, del)
         /\ Contents(gs) = Contents(fs) \cup Range(w)
         /\ Newest(gs, name)
<1>1. fs[name] \in Seq(Entries) /\ Range(fs[name]) \subseteq Contents(fs)
  BY DEF Contents
<1>2. /\ fs[name] \o w \in Seq(Entries)
      /\ Range(fs[name] \o w) = Range(fs[name]) \cup Range(w)
      /\ Ascending(fs[name] \o w)
  BY <1>1, Joined DEF FilesInOrder, Before
<1>3. /\ gs \in [Seconds -> Seq(Entries)]
      /\ gs[name] = fs[name] \o w
      /\ \A s \in Seconds : s # name => gs[s] = fs[s]
  BY <1>2 DEF Extends
<1>4. Newest(gs, name)
  BY <1>3, Integral DEF Newest
<1>5. \A s \in Seconds : Ascending(gs[s])
  BY <1>2, <1>3 DEF FilesInOrder
<1>6. Contents(gs) = Contents(fs) \cup Range(w)
  <2>1. \A s \in Seconds : Range(gs[s]) = Range(fs[s]) \cup (IF s = name THEN Range(w) ELSE {})
    BY <1>2, <1>3
  <2> QED
    BY <2>1 DEF Contents
<1>7. ASSUME NEW s \in Seconds, NEW t \in Seconds, s < t PROVE Before(Range(gs[s]), Range(gs[t]))
  <2>1. CASE t = name
    <3>1. s # name
      BY <1>7, <2>1, Integral
    <3>2. Range(gs[t]) = Range(fs[t]) \cup Range(w) /\ gs[s] = fs[s]
      BY <1>2, <1>3, <2>1, <3>1
    <3>3. Range(fs[s]) \subseteq Contents(fs)
      BY DEF Contents
    <3> QED
      BY <1>7, <2>1, <3>2, <3>3 DEF FilesInOrder, Before
  <2>2. CASE s = name
    BY <1>4, <1>7, <2>2, Nothing, Integral DEF Before, Newest
  <2>3. CASE s # name /\ t # name
    BY <1>3, <1>7, <2>3 DEF FilesInOrder
  <2> QED
    BY <2>1, <2>2, <2>3
<1>8. del \cap Contents(gs) = {}
  <2>1. \A d \in del : ~(d < d)
    BY Integral
  <2> QED
    BY <1>6, <2>1 DEF FilesInOrder, Before
<1>9. ASSUME NEW d \in del PROVE Cardinality(Newer(gs, d)) >= MaxFileCount
  <2>1. \A e \in Range(w) : d < e
    BY DEF Before
  <2>2. ASSUME NEW s \in Newer(fs, d) PROVE s \in Newer(gs, d)
    <3>1. s \in Seconds /\ fs[s] # <<>> /\ \A e \in Range(fs[s]) : d < e
      BY DEF Newer, Existing
    <3>2. CASE s # name
      BY <1>3, <3>1, <3>2 DEF Newer, Existing
    <3>3. CASE s = name
      <4>1. \A e \in Range(gs[s]) : d < e
        BY <1>2, <1>3, <2>1, <3>1, <3>3
      <4>2. Head(fs[s]) \in Range(fs[s])
        BY <3>1, Beheaded
      <4>3. Range(gs[s]) # {}
        BY <1>2, <1>3, <3>3, <4>2
      <4>4. gs[s] # <<>>
        BY <4>3, Nothing
      <4> QED
        BY <3>1, <4>1, <4>4 DEF Newer, Existing
    <3> QED
      BY <3>2, <3>3
  <2>3. Newer(fs, d) \subseteq Newer(gs, d) /\ Newer(gs, d) \subseteq Existing(gs)
    BY <2>2 DEF Newer
  <2>4. Cardinality(Newer(fs, d)) >= MaxFileCount
    BY DEF FilesInOrder
  <2> QED
    BY <2>3, <2>4, Larger
<1> QED
  BY <1>3, <1>4, <1>5, <1>6, <1>7, <1>8, <1>9 DEF FilesInOrder

\* What is deleted is survived by a later entry.
LEMMA Survived ==
  ASSUME NEW fs, NEW del, FilesInOrder(fs, del), NEW d \in del,
         fs \in [Seconds -> Seq(Entries)]
  PROVE  \E e \in Contents(fs) : d < e
<1>1. Cardinality(Newer(fs, d)) >= MaxFileCount
  BY DEF FilesInOrder
<1>2. Newer(fs, d) # {}
  <2> DEFINE N == Newer(fs, d)
  <2>1. N = {} => Cardinality(N) = 0
    BY FS_EmptySet
  <2>2. Cardinality(N) >= MaxFileCount
    BY <1>1
  <2> HIDE DEF N
  <2>3. N # {}
    BY <2>1, <2>2, TrafficAssumption
  <2> QED
    BY <2>3 DEF N
<1>3. PICK s \in Newer(fs, d) : TRUE
  BY <1>2
<1>4. s \in Seconds /\ fs[s] # <<>> /\ \A e \in Range(fs[s]) : d < e
  BY <1>3 DEF Newer, Existing
<1>5. Head(fs[s]) \in Range(fs[s])
  BY <1>4, Beheaded
<1> QED
  BY <1>4, <1>5 DEF Contents
--------------------------------------------------------------------------------
\* Every entry is later than those before it on its way: files, batch, queue.
OrderInv ==
  /\ current <= second
  /\ Newest(files, current)
  /\ FilesInOrder(files, deleted)
  /\ Ascending(batch) /\ Ascending(queue)
  /\ Before(Saved \cup deleted, Range(batch) \cup Range(queue))
  /\ Before(Range(batch), Range(queue))
  /\ \A e \in Saved \cup deleted \cup Range(batch) \cup Range(queue) : e <= requests

\* Every entry is somewhere, and the service ends only when it has nothing left.
AccountInv ==
  /\ 1..requests \subseteq Saved \cup deleted \cup dropped \cup lost \cup Range(batch) \cup Range(queue)
  /\ at \in {"drain", "flush", "end"} => stopping \/ failed
  /\ at \in {"flush", "end"} /\ ~failed => queue = <<>>
  /\ at = "end" => batch = <<>>

LogInv == TrafficTypeOK /\ OrderInv /\ AccountInv

LEMMA InitInv == Init => LogInv
<1> SUFFICES ASSUME Init PROVE LogInv
  OBVIOUS
<1>1. TrafficTypeOK
  <2>1. files \in [Seconds -> Seq(Entries)]
    BY Integral DEF Init
  <2>2. Len(queue) = 0 /\ 0 \in 0..MaxRequests
    BY TrafficAssumption DEF Init
  <2> QED
    BY <2>1, <2>2, TrafficAssumption, Integral DEF Init, TrafficTypeOK
<1>2. Contents(files) = {} /\ Saved = {} /\ 1..requests = {}
  BY Nothing DEF Init, Contents, Saved
<1>3. FilesInOrder(files, deleted)
  BY <1>2, Nothing DEF Init, FilesInOrder, Before
<1>4. OrderInv
  BY <1>2, <1>3, Nothing DEF Init, OrderInv, Before, Newest
<1> QED
  BY <1>1, <1>2, <1>4 DEF Init, LogInv, AccountInv

\* What AppendEntries leaves of an invariant before the rest of its step.
LEMMA Written ==
  ASSUME TrafficTypeOK, OrderInv, NEW n \in 0..Len(batch), AppendEntries(batch, n)
  PROVE  /\ files' \in [Seconds -> Seq(Entries)] /\ current' \in Seconds /\ size' \in Nat
         /\ miscounted' \subseteq Seconds /\ uncleaned' \in BOOLEAN /\ deleted' \subseteq Entries
         /\ current' <= second
         /\ Newest(files', current')
         /\ FilesInOrder(files', deleted')
         /\ Saved' \cup deleted' = Saved \cup deleted \cup Range(SubSeq(batch, 1, n))
         /\ Saved' \subseteq Saved \cup Range(SubSeq(batch, 1, n))
         /\ deleted \subseteq deleted' /\ deleted' \ deleted \subseteq Saved
<1> DEFINE name == IF Rollover(batch) THEN second ELSE current
           w    == SubSeq(batch, 1, n)
<1>1. PICK kept \in IF Rollover(batch) THEN Cleaned(files) ELSE {files} :
        /\ Extends(files', kept, name, w) /\ current' = name
        /\ deleted' = deleted \cup Gone(files, kept)
  BY DEF AppendEntries, Gone, Extends
<1> DEFINE del  == deleted \cup Gone(files, kept)
<1>2. /\ name \in Seconds /\ current <= name /\ name <= second
  BY Integral DEF TrafficTypeOK, OrderInv
<1>3. Keeps(files, kept)
  <2>1. Keeps(files, files)
    BY DEF Keeps, TrafficTypeOK
  <2>2. CASE Rollover(batch)
    <3>1. kept \in Cleaned(files)
      BY <2>2
    <3> QED
      BY <3>1, CleanedKeeps DEF TrafficTypeOK
  <2>3. CASE ~Rollover(batch)
    BY <2>1, <2>3
  <2> QED
    BY <2>2, <2>3
<1>4. /\ FilesInOrder(kept, del)
      /\ Contents(files) = Contents(kept) \cup Gone(files, kept)
      /\ del \in SUBSET Entries
  BY <1>3, Trimmed DEF TrafficTypeOK, OrderInv
<1>5. Newest(kept, name)
  <2>1. \A s \in Seconds : s > name => s > current
    BY <1>2, Integral DEF TrafficTypeOK
  <2> QED
    BY <1>3, <2>1 DEF Keeps, OrderInv, Newest
<1>6. w \in Seq(Entries) /\ Ascending(w) /\ Range(w) \subseteq Range(batch)
  BY Split DEF TrafficTypeOK, OrderInv
<1>7. Before(Contents(kept) \cup del, Range(w))
  BY <1>4, <1>6 DEF OrderInv, Before, Saved, Contents
<1>8. /\ files' \in [Seconds -> Seq(Entries)]
      /\ FilesInOrder(files', del)
      /\ Contents(files') = Contents(kept) \cup Range(w)
      /\ Newest(files', name)
  <2> HIDE DEF name, w, del
  <2>1. kept \in [Seconds -> Seq(Entries)]
    BY <1>3 DEF Keeps
  <2> QED
    BY <1>1, <1>2, <1>4, <1>5, <1>6, <1>7, <2>1, Extended
<1>9. /\ Saved' \cup deleted' = Saved \cup deleted \cup Range(w)
      /\ Saved' \subseteq Saved \cup Range(w)
      /\ deleted \subseteq deleted' /\ deleted' \ deleted \subseteq Saved
  BY <1>1, <1>4, <1>8 DEF Saved, Contents
<1>10. size' \in Nat /\ miscounted' \subseteq Seconds /\ uncleaned' \in BOOLEAN
  <2>1. size' = (IF n = Len(batch) THEN (IF Rollover(batch) THEN 0 ELSE size) + n
                                   ELSE (IF Rollover(batch) THEN 0 ELSE size))
    BY DEF AppendEntries
  <2>2. size' \in Nat
    BY <2>1, LenProperties DEF TrafficTypeOK
  <2>3. miscounted' = miscounted \/ miscounted' = miscounted \cup {name}
    BY DEF AppendEntries
  <2>4. \/ uncleaned' = uncleaned
        \/ \E left : uncleaned' = (Old(left) # {})
    BY DEF AppendEntries
  <2>5. uncleaned' \in BOOLEAN
    BY <2>4 DEF TrafficTypeOK
  <2> QED
    BY <1>2, <2>2, <2>3, <2>5 DEF TrafficTypeOK
<1> QED
  BY <1>1, <1>2, <1>4, <1>8, <1>9, <1>10
--------------------------------------------------------------------------------
\* A step that writes the first n entries of the batch, and loses the others.
LEMMA BatchWritten ==
  ASSUME LogInv, NEW n \in 0..Len(batch), AppendEntries(batch, n), batch' = <<>>,
         UNCHANGED <<second, requests, queue, dropped>>,
         \/ n = Len(batch) /\ lost' = lost
         \/ lost' = lost \cup Range(SubSeq(batch, n + 1, Len(batch)))
  PROVE  /\ files' \in [Seconds -> Seq(Entries)] /\ current' \in Seconds /\ size' \in Nat
         /\ miscounted' \subseteq Seconds /\ uncleaned' \in BOOLEAN
         /\ deleted' \subseteq Entries /\ lost' \subseteq Entries
         /\ batch' \in Seq(Entries)
         /\ OrderInv'
         /\ 1..requests' \subseteq Saved' \cup deleted' \cup dropped' \cup lost'
                                     \cup Range(batch') \cup Range(queue')
<1> DEFINE w == SubSeq(batch, 1, n)
           rest == SubSeq(batch, n + 1, Len(batch))
<1>1. /\ Range(batch) = Range(w) \cup Range(rest)
      /\ Range(rest) \subseteq Entries
  BY Split DEF LogInv, TrafficTypeOK
<1>2. Saved' \cup deleted' = Saved \cup deleted \cup Range(w)
  BY Written DEF LogInv
<1>3. Range(batch) \ Range(w) \subseteq lost' \ lost \/ Range(batch) \subseteq lost' \cup Range(w)
  <2>1. CASE n = Len(batch)
    <3>1. w = batch
      BY <2>1, SubSeqFull DEF LogInv, TrafficTypeOK
    <3> QED
      BY <3>1
  <2>2. CASE lost' = lost \cup Range(rest)
    BY <1>1, <2>2
  <2> QED
    BY <2>1, <2>2
<1>4. lost' \subseteq Entries
  BY <1>1 DEF LogInv, TrafficTypeOK
<1>5. batch' \in Seq(Entries) /\ Range(batch') = {} /\ Ascending(batch')
  BY Integral, Nothing
<1>6. OrderInv'
  <2>1. /\ current' <= second' /\ Newest(files', current') /\ FilesInOrder(files', deleted')
    BY Written DEF LogInv
  <2>2. /\ Before(Saved' \cup deleted', Range(batch') \cup Range(queue'))
        /\ Before(Range(batch'), Range(queue'))
        /\ \A e \in Saved' \cup deleted' \cup Range(batch') \cup Range(queue') : e <= requests'
    BY <1>1, <1>2, <1>5 DEF LogInv, OrderInv, Before
  <2> QED
    BY <1>5, <2>1, <2>2 DEF LogInv, OrderInv
<1>7. 1..requests' \subseteq Saved' \cup deleted' \cup dropped' \cup lost'
                               \cup Range(batch') \cup Range(queue')
  <2>1. lost \subseteq lost'
    OBVIOUS
  <2> QED
    BY <1>2, <1>3, <2>1 DEF LogInv, AccountInv
<1> QED
  BY <1>4, <1>5, <1>6, <1>7, Written DEF LogInv

LEMMA LogStep == LogInv /\ Log => LogInv'
<1> SUFFICES ASSUME LogInv, Log PROVE LogInv'
  OBVIOUS
<1> DEFINE e == requests + 1
           all == Append(queue, e)
<1>1. /\ e \in Entries /\ requests' = e /\ e \in 0..MaxRequests /\ requests \in Nat
      /\ queue \in Seq(Entries) /\ Len(queue) \in Nat /\ Len(queue) <= QueueCapacity
      /\ Ascending(queue)
  BY LenProperties, TrafficAssumption DEF Log, LogInv, TrafficTypeOK, OrderInv, Entries
<1>2. \A d \in Saved \cup deleted \cup Range(batch) \cup Range(queue) : d \in Int /\ d < e /\ d <= e
  <2>1. Saved \subseteq Entries
    BY RangeIs DEF Saved, Contents, LogInv, TrafficTypeOK
  <2>2. Range(batch) \subseteq Entries /\ Range(queue) \subseteq Entries
    BY RangeIs DEF LogInv, TrafficTypeOK
  <2> QED
    BY <1>1, <2>1, <2>2, Integral DEF LogInv, OrderInv, TrafficTypeOK
<1>3. Before(Range(queue), {e})
  BY <1>2 DEF Before
<1>4. /\ all \in Seq(Entries) /\ Len(all) = Len(queue) + 1 /\ all # <<>>
      /\ Range(all) = Range(queue) \cup {e} /\ Ascending(all)
  BY <1>1, <1>3, Appended
<1>5. /\ Head(all) \in Entries /\ Tail(all) \in Seq(Entries) /\ Len(Tail(all)) = Len(all) - 1
      /\ Range(all) = {Head(all)} \cup Range(Tail(all)) /\ Ascending(Tail(all))
  <2> HIDE DEF all
  <2> QED
    BY <1>4, Beheaded
<1>6. /\ queue' \in Seq(Entries) /\ Len(queue') <= QueueCapacity /\ Ascending(queue')
      /\ Range(queue') \subseteq Range(queue) \cup {e}
      /\ Range(queue) \cup {e} \cup dropped = Range(queue') \cup dropped'
      /\ dropped' \subseteq Entries
  <2> HIDE DEF all
  <2>1. CASE Len(all) > QueueCapacity
    <3>1. queue' = Tail(all) /\ dropped' = dropped \cup {Head(all)}
      BY <2>1 DEF Log, all
    <3>2. Len(Tail(all)) <= QueueCapacity
      BY <1>1, <1>4, <1>5
    <3> QED
      BY <1>4, <1>5, <3>1, <3>2 DEF LogInv, TrafficTypeOK
  <2>2. CASE ~(Len(all) > QueueCapacity)
    <3>1. queue' = all /\ dropped' = dropped
      BY <2>2 DEF Log, all
    <3>2. Len(all) <= QueueCapacity
      BY <1>1, <1>4, <2>2, TrafficAssumption
    <3> QED
      BY <1>4, <3>1, <3>2 DEF LogInv, TrafficTypeOK
  <2> QED
    BY <2>1, <2>2
<1>7. UNCHANGED <<second, stopping, batch, files, current, size, miscounted, uncleaned, deleted, at, failed, lost>> /\ Saved' = Saved
  BY DEF Log, storage, Saved
<1>8. TrafficTypeOK'
  BY <1>1, <1>6, <1>7 DEF LogInv, TrafficTypeOK
<1>9. OrderInv'
  <2>1. /\ Before(Saved' \cup deleted', Range(batch') \cup Range(queue'))
        /\ Before(Range(batch'), Range(queue'))
    BY <1>2, <1>6, <1>7 DEF LogInv, OrderInv, Before
  <2>2. \A d \in Saved' \cup deleted' \cup Range(batch') \cup Range(queue') : d <= requests'
    BY <1>1, <1>2, <1>6, <1>7
  <2> QED
    BY <1>6, <1>7, <2>1, <2>2 DEF LogInv, OrderInv
<1>10. AccountInv'
  <2>1. 1..requests' = (1..requests) \cup {e}
    BY <1>1
  <2>2. ~(at \in {"flush", "end"} /\ ~failed)
    BY DEF Log, LogInv, AccountInv
  <2> QED
    BY <1>6, <1>7, <2>1, <2>2 DEF LogInv, AccountInv
<1> QED
  BY <1>8, <1>9, <1>10 DEF LogInv

\* A step that moves the first entry of the queue to the batch.
LEMMA OneRead ==
  ASSUME LogInv, queue # <<>>, batch' = Append(batch, Head(queue)), queue' = Tail(queue),
         UNCHANGED <<second, requests, stopping, files, current, size, miscounted, uncleaned,
                     deleted, at, failed, lost, dropped>>
  PROVE  LogInv' \/ at \notin {"read", "drain"}
<1> SUFFICES ASSUME at \in {"read", "drain"} PROVE LogInv'
  OBVIOUS
<1> DEFINE h == Head(queue)
<1>1. queue \in Seq(Entries) /\ batch \in Seq(Entries) /\ Len(queue) \in Nat
  BY LenProperties DEF LogInv, TrafficTypeOK
<1>2. /\ h \in Entries /\ queue' \in Seq(Entries) /\ Len(queue') = Len(queue) - 1
      /\ Range(queue) = {h} \cup Range(queue') /\ Ascending(queue') /\ Before({h}, Range(queue'))
  BY <1>1, Beheaded DEF LogInv, OrderInv
<1>3. Before(Range(batch), {h})
  BY <1>2 DEF LogInv, OrderInv, Before
<1>4. batch' \in Seq(Entries) /\ Range(batch') = Range(batch) \cup {h} /\ Ascending(batch')
  BY <1>1, <1>2, <1>3, Appended DEF LogInv, OrderInv
<1>5. Saved' = Saved
  BY DEF Saved
<1>6. TrafficTypeOK'
  BY <1>1, <1>2, <1>4, TrafficAssumption DEF LogInv, TrafficTypeOK
<1>7. OrderInv'
  <2>1. /\ Before(Saved' \cup deleted', Range(batch') \cup Range(queue'))
        /\ Before(Range(batch'), Range(queue'))
        /\ \A d \in Saved' \cup deleted' \cup Range(batch') \cup Range(queue') : d <= requests'
    BY <1>2, <1>4, <1>5 DEF LogInv, OrderInv, Before
  <2> QED
    BY <1>2, <1>4, <2>1 DEF LogInv, OrderInv
<1>8. AccountInv'
  BY <1>2, <1>4, <1>5 DEF LogInv, AccountInv
<1> QED
  BY <1>6, <1>7, <1>8 DEF LogInv

LEMMA InitializeStep == LogInv /\ Initialize => LogInv'
<1> SUFFICES ASSUME LogInv, Initialize PROVE LogInv'
  OBVIOUS
<1>1. UNCHANGED <<second, requests, stopping, queue, batch, current, miscounted, dropped, lost>>
  BY DEF Initialize, environment
<1>2. CASE /\ files' \in Cleaned(files) /\ size' = Len(files[current]) /\ at' = "top"
           /\ deleted' = deleted \cup (Saved \ Contents(files'))
           /\ uncleaned' \in BOOLEAN /\ UNCHANGED failed
  <2>1. Keeps(files, files') /\ deleted' = deleted \cup Gone(files, files')
    BY <1>2, CleanedKeeps DEF LogInv, TrafficTypeOK, Gone, Saved
  <2>2. /\ FilesInOrder(files', deleted')
        /\ Contents(files) = Contents(files') \cup Gone(files, files')
        /\ Gone(files, files') \subseteq Entries
    BY <2>1, Trimmed DEF LogInv, TrafficTypeOK, OrderInv
  <2>3. Newest(files', current')
    BY <1>1, <2>1 DEF LogInv, OrderInv, Newest, Keeps
  <2>4. Saved' \cup deleted' = Saved \cup deleted
    BY <2>1, <2>2 DEF Saved, Contents
  <2>5. TrafficTypeOK'
    <3>1. size' \in Nat
      BY <1>2, LenProperties DEF LogInv, TrafficTypeOK
    <3>2. files' \in [Seconds -> Seq(Entries)] /\ deleted' \subseteq Entries
      BY <2>1, <2>2 DEF Keeps, LogInv, TrafficTypeOK
    <3> QED
      BY <1>1, <1>2, <3>1, <3>2 DEF LogInv, TrafficTypeOK
  <2>6. OrderInv'
    BY <1>1, <2>2, <2>3, <2>4 DEF LogInv, OrderInv, Before
  <2>7. AccountInv'
    BY <1>1, <1>2, <2>4 DEF LogInv, AccountInv
  <2> QED
    BY <2>5, <2>6, <2>7 DEF LogInv
<1>3. CASE /\ at' = "drain" /\ failed' = TRUE /\ uncleaned' = TRUE
           /\ UNCHANGED <<files, deleted, size>>
  <2>1. Saved' = Saved
    BY <1>3 DEF Saved
  <2> QED
    BY <1>1, <1>3, <2>1 DEF LogInv, TrafficTypeOK, OrderInv, AccountInv
<1> QED
  BY <1>2, <1>3 DEF Initialize

\* The steps that touch no entry.
LEMMA IdleSteps == LogInv /\ (Top \/ Wait \/ Stop \/ Tick \/ UNCHANGED vars) => LogInv'
<1> SUFFICES ASSUME LogInv, Top \/ Wait \/ Stop \/ Tick \/ UNCHANGED vars PROVE LogInv'
  OBVIOUS
<1>1. /\ UNCHANGED <<requests, queue, batch, files, current, size, miscounted, uncleaned, deleted, failed, lost, dropped>>
      /\ Saved' = Saved
  BY DEF Top, Wait, Stop, Tick, vars, storage, environment, Saved
<1>2. second' \in Seconds /\ current' <= second' /\ stopping' \in BOOLEAN
  <2>1. \/ second' = second
        \/ second < MaxTime /\ second' = second + 1
    BY DEF Top, Wait, Stop, Tick, vars, environment
  <2>2. stopping' = stopping \/ stopping' = TRUE
    BY DEF Top, Wait, Stop, Tick, vars, environment
  <2>3. second' \in Seconds /\ current' <= second'
    BY <1>1, <2>1, TrafficAssumption DEF LogInv, TrafficTypeOK, OrderInv, Seconds
  <2>4. stopping' \in BOOLEAN
    BY <2>2 DEF LogInv, TrafficTypeOK
  <2> QED
    BY <2>3, <2>4
<1>3. /\ at' \in {"init", "top", "read", "save", "wait", "drain", "flush", "end"}
      /\ at' \in {"drain", "flush", "end"} => stopping' \/ failed'
      /\ at' \in {"flush", "end"} => at' = at
  BY DEF Top, Wait, Stop, Tick, vars, storage, environment, LogInv, TrafficTypeOK, AccountInv
<1>4. TrafficTypeOK' /\ OrderInv'
  BY <1>1, <1>2, <1>3 DEF LogInv, TrafficTypeOK, OrderInv
<1>5. AccountInv'
  BY <1>1, <1>3 DEF LogInv, AccountInv
<1> QED
  BY <1>4, <1>5 DEF LogInv

LEMMA ReadStep == LogInv /\ (Read \/ Drain) => LogInv'
<1> SUFFICES ASSUME LogInv, Read \/ Drain PROVE LogInv'
  OBVIOUS
<1>1. /\ UNCHANGED <<second, requests, stopping, files, current, size, miscounted, uncleaned, deleted, failed, lost, dropped>>
      /\ Saved' = Saved /\ at \in {"read", "drain"}
  BY DEF Read, Drain, storage, environment, Saved
<1>2. CASE queue # <<>> /\ batch' = Append(batch, Head(queue)) /\ queue' = Tail(queue) /\ at' = at
  BY <1>1, <1>2, OneRead
<1>3. CASE /\ UNCHANGED <<batch, queue>>
           /\ at' \in {"wait", "save"} \/ (at = "drain" /\ at' = "flush" /\ queue = <<>>)
  <2>1. TrafficTypeOK'
    BY <1>1, <1>3 DEF LogInv, TrafficTypeOK
  <2>2. OrderInv'
    BY <1>1, <1>3 DEF LogInv, OrderInv
  <2>3. AccountInv'
    <3>1. at' = "flush" => (stopping \/ failed) /\ queue = <<>>
      BY <1>3 DEF LogInv, AccountInv
    <3>2. at' # "drain" /\ at' # "end"
      BY <1>3
    <3> QED
      BY <1>1, <1>3, <3>1, <3>2 DEF LogInv, AccountInv
  <2> QED
    BY <2>1, <2>2, <2>3 DEF LogInv
<1>4. \/ queue # <<>> /\ batch' = Append(batch, Head(queue)) /\ queue' = Tail(queue) /\ at' = at
      \/ /\ UNCHANGED <<batch, queue>>
         /\ at' \in {"wait", "save"} \/ (at = "drain" /\ at' = "flush" /\ queue = <<>>)
  <2>1. CASE Read
    BY <2>1 DEF Read
  <2>2. CASE Drain
    BY <2>2 DEF Drain
  <2> QED
    BY <2>1, <2>2
<1> QED
  BY <1>2, <1>3, <1>4

\* What is left to say of Save and Flush once the batch is written.
LEMMA WriteStep ==
  ASSUME LogInv, WriteAll \/ WriteFails, batch' = <<>>,
         UNCHANGED <<second, requests, stopping, queue, dropped>>,
         at' \in {"top", "drain", "end"}, at' = "drain" => failed',
         at' = "end" => at = "flush"
  PROVE  LogInv'
<1>1. PICK n \in 0..Len(batch) :
        /\ AppendEntries(batch, n)
        /\ \/ n = Len(batch) /\ UNCHANGED <<failed, lost>>
           \/ failed' = TRUE /\ lost' = lost \cup Range(SubSeq(batch, n + 1, Len(batch)))
  <2>1. Len(batch) \in Nat
    BY LenProperties DEF LogInv, TrafficTypeOK
  <2>2. CASE WriteAll
    BY <2>1, <2>2 DEF WriteAll
  <2>3. CASE WriteFails
    <3>1. PICK n \in 0..Len(batch) - 1 :
            /\ AppendEntries(batch, n) /\ failed' = TRUE
            /\ lost' = lost \cup Range(SubSeq(batch, n + 1, Len(batch)))
      BY <2>3 DEF WriteFails
    <3>2. n \in 0..Len(batch)
      BY <2>1
    <3> QED
      BY <3>1, <3>2
  <2> QED
    BY <2>2, <2>3
<1>2. /\ files' \in [Seconds -> Seq(Entries)] /\ current' \in Seconds /\ size' \in Nat
      /\ miscounted' \subseteq Seconds /\ uncleaned' \in BOOLEAN
      /\ deleted' \subseteq Entries /\ lost' \subseteq Entries
      /\ batch' \in Seq(Entries)
      /\ OrderInv'
      /\ 1..requests' \subseteq Saved' \cup deleted' \cup dropped' \cup lost'
                                  \cup Range(batch') \cup Range(queue')
  BY <1>1, BatchWritten
<1>3. failed' \in BOOLEAN /\ (failed => failed')
  <2>1. failed' = failed \/ failed' = TRUE
    BY <1>1
  <2>2. failed \in BOOLEAN
    BY DEF LogInv, TrafficTypeOK
  <2>3. CASE failed' = failed
    BY <2>2, <2>3
  <2>4. CASE failed' = TRUE
    BY <2>4
  <2> QED
    BY <2>1, <2>3, <2>4
<1>4. TrafficTypeOK'
  BY <1>2, <1>3 DEF LogInv, TrafficTypeOK
<1>5. AccountInv'
  BY <1>2, <1>3 DEF LogInv, AccountInv
<1> QED
  BY <1>2, <1>4, <1>5 DEF LogInv

LEMMA SaveStep == LogInv /\ (Save \/ Flush) => LogInv'
<1> SUFFICES ASSUME LogInv, Save \/ Flush PROVE LogInv'
  OBVIOUS
<1>1. CASE Save
  <2>1. UNCHANGED <<second, requests, stopping, queue, dropped>> /\ batch' = <<>>
    BY <1>1 DEF Save, environment
  <2>2. CASE WriteAll /\ at' = "top"
    BY <2>1, <2>2, WriteStep
  <2>3. CASE WriteFails /\ at' = "drain"
    <3>1. failed'
      BY <2>3 DEF WriteFails
    <3> QED
      BY <2>1, <2>3, <3>1, WriteStep
  <2> QED
    BY <1>1, <2>2, <2>3 DEF Save
<1>2. CASE Flush
  <2>1. /\ UNCHANGED <<second, requests, stopping, queue, dropped>> /\ batch' = <<>>
        /\ at = "flush" /\ at' = "end"
    BY <1>2 DEF Flush, environment
  <2>2. CASE batch = <<>> /\ UNCHANGED <<storage, failed, lost>>
    <3>1. UNCHANGED <<files, current, size, miscounted, uncleaned, deleted, batch>> /\ Saved' = Saved
      BY <2>1, <2>2 DEF storage, Saved
    <3> QED
      BY <2>1, <2>2, <3>1 DEF LogInv, TrafficTypeOK, OrderInv, AccountInv
  <2>3. CASE WriteAll \/ WriteFails
    BY <2>1, <2>3, WriteStep
  <2> QED
    BY <1>2, <2>2, <2>3 DEF Flush
<1> QED
  BY <1>1, <1>2

LEMMA RestartStep == LogInv /\ Restart => LogInv'
<1> SUFFICES ASSUME LogInv, Restart PROVE LogInv'
  OBVIOUS
<1>1. /\ UNCHANGED <<second, requests, files, miscounted, uncleaned, dropped, deleted>>
      /\ lost' = lost \cup Range(queue) \cup Range(batch)
      /\ queue' = <<>> /\ batch' = <<>> /\ current' = second /\ size' = 0
      /\ at' = "init" /\ stopping' = FALSE /\ failed' = FALSE
  BY DEF Restart
<1>2. Saved' = Saved /\ queue' \in Seq(Entries) /\ batch' \in Seq(Entries) /\ Len(queue') = 0
  BY <1>1, Integral DEF Saved
<1>3. Range(queue') = {} /\ Range(batch') = {} /\ Ascending(queue') /\ Ascending(batch')
  BY <1>1, Nothing
<1>4. TrafficTypeOK'
  <2>1. Range(queue) \subseteq Entries /\ Range(batch) \subseteq Entries
    BY RangeIs DEF LogInv, TrafficTypeOK
  <2>2. lost' \subseteq Entries
    BY <1>1, <2>1 DEF LogInv, TrafficTypeOK
  <2>3. Len(queue') <= QueueCapacity /\ current' \in Seconds /\ size' \in Nat
    BY <1>1, <1>2, TrafficAssumption DEF LogInv, TrafficTypeOK
  <2> QED
    BY <1>1, <1>2, <2>2, <2>3 DEF LogInv, TrafficTypeOK
<1>5. Newest(files', current') /\ current' <= second'
  BY <1>1, Integral DEF Newest, LogInv, OrderInv, TrafficTypeOK
<1>6. OrderInv'
  BY <1>1, <1>2, <1>3, <1>5 DEF LogInv, OrderInv, Before
<1>7. AccountInv'
  BY <1>1, <1>2, <1>3 DEF LogInv, AccountInv
<1> QED
  BY <1>4, <1>6, <1>7 DEF LogInv

LEMMA LogInductive == Spec => []LogInv
<1>1. LogInv /\ [Next]_vars => LogInv'
  BY LogStep, InitializeStep, IdleSteps, ReadStep, SaveStep, RestartStep DEF Next, Execute
<1> QED
  BY <1>1, InitInv, PTL DEF Spec

--------------------------------------------------------------------------------
\* A file of n entries is as large as it may be, or it has one write.
Fits(n) == n <= MaxFileSize \/ n <= QueueCapacity \/ n <= BatchSize

\* The batch is one write of the loop, or what the full queue left at a stop.
BatchInv ==
  /\ at \in {"init", "top", "wait", "end"} => batch = <<>>
  /\ at \in {"read", "save"} => Len(batch) <= BatchSize
  /\ at \in {"drain", "flush"} => failed \/ (stopping /\ Len(batch) + Len(queue) <= QueueCapacity)

\* Until it fails the service knows the size of its file, if it has not come back to
\* it; and a file that does not exist yet has its place among the others.
FilesInv ==
  /\ at # "init" /\ ~failed /\ current \notin miscounted => size = Len(files[current])
  /\ \A s \in Seconds \ miscounted : Fits(Len(files[s]))
  /\ ~uncleaned => Cardinality(Existing(files)) <= MaxFileCount + 1
  /\ ~uncleaned /\ at # "init" /\ files[current] = <<>> => Cardinality(Existing(files)) <= MaxFileCount

SizesInv == BatchInv /\ FilesInv

\* Where no file is old, there are MaxFileCount files.
LEMMA CleanedFew ==
  ASSUME NEW fs, Old(fs) = {}
  PROVE  Cardinality(Existing(fs)) <= MaxFileCount
<1> DEFINE R == Existing(fs)
<1>1. IsFiniteSet(R) /\ Cardinality(R) \in Nat
  BY ExistingFinite
<1>2. CASE R = {}
  <2>1. Cardinality(R) = 0
    BY <1>2, FS_EmptySet
  <2> QED
    BY <2>1, TrafficAssumption
<1>3. CASE R # {}
  <2>1. PICK m \in R : \A s \in R : m <= s
    BY <1>3, ExistingFinite, Oldest
  <2> DEFINE T == {t \in R : t > m}
  <2>2. IsFiniteSet(T) /\ Cardinality(T) \in Nat
    BY ExistingFinite
  <2>3. Cardinality(T) < MaxFileCount
    <3>1. ~(Cardinality(T) >= MaxFileCount)
      BY DEF Old
    <3> HIDE DEF T
    <3> QED
      BY <2>2, <3>1, TrafficAssumption
  <2>4. ASSUME NEW s \in R PROVE s \in T \cup {m}
    <3>1. s \in Int /\ m \in Int /\ m <= s
      BY <2>1, Integral DEF Existing
    <3>2. s = m \/ s > m
      BY <3>1
    <3> QED
      BY <3>2
  <2> HIDE DEF R, T
  <2>5. /\ IsFiniteSet(T \cup {m})
        /\ \/ Cardinality(T \cup {m}) = Cardinality(T)
           \/ Cardinality(T \cup {m}) = Cardinality(T) + 1
    BY <2>2, FS_AddElement
  <2>6. Cardinality(R) <= Cardinality(T \cup {m})
    <3>1. R \in SUBSET (T \cup {m})
      BY <2>4
    <3> QED
      BY <2>5, <3>1, FS_Subset
  <2>7. Cardinality(R) <= MaxFileCount
    BY <1>1, <2>2, <2>3, <2>5, <2>6, TrafficAssumption
  <2> QED
    BY <2>7 DEF R
<1> QED
  BY <1>2, <1>3

\* A write makes its file longer ...
LEMMA Lengthened ==
  ASSUME NEW ks \in [Seconds -> Seq(Entries)], NEW name \in Seconds, NEW w \in Seq(Entries),
         NEW gs, Extends(gs, ks, name, w)
  PROVE  /\ Len(gs[name]) = Len(ks[name]) + Len(w)
         /\ \A s \in Seconds : s # name => gs[s] = ks[s]
         /\ gs[name] = <<>> => ks[name] = <<>>
<1>1. gs[name] = ks[name] \o w /\ \A s \in Seconds : s # name => gs[s] = ks[s]
  BY DEF Extends
<1>2. /\ Len(gs[name]) = Len(ks[name]) + Len(w)
      /\ Len(ks[name]) \in Nat /\ Len(w) \in Nat
      /\ ks[name] = <<>> <=> Len(ks[name]) = 0
  <2>1. ks[name] \in Seq(Entries)
    OBVIOUS
  <2> QED
    BY <1>1, <2>1, ConcatProperties, LenProperties, EmptySeq
<1>3. gs[name] = <<>> => ks[name] = <<>>
  <2>1. Len(<<>>) = 0
    OBVIOUS
  <2> QED
    BY <1>2, <2>1
<1> QED
  BY <1>1, <1>2, <1>3

\* ... and makes one file at most.
LEMMA Grown ==
  ASSUME NEW ks \in [Seconds -> Seq(Entries)], NEW name \in Seconds, NEW w \in Seq(Entries),
         NEW gs, Extends(gs, ks, name, w),
         Cardinality(Existing(ks)) <= MaxFileCount + 1,
         ks[name] = <<>> => Cardinality(Existing(ks)) <= MaxFileCount
  PROVE  /\ Cardinality(Existing(gs)) <= MaxFileCount + 1
         /\ gs[name] = <<>> => Cardinality(Existing(gs)) <= MaxFileCount
<1>1. /\ \A s \in Seconds : s # name => gs[s] = ks[s]
      /\ gs[name] = <<>> => ks[name] = <<>>
  BY Lengthened
<1>2. IsFiniteSet(Existing(ks)) /\ Cardinality(Existing(ks)) \in Nat /\ IsFiniteSet(Existing(gs))
  BY ExistingFinite
<1>3. CASE gs[name] = <<>> \/ ks[name] # <<>>
  <2>1. Existing(gs) = Existing(ks)
    BY <1>1, <1>3 DEF Existing
  <2> QED
    BY <1>1, <2>1
<1>4. CASE gs[name] # <<>> /\ ks[name] = <<>>
  <2>1. Existing(gs) = Existing(ks) \cup {name} /\ name \notin Existing(ks)
    BY <1>1, <1>4 DEF Existing
  <2>2. Cardinality(Existing(gs)) = Cardinality(Existing(ks)) + 1
    BY <1>2, <2>1, FS_AddElement
  <2> QED
    BY <1>2, <1>4, <2>2, TrafficAssumption
<1> QED
  BY <1>3, <1>4

\* A batch that is written, or the first n entries of it, into the same file or the
\* next.
LEMMA BatchSizes ==
  ASSUME LogInv, SizesInv, at \in {"save", "flush"},
         NEW n \in 0..Len(batch), AppendEntries(batch, n),
         (n = Len(batch) /\ failed' = failed) \/ failed'
  PROVE  /\ ~failed' /\ current' \notin miscounted' => size' = Len(files'[current'])
         /\ \A s \in Seconds \ miscounted' : Fits(Len(files'[s]))
         /\ ~uncleaned' => Cardinality(Existing(files')) <= MaxFileCount + 1
         /\ ~uncleaned' /\ files'[current'] = <<>> => Cardinality(Existing(files')) <= MaxFileCount
<1> DEFINE name == IF Rollover(batch) THEN second ELSE current
           w    == SubSeq(batch, 1, n)
<1>1. PICK kept \in IF Rollover(batch) THEN Cleaned(files) ELSE {files} :
        /\ Extends(files', kept, name, w) /\ current' = name
        /\ size' = IF n = Len(batch) THEN (IF Rollover(batch) THEN 0 ELSE size) + n
                                     ELSE (IF Rollover(batch) THEN 0 ELSE size)
        /\ uncleaned' = IF Rollover(batch) THEN Old(kept) # {} ELSE uncleaned
  BY DEF AppendEntries, Extends
<1>2. miscounted' = IF failed \/ (Rollover(batch) /\ name = current) THEN miscounted \cup {name}
                                                                     ELSE miscounted
  BY DEF AppendEntries
<1>3. /\ batch \in Seq(Entries) /\ Len(batch) \in Nat /\ n <= Len(batch) /\ n \in Nat
      /\ files \in [Seconds -> Seq(Entries)] /\ current \in Seconds /\ second \in Seconds
      /\ name \in Seconds /\ size \in Nat /\ FilesInv
  BY LenProperties DEF LogInv, TrafficTypeOK, SizesInv
<1>4. w \in Seq(Entries) /\ Len(w) = n
  BY <1>3, Split
<1>5. /\ kept \in [Seconds -> Seq(Entries)]
      /\ \A s \in Seconds : kept[s] = files[s] \/ kept[s] = <<>>
  <2>1. CASE Rollover(batch)
    <3>1. kept \in Cleaned(files)
      BY <2>1
    <3> QED
      BY <1>3, <3>1, CleanedKeeps DEF Keeps
  <2>2. CASE ~Rollover(batch)
    BY <1>3, <2>2
  <2> QED
    BY <2>1, <2>2
<1>6. /\ Len(files'[name]) = Len(kept[name]) + n
      /\ \A s \in Seconds : s # name => files'[s] = kept[s]
  <2>1. name \in Seconds /\ Extends(files', kept, name, w)
    BY <1>1, <1>3
  <2>2. w \in Seq(Entries) /\ Len(w) = n
    BY <1>4
  <2> HIDE DEF name, w
  <2>3. /\ Len(files'[name]) = Len(kept[name]) + Len(w)
        /\ \A s \in Seconds : s # name => files'[s] = kept[s]
    BY <1>5, <2>1, <2>2, Lengthened
  <2> QED
    BY <2>2, <2>3
\* (unless the storage has failed, or comes back, the service knows the size)
<1>7. ASSUME name \notin miscounted'
      PROVE  IF Rollover(batch) THEN Len(files'[name]) = n ELSE Len(files'[name]) = size + n
  <2>1. CASE Rollover(batch)
    <3>1. name = second /\ second # current
      BY <1>2, <1>7, <2>1
    <3>2. current < second
      BY <1>3, <3>1, Integral DEF LogInv, OrderInv
    <3>3. files[second] = <<>>
      BY <1>3, <3>2, Integral DEF LogInv, OrderInv, Newest
    <3>4. kept[second] = <<>> /\ Len(<<>>) = 0
      BY <1>3, <1>5, <3>3
    <3> QED
      BY <1>3, <1>6, <2>1, <3>1, <3>4
  <2>2. CASE ~Rollover(batch)
    <3>1. name = current /\ ~failed /\ current \notin miscounted /\ kept = files
      BY <1>2, <1>7, <2>2
    <3>2. size = Len(files[current])
      BY <1>3, <3>1 DEF FilesInv
    <3> QED
      BY <1>6, <2>2, <3>1, <3>2
  <2> QED
    BY <2>1, <2>2
<1>8. ASSUME ~failed', current' \notin miscounted' PROVE size' = Len(files'[current'])
  <2>1. n = Len(batch) /\ name \notin miscounted'
    BY <1>1, <1>8
  <2> QED
    BY <1>1, <1>3, <1>7, <2>1
<1>9. ASSUME NEW s \in Seconds \ miscounted' PROVE Fits(Len(files'[s]))
  <2>1. s \notin miscounted
    BY <1>2
  <2>2. CASE s # name
    <3>1. Fits(0) /\ Len(<<>>) = 0
      BY TrafficAssumption DEF Fits
    <3>2. Fits(Len(files[s]))
      BY <1>3, <2>1 DEF FilesInv
    <3> QED
      BY <1>5, <1>6, <2>2, <3>1, <3>2
  <2>3. CASE s = name /\ Rollover(batch)
    <3>1. Len(files'[s]) = n /\ ~failed
      BY <1>2, <1>7, <2>3
    <3>2. Len(queue) \in Nat
      BY LenProperties DEF LogInv, TrafficTypeOK
    <3>3. Len(batch) <= BatchSize \/ Len(batch) + Len(queue) <= QueueCapacity
      BY <3>1 DEF SizesInv, BatchInv
    <3> QED
      BY <1>3, <3>1, <3>2, <3>3, TrafficAssumption DEF Fits
  <2>4. CASE s = name /\ ~Rollover(batch)
    <3>1. Len(files'[s]) = size + n
      BY <1>7, <2>4
    <3> QED
      BY <1>3, <2>4, <3>1, TrafficAssumption DEF Fits, Rollover
  <2> QED
    BY <2>2, <2>3, <2>4
<1>10. ASSUME ~uncleaned'
       PROVE  /\ Cardinality(Existing(files')) <= MaxFileCount + 1
              /\ files'[current'] = <<>> => Cardinality(Existing(files')) <= MaxFileCount
  <2>1. CASE Rollover(batch)
    <3>1. Cardinality(Existing(kept)) <= MaxFileCount /\ Cardinality(Existing(kept)) \in Nat
      BY <1>1, <1>10, <2>1, CleanedFew, ExistingFinite
    <3>2. Cardinality(Existing(kept)) <= MaxFileCount + 1
      BY <3>1, TrafficAssumption
    <3> QED
      BY <1>1, <1>3, <1>4, <1>5, <3>1, <3>2, Grown
  <2>2. CASE ~Rollover(batch)
    <3>1. kept = files /\ ~uncleaned /\ name = current /\ at # "init"
      BY <1>1, <1>10, <2>2
    <3>2. /\ Cardinality(Existing(kept)) <= MaxFileCount + 1
          /\ kept[name] = <<>> => Cardinality(Existing(kept)) <= MaxFileCount
      BY <1>3, <3>1 DEF FilesInv
    <3> QED
      BY <1>1, <1>3, <1>4, <1>5, <3>2, Grown
  <2> QED
    BY <2>1, <2>2
<1> QED
  BY <1>8, <1>9, <1>10

LEMMA InitSizes == Init => SizesInv
<1> SUFFICES ASSUME Init PROVE BatchInv /\ FilesInv
  BY DEF SizesInv
<1>1. BatchInv
  BY DEF Init, BatchInv
<1>2. \A s \in Seconds : files[s] = <<>> /\ Len(files[s]) = 0
  BY DEF Init
<1>3. Existing(files) = {}
  BY <1>2 DEF Existing
<1>4. Cardinality(Existing(files)) = 0
  BY <1>3, FS_EmptySet
<1> QED
  BY <1>1, <1>2, <1>4, TrafficAssumption DEF Init, FilesInv, Fits

\* The steps that write no file.
LEMMA BatchSteps ==
  ASSUME LogInv, LogInv', SizesInv, Log \/ Top \/ Read \/ Wait \/ Drain \/ Stop \/ Tick \/ UNCHANGED vars
  PROVE  SizesInv'
<1> SUFFICES BatchInv' /\ FilesInv'
  BY DEF SizesInv
<1>1. /\ UNCHANGED <<files, current, size, miscounted, uncleaned, failed>>
      /\ at' = "init" <=> at = "init"
  BY DEF Log, Top, Read, Wait, Drain, Stop, Tick, vars, storage
<1>2. BatchInv /\ FilesInv
  BY DEF SizesInv
<1>3. FilesInv'
  BY <1>1, <1>2 DEF FilesInv
<1>4. /\ queue \in Seq(Entries) /\ batch \in Seq(Entries)
      /\ Len(queue) \in Nat /\ Len(batch) \in Nat /\ Len(queue) <= QueueCapacity
      /\ Len(<<>>) = 0
  BY LenProperties DEF LogInv, TrafficTypeOK
<1>5. BatchInv'
  <2>1. CASE Log
    <3>1. UNCHANGED <<batch, at>> /\ ~stopping
      BY <2>1 DEF Log
    <3> QED
      BY <1>1, <1>2, <3>1 DEF BatchInv
  <2>2. CASE Top \/ Wait
    <3>1. UNCHANGED <<batch, queue, stopping>> /\ batch = <<>>
      BY <1>2, <2>2 DEF Top, Wait, environment, BatchInv
    <3>2. \/ at' = "drain" /\ stopping
          \/ at' \in {"read", "top"}
      BY <2>2 DEF Top, Wait
    <3> QED
      BY <1>4, <3>1, <3>2, TrafficAssumption DEF BatchInv
  <2>3. CASE Read
    <3>1. at = "read" /\ UNCHANGED stopping
      BY <2>3 DEF Read, environment
    <3>2. CASE Len(batch) < BatchSize /\ queue # <<>>
      <4>1. batch' = Append(batch, Head(queue)) /\ at' = "read"
        BY <2>3, <3>1, <3>2 DEF Read
      <4>2. Len(batch') = Len(batch) + 1
        BY <1>4, <3>2, <4>1, Beheaded, Appended
      <4> QED
        BY <1>4, <3>2, <4>1, <4>2, TrafficAssumption DEF BatchInv
    <3>3. CASE ~(Len(batch) < BatchSize /\ queue # <<>>)
      <4>1. at' = (IF batch = <<>> THEN "wait" ELSE "save") /\ UNCHANGED batch
        BY <2>3, <3>3 DEF Read
      <4> QED
        BY <1>1, <1>2, <3>1, <4>1 DEF BatchInv
    <3> QED
      BY <3>2, <3>3
  <2>4. CASE Drain
    <3>1. at = "drain" /\ UNCHANGED stopping
      BY <2>4 DEF Drain, environment
    <3>2. CASE queue # <<>>
      <4>1. batch' = Append(batch, Head(queue)) /\ queue' = Tail(queue) /\ at' = "drain"
        BY <2>4, <3>1, <3>2 DEF Drain
      <4>2. Len(batch') = Len(batch) + 1 /\ Len(queue') = Len(queue) - 1
        BY <1>4, <3>2, <4>1, Beheaded, Appended
      <4>3. Len(batch') + Len(queue') = Len(batch) + Len(queue)
        BY <1>4, <4>2
      <4> QED
        BY <1>1, <1>2, <3>1, <4>1, <4>3 DEF BatchInv
    <3>3. CASE ~(queue # <<>>)
      <4>1. at' = "flush" /\ UNCHANGED <<batch, queue>>
        BY <2>4, <3>3 DEF Drain
      <4> QED
        BY <1>1, <1>2, <3>1, <4>1 DEF BatchInv
    <3> QED
      BY <3>2, <3>3
  <2>5. CASE Stop \/ Tick \/ UNCHANGED vars
    <3>1. UNCHANGED <<batch, queue, at>> /\ (stopping => stopping')
      BY <2>5 DEF Stop, Tick, vars
    <3> QED
      BY <1>1, <1>2, <3>1 DEF BatchInv
  <2> QED
    BY <2>1, <2>2, <2>3, <2>4, <2>5
<1> QED
  BY <1>3, <1>5

LEMMA InitializeSizes ==
  ASSUME LogInv, SizesInv, Initialize
  PROVE  SizesInv'
<1> SUFFICES BatchInv' /\ FilesInv'
  BY DEF SizesInv
<1>1. UNCHANGED <<batch, current, miscounted>> /\ at = "init" /\ BatchInv /\ FilesInv
  BY DEF Initialize, SizesInv
<1>2. CASE /\ files' \in Cleaned(files) /\ uncleaned' = (Old(files') # {})
           /\ size' = Len(files[current]) /\ at' = "top"
  <2>1. BatchInv'
    BY <1>1, <1>2 DEF BatchInv
  <2>2. /\ files \in [Seconds -> Seq(Entries)] /\ current \in Seconds
        /\ \A s \in Seconds : files'[s] = files[s] \/ files'[s] = <<>>
        /\ \A s \in Seconds : s \notin Old(files) => files'[s] = files[s]
    BY <1>2, CleanedKeeps DEF LogInv, TrafficTypeOK, Keeps
  <2>3. ASSUME ~uncleaned'
        PROVE  /\ Cardinality(Existing(files')) <= MaxFileCount
               /\ Cardinality(Existing(files')) <= MaxFileCount + 1
    <3>1. Cardinality(Existing(files')) <= MaxFileCount /\ Cardinality(Existing(files')) \in Nat
      BY <1>2, <2>3, CleanedFew, ExistingFinite
    <3> QED
      BY <3>1, TrafficAssumption
  <2>4. \A s \in Seconds \ miscounted' : Fits(Len(files'[s]))
    <3>1. Fits(0) /\ Len(<<>>) = 0
      BY TrafficAssumption DEF Fits
    <3> QED
      BY <1>1, <2>2, <3>1 DEF FilesInv
  <2>5. size' = Len(files'[current'])
    \* (no file is newer, so it is none of the old ones)
    <3> DEFINE T == {t \in Existing(files) : t > current}
    <3>1. T = {}
      BY <2>2, Integral DEF Existing, LogInv, OrderInv, Newest
    <3>2. Cardinality(T) = 0
      BY <3>1, FS_EmptySet
    <3>3. current \notin Old(files)
      BY <3>2, TrafficAssumption DEF Old
    <3> QED
      BY <1>1, <1>2, <2>2, <3>3
  <2> QED
    BY <2>1, <2>3, <2>4, <2>5 DEF FilesInv
<1>3. CASE /\ at' = "drain" /\ failed' = TRUE /\ uncleaned' = TRUE
           /\ UNCHANGED files
  BY <1>1, <1>3 DEF BatchInv, FilesInv
<1> QED
  BY <1>2, <1>3 DEF Initialize

LEMMA SaveSizes ==
  ASSUME LogInv, SizesInv, Save \/ Flush
  PROVE  SizesInv'
<1> SUFFICES BatchInv' /\ FilesInv'
  BY DEF SizesInv
<1>1. at \in {"save", "flush"} /\ batch' = <<>> /\ at' # "init"
  BY DEF Save, Flush
<1>2. Len(batch) \in Nat
  BY LenProperties DEF LogInv, TrafficTypeOK
<1>3. at' = "drain" => failed'
  BY DEF Save, Flush, WriteFails
<1>4. BatchInv'
  BY <1>1, <1>3 DEF BatchInv, Save, Flush
<1>5. CASE WriteAll
  <2>1. AppendEntries(batch, Len(batch)) /\ failed' = failed /\ Len(batch) \in 0..Len(batch)
    BY <1>2, <1>5 DEF WriteAll
  <2> QED
    BY <1>1, <1>4, <2>1, BatchSizes DEF FilesInv
<1>6. CASE WriteFails
  <2>1. PICK n \in 0..Len(batch) - 1 : AppendEntries(batch, n) /\ failed' = TRUE
    BY <1>6 DEF WriteFails
  <2>2. n \in 0..Len(batch)
    BY <1>2
  <2> QED
    BY <1>1, <1>4, <2>1, <2>2, BatchSizes DEF FilesInv
<1>7. CASE UNCHANGED <<storage, failed>>
  <2>1. UNCHANGED <<files, current, size, miscounted, uncleaned, failed>>
    BY <1>7 DEF storage
  <2>2. FilesInv /\ at # "init"
    BY <1>1 DEF SizesInv
  <2> QED
    BY <1>1, <1>4, <2>1, <2>2 DEF FilesInv
<1>8. WriteAll \/ WriteFails \/ UNCHANGED <<storage, failed>>
  BY DEF Save, Flush
<1> QED
  BY <1>5, <1>6, <1>7, <1>8

LEMMA RestartSizes ==
  ASSUME SizesInv, Restart
  PROVE  SizesInv'
<1>1. UNCHANGED <<files, miscounted, uncleaned>> /\ at' = "init" /\ batch' = <<>>
  BY DEF Restart
<1> QED
  BY <1>1 DEF SizesInv, BatchInv, FilesInv

LEMMA SizesInductive == Spec => []SizesInv
<1>1. LogInv /\ LogInv' /\ SizesInv /\ [Next]_vars => SizesInv'
  BY BatchSteps, InitializeSizes, SaveSizes, RestartSizes DEF Next, Execute
<1> QED
  BY <1>1, InitSizes, LogInductive, PTL DEF Spec

--------------------------------------------------------------------------------
\* The places of an entry, from the sets of the entries in each place.
At(e, q, b, f, d, m) ==
  {p \in {"queue", "batch", "file", "deleted", "missed"} :
     \/ p = "queue" /\ e \in q
     \/ p = "batch" /\ e \in b
     \/ p = "file" /\ e \in f
     \/ p = "deleted" /\ e \in d
     \/ p = "missed" /\ e \in m}

Apart(q, b, f, d, m) ==
  /\ q \cap b = {} /\ q \cap f = {} /\ q \cap d = {} /\ q \cap m = {}
  /\ b \cap f = {} /\ b \cap d = {} /\ b \cap m = {}
  /\ f \cap d = {} /\ f \cap m = {} /\ d \cap m = {}

\* An entry is in one place, and its places say which.
LEMMA AtIs ==
  ASSUME NEW q, NEW b, NEW f, NEW d, NEW m, Apart(q, b, f, d, m), NEW e
  PROVE  /\ At(e, q, b, f, d, m) = {"queue"} <=> e \in q
         /\ At(e, q, b, f, d, m) = {"batch"} <=> e \in b
         /\ At(e, q, b, f, d, m) = {"file"} <=> e \in f
         /\ At(e, q, b, f, d, m) = {"deleted"} <=> e \in d
         /\ At(e, q, b, f, d, m) = {"missed"} <=> e \in m
         /\ At(e, q, b, f, d, m) = {} <=> e \notin q \cup b \cup f \cup d \cup m
<1> DEFINE A == At(e, q, b, f, d, m)
<1>1. /\ "queue" \in A <=> e \in q
      /\ "batch" \in A <=> e \in b
      /\ "file" \in A <=> e \in f
      /\ "deleted" \in A <=> e \in d
      /\ "missed" \in A <=> e \in m
      /\ A \subseteq {"queue", "batch", "file", "deleted", "missed"}
  BY DEF At
<1> HIDE DEF A
<1> QED
  BY <1>1 DEF Apart, A

Missed == dropped \cup lost

\* What was missed is nowhere else.
MissedInv ==
  /\ Missed \cap (Range(queue) \cup Range(batch) \cup Saved \cup deleted) = {}
  /\ \A e \in Missed : e <= requests

\* A step that takes entries from each place in order, and to the next or to none.
FlowStep ==
  /\ requests <= requests'
  /\ \A e \in Range(queue') \ Range(queue) : e > requests
  /\ Range(batch') \ Range(batch) \subseteq Range(queue)
  /\ Saved' \ Saved \subseteq Range(batch)
  /\ deleted \subseteq deleted' /\ deleted' \ deleted \subseteq Saved
  /\ Missed \subseteq Missed' /\ Missed' \ Missed \subseteq Range(queue) \cup Range(batch)
  /\ (Missed' \ Missed) \cap (Range(queue') \cup Range(batch') \cup Saved') = {}
  /\ Before(Range(queue) \ Range(queue'), Range(queue'))
  /\ Before(Range(batch) \ Range(batch'), Range(batch) \cap Range(batch'))
  /\ \A d \in deleted' \ deleted : \E e \in Saved' : d < e

PlacesInv ==
  /\ Apart(Range(queue), Range(batch), Saved, deleted, Missed)
  /\ Range(queue) \cup Range(batch) \cup Saved \cup deleted \cup Missed = 1..requests
  /\ 1..requests \subseteq Entries /\ requests \in Nat

LEMMA PlacesApart == LogInv /\ MissedInv => PlacesInv
<1> SUFFICES ASSUME LogInv, MissedInv PROVE PlacesInv
  OBVIOUS
<1>1. /\ Range(queue) \subseteq Entries /\ Range(batch) \subseteq Entries
      /\ Saved \subseteq Entries /\ deleted \subseteq Entries /\ Missed \subseteq Entries
  BY RangeIs DEF LogInv, TrafficTypeOK, Saved, Contents, Missed
<1>2. requests \in Nat /\ 1..requests \subseteq Entries
  BY TrafficAssumption DEF LogInv, TrafficTypeOK, Entries
<1>3. \A e \in Range(queue) \cup Range(batch) \cup Saved \cup deleted \cup Missed : e \in 1..requests
  <2>1. \A e \in Entries : e \in Int /\ e >= 1
    BY DEF Entries
  <2>2. \A e \in Range(queue) \cup Range(batch) \cup Saved \cup deleted \cup Missed :
          e \in Entries /\ e <= requests
    BY <1>1 DEF LogInv, OrderInv, MissedInv
  <2> QED
    BY <1>2, <2>1, <2>2
<1>4. 1..requests \subseteq Range(queue) \cup Range(batch) \cup Saved \cup deleted \cup Missed
  BY DEF LogInv, AccountInv, Missed
<1>5. Apart(Range(queue), Range(batch), Saved, deleted, Missed)
  <2>1. \A S, T \in SUBSET Entries : Before(S, T) => S \cap T = {}
    BY Integral DEF Before
  <2>2. /\ Before(Saved \cup deleted, Range(batch) \cup Range(queue))
        /\ Before(Range(batch), Range(queue)) /\ deleted \cap Saved = {}
    BY DEF LogInv, OrderInv, FilesInOrder, Saved
  <2>3. /\ (Saved \cup deleted) \cap (Range(batch) \cup Range(queue)) = {}
        /\ Range(batch) \cap Range(queue) = {} /\ deleted \cap Saved = {}
    BY <1>1, <2>1, <2>2
  <2> QED
    BY <2>3 DEF Apart, MissedInv
<1> QED
  BY <1>2, <1>3, <1>4, <1>5 DEF PlacesInv

LEMMA PlacesApartNext == (LogInv /\ MissedInv => PlacesInv)'
BY PlacesApart, PTL

LEMMA FlowMissed ==
  ASSUME LogInv, LogInv', MissedInv, FlowStep
  PROVE  MissedInv'
<1>1. /\ Range(queue) \subseteq Entries /\ Range(batch) \subseteq Entries
      /\ Missed \subseteq Entries /\ requests \in Int /\ requests' \in Int
      /\ \A e \in Range(queue) \cup Range(batch) \cup Missed : e <= requests
  BY RangeIs DEF LogInv, TrafficTypeOK, OrderInv, Missed, MissedInv
<1>2. \A e \in Missed' : e \in Missed \/ e \in Range(queue) \cup Range(batch)
  BY DEF FlowStep
<1>3. \A e \in Missed' : e \in Entries /\ e <= requests
  BY <1>1, <1>2
<1>4. \A e \in Missed' : e <= requests'
  <2>1. requests <= requests'
    BY DEF FlowStep
  <2>2. ASSUME NEW e \in Missed' PROVE e <= requests'
    <3>1. e \in Int /\ e <= requests
      BY <1>3, Integral
    <3> QED
      BY <1>1, <2>1, <3>1
  <2> QED
    BY <2>2
<1>5. Missed' \cap Range(queue') = {}
  <2>1. \A e \in Range(queue') \ Range(queue) : e > requests
    BY DEF FlowStep
  <2>2. ASSUME NEW e \in Missed' PROVE ~(e > requests)
    <3>1. e \in Int /\ e <= requests
      BY <1>3, Integral
    <3> QED
      BY <1>1, <3>1
  <2> QED
    BY <2>1, <2>2 DEF FlowStep, MissedInv
<1>6. Missed' \cap (Range(batch') \cup Saved') = {}
  BY DEF FlowStep, MissedInv
<1>7. Missed' \cap deleted' = {}
  <2>1. Apart(Range(queue), Range(batch), Saved, deleted, Missed)
    BY PlacesApart DEF PlacesInv
  <2> QED
    BY <2>1 DEF FlowStep, Apart
<1> QED
  BY <1>4, <1>5, <1>6, <1>7 DEF MissedInv

LEMMA FlowMoves ==
  ASSUME LogInv, LogInv', MissedInv, MissedInv', FlowStep
  PROVE  Entry!Next
<1> DEFINE from == Place
           to == Place'
           moving == {e \in Entries : to[e] # from[e]}
           q == Range(queue)
           b == Range(batch)
           known == 1..requests
<1>1. /\ Apart(q, b, Saved, deleted, Missed)
      /\ q \cup b \cup Saved \cup deleted \cup Missed = known
      /\ known \subseteq Entries /\ requests \in Nat
  BY PlacesApart DEF PlacesInv
<1>2. /\ Apart(q', b', Saved', deleted', Missed')
      /\ q' \cup b' \cup Saved' \cup deleted' \cup Missed' = known'
      /\ known' \subseteq Entries /\ requests' \in Nat
  BY PlacesApartNext DEF PlacesInv
<1>3. /\ from = [e \in Entries |-> At(e, q, b, Saved, deleted, Missed)]
      /\ to = [e \in Entries |-> At(e, q', b', Saved', deleted', Missed')]
  BY DEF Place, At, Missed
<1>4. ASSUME NEW e \in Entries
      PROVE  /\ from[e] = {"queue"} <=> e \in q
             /\ from[e] = {"batch"} <=> e \in b
             /\ from[e] = {"file"} <=> e \in Saved
             /\ from[e] = {"deleted"} <=> e \in deleted
             /\ from[e] = {"missed"} <=> e \in Missed
             /\ from[e] = {} <=> e \notin known
  <2>1. from[e] = At(e, q, b, Saved, deleted, Missed)
    BY <1>3
  <2> HIDE DEF from, q, b, known
  <2> QED
    BY <1>1, <2>1, AtIs
<1>5. ASSUME NEW e \in Entries
      PROVE  /\ to[e] = {"queue"} <=> e \in q'
             /\ to[e] = {"batch"} <=> e \in b'
             /\ to[e] = {"file"} <=> e \in Saved'
             /\ to[e] = {"deleted"} <=> e \in deleted'
             /\ to[e] = {"missed"} <=> e \in Missed'
             /\ to[e] = {} <=> e \notin known'
  <2>1. to[e] = At(e, q', b', Saved', deleted', Missed')
    BY <1>3
  <2> DEFINE q1 == q'
             b1 == b'
             k1 == known'
             t == to[e]
  <2>2. Apart(q1, b1, Saved', deleted', Missed') /\ t = At(e, q1, b1, Saved', deleted', Missed')
        /\ q1 \cup b1 \cup Saved' \cup deleted' \cup Missed' = k1
    BY <1>2, <2>1
  <2>3. /\ t = {"queue"} <=> e \in q1
        /\ t = {"batch"} <=> e \in b1
        /\ t = {"file"} <=> e \in Saved'
        /\ t = {"deleted"} <=> e \in deleted'
        /\ t = {"missed"} <=> e \in Missed'
        /\ t = {} <=> e \notin k1
    <3> HIDE DEF q1, b1, k1, t
    <3> QED
      BY <2>2, AtIs
  <2> QED
    BY <2>3
<1> HIDE DEF from, to, q, b, known
<1>6. to = [e \in Entries |-> to[e]]
  BY <1>3
<1>7. /\ \A e \in q' \ q : e \notin known
      /\ b' \ b \subseteq q
      /\ Saved' \ Saved \subseteq b
      /\ deleted \subseteq deleted' /\ deleted' \ deleted \subseteq Saved
      /\ Missed \subseteq Missed' /\ Missed' \ Missed \subseteq q \cup b
      /\ known \subseteq known'
      /\ \A d \in known' \ known, e \in Entries \ known' : d < e
  <2>1. requests \in Int /\ requests' \in Int /\ requests <= requests'
    BY <1>1, <1>2 DEF FlowStep
  <2>2. \A e \in q' \ q : e \notin known
    BY <2>1 DEF FlowStep, q, known
  <2>3. known \subseteq known'
    BY <2>1 DEF known
  <2>4. \A d \in known' \ known, e \in Entries \ known' : d < e
    BY <2>1 DEF known, Entries
  <2> QED
    BY <2>2, <2>3, <2>4 DEF FlowStep, q, b
<1>8. ASSUME NEW e \in moving PROVE <<from[e], to[e]>> \in Entry!Ways
  <2>1. e \in Entries /\ to[e] # from[e]
    OBVIOUS
  <2> HIDE DEF moving
  <2>2. CASE e \in q
    <3>1. e \in b' \/ e \in Missed'
      BY <1>1, <1>2, <1>4, <1>5, <1>7, <2>1, <2>2 DEF Apart
    <3> QED
      BY <1>4, <1>5, <2>1, <2>2, <3>1 DEF Entry!Ways
  <2>3. CASE e \in b
    <3>1. e \in Saved' \/ e \in Missed'
      BY <1>1, <1>2, <1>4, <1>5, <1>7, <2>1, <2>3 DEF Apart
    <3> QED
      BY <1>4, <1>5, <2>1, <2>3, <3>1 DEF Entry!Ways
  <2>4. CASE e \in Saved
    <3>1. e \in deleted'
      BY <1>1, <1>2, <1>4, <1>5, <1>7, <2>1, <2>4 DEF Apart
    <3> QED
      BY <1>4, <1>5, <2>1, <2>4, <3>1 DEF Entry!Ways
  <2>5. e \notin deleted /\ e \notin Missed
    BY <1>4, <1>5, <1>7, <2>1
  <2>6. CASE e \notin known
    <3>1. e \in q'
      BY <1>1, <1>2, <1>4, <1>5, <1>7, <2>1, <2>6
    <3> QED
      BY <1>4, <1>5, <2>1, <2>6, <3>1 DEF Entry!Ways
  <2> QED
    BY <1>1, <2>2, <2>3, <2>4, <2>5, <2>6
<1>9. ASSUME NEW d \in moving, NEW e \in Entries \ moving, from[d] = from[e], to[d] # {"deleted"}
      PROVE  d < e
  <2>1. d \in Entries /\ e \in Entries /\ to[d] # from[d] /\ to[e] = from[e]
    OBVIOUS
  <2> HIDE DEF moving
  <2>2. CASE d \in q
    <3>1. d \notin q' /\ e \in q'
      BY <1>4, <1>5, <1>9, <2>1, <2>2
    <3> QED
      BY <2>2, <3>1 DEF FlowStep, Before, q
  <2>3. CASE d \in b
    <3>1. d \notin b' /\ e \in b' /\ e \in b
      BY <1>4, <1>5, <1>9, <2>1, <2>3
    <3> QED
      BY <2>3, <3>1 DEF FlowStep, Before, b
  <2>4. CASE d \in Saved
    <3>1. d \in deleted'
      BY <1>1, <1>2, <1>4, <1>5, <1>7, <2>1, <2>4 DEF Apart
    <3> QED
      BY <1>5, <1>9, <2>1, <3>1
  <2>5. d \notin deleted /\ d \notin Missed
    BY <1>4, <1>5, <1>7, <2>1
  <2>6. CASE d \notin known
    <3>1. d \in known' /\ e \notin known'
      BY <1>4, <1>5, <1>9, <2>1, <2>6
    <3> QED
      BY <1>7, <2>1, <2>6, <3>1
  <2> QED
    BY <1>1, <2>2, <2>3, <2>4, <2>5, <2>6
<1>10. ASSUME NEW d \in Entries, NEW e \in moving,
              to[e] = {"file"}, from[d] \in {{"file"}, {"deleted"}}
       PROVE  d < e
  <2>1. e \in Saved' \ Saved /\ d \in Saved \cup deleted
    BY <1>4, <1>5, <1>10
  <2>2. e \in Range(batch)
    BY <1>7, <2>1 DEF b
  <2> QED
    BY <2>1, <2>2 DEF LogInv, OrderInv, Before
<1>11. ASSUME NEW d \in moving, to[d] = {"deleted"}
       PROVE  \E e \in Entries : to[e] = {"file"} /\ d < e
  <2>1. d \in deleted' /\ d \notin deleted
    BY <1>4, <1>5, <1>11
  <2>2. PICK e \in Saved' : d < e
    BY <2>1 DEF FlowStep
  <2>3. e \in Entries
    BY <1>2
  <2> QED
    BY <1>5, <2>2, <2>3
<1>12. /\ to = [e \in Entries |-> to[e]]
       /\ \A e \in moving : <<from[e], to[e]>> \in Entry!Ways
       /\ \A d \in moving, e \in Entries \ moving :
            from[d] = from[e] /\ to[d] # {"deleted"} => d < e
       /\ \A d \in Entries, e \in moving :
            to[e] = {"file"} /\ from[d] \in {{"file"}, {"deleted"}} => d < e
       /\ \A d \in moving : to[d] = {"deleted"} => \E e \in Entries : to[e] = {"file"} /\ d < e
  BY <1>6, <1>8, <1>9, <1>10, <1>11
<1> QED
  BY <1>12 DEF Entry!Next, from, to

\* The steps that touch no entry.
LEMMA IdleFlow ==
  ASSUME LogInv, UNCHANGED <<requests, queue, batch, files, deleted, dropped, lost>>
  PROVE  FlowStep
<1>1. requests <= requests' /\ Saved' = Saved /\ Missed' = Missed
  BY DEF LogInv, TrafficTypeOK, Saved, Missed
<1> QED
  BY <1>1 DEF FlowStep, Before

LEMMA LogFlow ==
  ASSUME LogInv, MissedInv, Log
  PROVE  FlowStep
<1> DEFINE e == requests + 1
           all == Append(queue, e)
<1>1. /\ e \in Entries /\ requests' = e /\ requests \in Nat
      /\ queue \in Seq(Entries) /\ Len(queue) \in Nat
      /\ UNCHANGED <<batch, files, deleted, lost>> /\ Saved' = Saved
  BY LenProperties, TrafficAssumption DEF Log, LogInv, TrafficTypeOK, Entries, storage, Saved
<1>2. PlacesInv
  BY PlacesApart
<1>3. /\ \A x \in Range(queue) : x <= requests /\ x \in Int
      /\ Before(Range(queue), {e})
  BY <1>1, <1>2 DEF PlacesInv, Before
<1>4. /\ all \in Seq(Entries) /\ Len(all) = Len(queue) + 1 /\ all # <<>>
      /\ Range(all) = Range(queue) \cup {e} /\ Ascending(all)
  BY <1>1, <1>3, Appended DEF LogInv, OrderInv
<1>5. CASE Len(all) > QueueCapacity
  <2> DEFINE h == Head(all)
  <2>1. queue' = Tail(all) /\ dropped' = dropped \cup {h}
    BY <1>5 DEF Log
  <2>2. h \in Range(queue)
    <3>1. 1 \in 1..Len(queue)
      BY <1>1, <1>4, <1>5, TrafficAssumption
    <3>2. all[1] = queue[1] /\ h = all[1]
      BY <1>1, <3>1, AppendProperties
    <3> QED
      BY <1>1, <3>1, <3>2, RangeIs
  <2>3. Range(all) = {h} \cup Range(queue') /\ Before({h}, Range(queue'))
    <3> HIDE DEF all
    <3> QED
      BY <1>4, <2>1, Beheaded
  <2> HIDE DEF h, all
  <2>4. Missed' = Missed \cup {h}
    BY <1>1, <2>1 DEF Missed
  <2>5. h \notin Range(queue') /\ h \notin Range(batch) /\ h \notin Saved
    BY <1>2, <1>3, <2>2, <2>3 DEF Before, PlacesInv, Apart
  <2>6. \A x \in Range(queue') \ Range(queue) : x > requests
    BY <1>1, <1>4, <2>3
  <2>7. Range(queue) \ Range(queue') \subseteq {h}
    BY <1>4, <2>3
  <2> QED
    BY <1>1, <2>2, <2>3, <2>4, <2>5, <2>6, <2>7 DEF FlowStep, Before
<1>6. CASE ~(Len(all) > QueueCapacity)
  <2>1. queue' = all /\ dropped' = dropped
    BY <1>6 DEF Log
  <2>2. Missed' = Missed
    BY <1>1, <2>1 DEF Missed
  <2>3. Range(queue') = Range(queue) \cup {e}
    BY <1>4, <2>1
  <2> HIDE DEF all
  <2>4. \A x \in Range(queue') \ Range(queue) : x > requests
    BY <1>1, <2>3
  <2> QED
    BY <1>1, <2>2, <2>3, <2>4 DEF FlowStep, Before
<1> QED
  BY <1>5, <1>6

LEMMA ReadFlow ==
  ASSUME LogInv, Read \/ Drain
  PROVE  FlowStep
<1>1. UNCHANGED <<requests, files, deleted, dropped, lost>>
  BY DEF Read, Drain, environment, storage
<1>2. CASE UNCHANGED <<batch, queue>>
  BY <1>1, <1>2, IdleFlow
<1>3. CASE queue # <<>> /\ batch' = Append(batch, Head(queue)) /\ queue' = Tail(queue)
  <2> DEFINE h == Head(queue)
  <2>1. requests <= requests' /\ Saved' = Saved /\ Missed' = Missed
    BY <1>1 DEF LogInv, TrafficTypeOK, Saved, Missed
  <2>2. /\ h \in Entries /\ Range(queue) = {h} \cup Range(queue')
        /\ Before({h}, Range(queue'))
    BY <1>3, Beheaded DEF LogInv, TrafficTypeOK, OrderInv
  <2>3. Range(batch') = Range(batch) \cup {h}
    BY <1>3, <2>2, Appended DEF LogInv, TrafficTypeOK
  <2> HIDE DEF h
  <2> QED
    BY <1>1, <2>1, <2>2, <2>3 DEF FlowStep, Before
<1> QED
  BY <1>2, <1>3 DEF Read, Drain

\* What becomes of the files: what goes is survived, and what is written was read.
LEMMA FilesFlow ==
  ASSUME LogInv, UNCHANGED requests, queue' = queue,
         Saved \subseteq Saved' \cup deleted', Saved' \ Saved \subseteq Range(batch),
         FilesInOrder(files', deleted'), files' \in [Seconds -> Seq(Entries)],
         deleted \subseteq deleted', deleted' \ deleted \subseteq Saved,
         Missed \subseteq Missed', Missed' \ Missed \subseteq Range(batch),
         (Missed' \ Missed) \cap (Range(queue) \cup Range(batch') \cup Saved') = {},
         Range(batch') \subseteq Range(batch), Range(batch') = {} \/ Range(batch') = Range(batch)
  PROVE  FlowStep
<1>1. requests <= requests'
  BY DEF LogInv, TrafficTypeOK
<1>2. \A d \in deleted' : \E e \in Saved' : d < e
  BY Survived DEF Saved
<1>3. Before(Range(batch) \ Range(batch'), Range(batch) \cap Range(batch'))
  BY DEF Before
<1> QED
  BY <1>1, <1>2, <1>3 DEF FlowStep, Before

LEMMA InitializeFlow ==
  ASSUME LogInv, Initialize
  PROVE  FlowStep
<1>1. UNCHANGED <<requests, queue, batch, dropped, lost>>
  BY DEF Initialize, environment
<1>2. CASE UNCHANGED <<files, deleted>>
  BY <1>1, <1>2, IdleFlow
<1>3. CASE /\ files' \in Cleaned(files)
           /\ deleted' = deleted \cup (Saved \ Contents(files'))
  <2>1. Keeps(files, files') /\ deleted' = deleted \cup Gone(files, files')
    BY <1>3, CleanedKeeps DEF LogInv, TrafficTypeOK, Gone, Saved
  <2>2. /\ FilesInOrder(files', deleted') /\ files' \in [Seconds -> Seq(Entries)]
        /\ Contents(files) = Contents(files') \cup Gone(files, files')
    BY <2>1, Trimmed DEF LogInv, TrafficTypeOK, OrderInv, Keeps
  <2>3. Saved = Saved' \cup Gone(files, files')
    BY <2>2 DEF Saved, Contents
  <2>4. Missed' = Missed
    BY <1>1 DEF Missed
  <2> QED
    BY <1>1, <2>1, <2>2, <2>3, <2>4, FilesFlow
<1> QED
  BY <1>2, <1>3 DEF Initialize

LEMMA WriteFlow ==
  ASSUME LogInv, MissedInv, Save \/ Flush
  PROVE  FlowStep
<1>1. UNCHANGED <<requests, queue, dropped>> /\ batch' = <<>>
  BY DEF Save, Flush, environment
<1>2. Range(batch') = {} /\ queue' = queue
  BY <1>1, Nothing
<1>3. CASE batch = <<>> /\ UNCHANGED <<storage, failed, lost>>
  BY <1>1, <1>3, IdleFlow DEF storage
<1>4. CASE WriteAll \/ WriteFails
  <2>1. PICK n \in 0..Len(batch) :
          /\ AppendEntries(batch, n)
          /\ \/ n = Len(batch) /\ lost' = lost
             \/ lost' = lost \cup Range(SubSeq(batch, n + 1, Len(batch)))
    <3>1. Len(batch) \in Nat /\ 0..Len(batch) - 1 \subseteq 0..Len(batch) /\ Len(batch) \in 0..Len(batch)
      BY LenProperties DEF LogInv, TrafficTypeOK
    <3>2. CASE WriteAll
      BY <3>1, <3>2 DEF WriteAll
    <3>3. CASE WriteFails
      BY <3>1, <3>3 DEF WriteFails
    <3> QED
      BY <1>4, <3>2, <3>3
  <2> DEFINE w == Range(SubSeq(batch, 1, n))
             rest == Range(SubSeq(batch, n + 1, Len(batch)))
  <2>2. /\ Range(batch) = w \cup rest /\ Before(w, rest)
    BY Split DEF LogInv, TrafficTypeOK, OrderInv
  <2>3. /\ FilesInOrder(files', deleted') /\ files' \in [Seconds -> Seq(Entries)]
        /\ Saved' \cup deleted' = Saved \cup deleted \cup w
        /\ Saved' \subseteq Saved \cup w
        /\ deleted \subseteq deleted' /\ deleted' \ deleted \subseteq Saved
    BY <2>1, Written DEF LogInv
  <2>4. Missed \subseteq Missed' /\ Missed' \ Missed \subseteq rest
    BY <1>1, <2>1 DEF Missed
  <2> HIDE DEF w, rest
  <2>5. rest \cap Range(queue) = {} /\ rest \cap Saved' = {}
    <3>1. PlacesInv
      BY PlacesApart
    <3>2. rest \cap w = {}
      <4> SUFFICES ASSUME NEW x \in rest, x \in w PROVE FALSE
        OBVIOUS
      <4>1. x < x /\ x \in Int
        BY <2>2, <3>1, Integral DEF Before, PlacesInv
      <4> QED
        BY <4>1
    <3> QED
      BY <2>2, <2>3, <3>1, <3>2 DEF PlacesInv, Apart
  <2> QED
    BY <1>1, <1>2, <2>2, <2>3, <2>4, <2>5, FilesFlow
<1> QED
  BY <1>3, <1>4 DEF Save, Flush

LEMMA RestartFlow ==
  ASSUME LogInv, MissedInv, Restart
  PROVE  FlowStep
<1>1. /\ UNCHANGED <<requests, files, dropped, deleted>> /\ Saved' = Saved
      /\ lost' = lost \cup Range(queue) \cup Range(batch)
      /\ Range(queue') = {} /\ Range(batch') = {}
  BY Nothing DEF Restart, Saved
<1>2. Missed' = Missed \cup Range(queue) \cup Range(batch) /\ requests <= requests'
  BY <1>1 DEF Missed, LogInv, TrafficTypeOK
<1>3. PlacesInv
  BY PlacesApart
<1> QED
  BY <1>1, <1>2, <1>3 DEF FlowStep, Before, PlacesInv, Apart

LEMMA StepFlows ==
  ASSUME LogInv, MissedInv, [Next]_vars
  PROVE  FlowStep
<1>1. CASE Top \/ Wait \/ Stop \/ Tick \/ UNCHANGED vars
  <2>1. UNCHANGED <<requests, queue, batch, files, deleted, dropped, lost>>
    BY <1>1 DEF Top, Wait, Stop, Tick, vars, environment, storage
  <2> QED
    BY <2>1, IdleFlow
<1> QED
  BY <1>1, LogFlow, ReadFlow, InitializeFlow, WriteFlow, RestartFlow DEF Next, Execute

LEMMA InitPlaces == Init => Entry!Init /\ MissedInv
<1> SUFFICES ASSUME Init PROVE Entry!Init /\ MissedInv
  OBVIOUS
<1>1. /\ Range(queue) = {} /\ Range(batch) = {} /\ deleted = {} /\ Missed = {}
      /\ Saved = {}
  BY Nothing DEF Init, Missed, Saved, Contents
<1>2. \A e \in Entries : Place[e] = {}
  BY <1>1 DEF Place, Missed
<1>3. Place = [e \in Entries |-> Place[e]]
  BY DEF Place
<1> QED
  BY <1>1, <1>2, <1>3 DEF Entry!Init, MissedInv

--------------------------------------------------------------------------------
\* The queue never holds more than its capacity, whatever fails.
THEOREM TypeCorrect == Spec => []TrafficTypeOK
<1>1. LogInv => TrafficTypeOK
  BY DEF LogInv
<1> QED
  BY <1>1, LogInductive, PTL

\* Through full queues, failed writes, rollovers, restarts and clean-ups that stop
\* half-way the files hold the entries in the order of the requests, and none twice;
\* what was deleted has MaxFileCount files of later entries.
THEOREM LogInOrder == Spec => []InOrder
<1>1. LogInv => InOrder
  <2> SUFFICES ASSUME LogInv PROVE InOrder
    OBVIOUS
  <2>1. ASSUME NEW s \in Seconds, NEW t \in Seconds,
               NEW i \in 1..Len(files[s]), NEW j \in 1..Len(files[t]),
               s < t \/ (s = t /\ i < j)
        PROVE  files[s][i] < files[t][j]
    <3>1. files[s][i] \in Range(files[s]) /\ files[t][j] \in Range(files[t])
      BY RangeIs DEF LogInv, TrafficTypeOK
    <3> QED
      BY <2>1, <3>1 DEF LogInv, OrderInv, FilesInOrder, Before, Ascending
  <2>2. \A d \in deleted :
          Cardinality({s \in Existing(files) : \A e \in Range(files[s]) : d < e}) >= MaxFileCount
    BY DEF LogInv, OrderInv, FilesInOrder, Newer
  <2> QED
    BY <2>1, <2>2 DEF InOrder
<1> QED
  BY <1>1, LogInductive, PTL

\* When the service has ended, no entry is missing without one of the reasons the
\* model knows.
THEOREM EntriesAccounted == Spec => []Accounted
<1>1. LogInv => Accounted
  <2> SUFFICES ASSUME LogInv, at = "end" PROVE
      1..requests \subseteq
        Saved \cup deleted \cup dropped \cup lost \cup (IF failed THEN Range(queue) ELSE {})
    BY DEF Accounted
  <2>1. Range(batch) = {} /\ (~failed => Range(queue) = {})
    BY Nothing DEF LogInv, AccountInv
  <2> QED
    BY <2>1 DEF LogInv, AccountInv
<1> QED
  BY <1>1, LogInductive, PTL

\* After any clean-up that did not fail there is at most one file more than
\* MaxFileCount, whatever failed before: the newest is not there yet when
\* CleanupOldLogFiles counts the others.  And a file is larger than MaxFileSizeMB only
\* if it is a single batch, or what was left in the channel at a stop, or a rollover
\* met its own file, or the service wrote there what was left after a failure.
THEOREM FilesAreBounded == Spec => []FilesBounded
<1>1. SizesInv => FilesBounded
  BY DEF SizesInv, FilesInv, FilesBounded, Fits
<1> QED
  BY <1>1, SizesInductive, PTL

\* ProxyTrafficLoggerMiddleware, its channel, the background service and the files
\* implement a journal: every step moves entries from one place to the next or to a
\* loss, in the order of their requests, none moves twice, and what is deleted is
\* survived by a later entry.
THEOREM TrafficIsJournaled == Spec => Journaled
<1>1. LogInv /\ LogInv' /\ MissedInv /\ [Next]_vars => MissedInv'
  BY StepFlows, FlowMissed
<1>2. LogInv /\ LogInv' /\ MissedInv /\ MissedInv' /\ [Next]_vars => [Entry!Next]_Place
  BY StepFlows, FlowMoves
<1> QED
  BY <1>1, <1>2, InitPlaces, LogInductive, PTL DEF Spec, Journaled, Entry!Spec
================================================================================
