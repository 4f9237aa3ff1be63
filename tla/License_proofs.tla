----------------------------- MODULE License_proofs -----------------------------
(***************************************************************************)
(* What holds of the licence service for any files, keys and licences,     *)
(* wherever the process ends and whatever the server and the disk do.      *)
(***************************************************************************)
EXTENDS License, SequenceTheorems, TLAPS

Saved == ".license-key"

LEMMA Directory ==
  /\ Priority[1] = Saved /\ 1 \in DOMAIN Priority
  /\ DOMAIN Priority \subseteq Nat \ {0}
  /\ Files = {Saved} \cup Range(KeyFiles)
  /\ Saved \notin Range(KeyFiles)
  /\ \A i \in DOMAIN Priority : Priority[i] \in Files /\ (i # 1 => Priority[i] \in Range(KeyFiles))
<1> DEFINE S == {Saved} \cup Range(KeyFiles)
           s == <<Saved>>
<1>0. s \in Seq(S) /\ Len(s) = 1 /\ s[1] = Saved
  OBVIOUS
<1>1. KeyFiles \in Seq(S)
  BY LicenseAssumption, SeqDef DEF Range
<1>2. /\ Priority \in Seq(S) /\ Len(Priority) = 1 + Len(KeyFiles)
      /\ Priority[1] = Saved
      /\ \A i \in 2..Len(Priority) : Priority[i] = KeyFiles[i - 1]
  <2>1. Priority = s \o KeyFiles
    BY DEF Priority, Saved
  <2> HIDE DEF s, S
  <2>2. /\ Priority \in Seq(S) /\ Len(Priority) = Len(s) + Len(KeyFiles)
        /\ \A i \in 1..Len(s) + Len(KeyFiles) :
             Priority[i] = IF i <= Len(s) THEN s[i] ELSE KeyFiles[i - Len(s)]
    BY <1>1, <1>0, <2>1, ConcatProperties, Zenon
  <2>3. Len(KeyFiles) \in Nat
    BY <1>1, LenProperties
  <2> QED
    BY <1>0, <2>2, <2>3
<1>3. DOMAIN Priority = 1..Len(Priority) /\ DOMAIN KeyFiles = 1..Len(KeyFiles)
  BY <1>1, <1>2
<1>4. \A i \in DOMAIN Priority : i # 1 => Priority[i] \in Range(KeyFiles)
  <2> SUFFICES ASSUME NEW i \in DOMAIN Priority, i # 1 PROVE Priority[i] \in Range(KeyFiles)
    OBVIOUS
  <2>1. i - 1 \in DOMAIN KeyFiles /\ Priority[i] = KeyFiles[i - 1]
    BY <1>1, <1>2, <1>3
  <2> QED
    BY <2>1 DEF Range
<1>5. \A f \in Range(KeyFiles) : f \in Files
  <2> SUFFICES ASSUME NEW i \in DOMAIN KeyFiles PROVE KeyFiles[i] \in Files
    BY DEF Range
  <2>1. i + 1 \in DOMAIN Priority /\ Priority[i + 1] = KeyFiles[i]
    BY <1>1, <1>2, <1>3
  <2> QED
    BY <2>1 DEF Files, Range
<1>6. Saved \in Files
  BY <1>1, <1>2, <1>3 DEF Files, Range
<1>7. Saved \notin Range(KeyFiles)
  BY <1>3, LicenseAssumption DEF Range, Saved
<1>8. \A i \in DOMAIN Priority : Priority[i] \in Files
  BY DEF Files, Range
<1>9. \A f \in Files : f = Saved \/ f \in Range(KeyFiles)
  BY <1>2, <1>4 DEF Files, Range
<1> QED
  BY <1>1, <1>2, <1>3, <1>4, <1>5, <1>6, <1>7, <1>8, <1>9

--------------------------------------------------------------------------------
LEMMA Contents ==
  ASSUME NEW k \in Keys
  PROVE  /\ Plain(k) \in Content /\ ~Plain(k).signed
         /\ Signed(k) \in Content /\ Masked(Signed(k)) \in Content
         /\ Masked(Signed(k)).signed /\ Masked(Signed(k)).key = k
<1>1. (k \in MaskedKeys) \in BOOLEAN
  OBVIOUS
<1>2. Signed(k) \in Content /\ Signed(k).signed /\ Signed(k).key = k
  BY <1>1 DEF Signed, Content
<1>3. ASSUME NEW c \in Content
      PROVE  Masked(c) \in Content /\ Masked(c).signed = c.signed /\ Masked(c).key = c.key
  BY DEF Masked, Content
<1> QED
  BY <1>2, <1>3 DEF Plain, Content

LEMMA ContentsApart ==
  ASSUME NEW c \in Content
  PROVE  /\ c.key \in Keys /\ c.signed \in BOOLEAN /\ c.masked \in BOOLEAN
         /\ c # None /\ c # Torn /\ c.key # None
  BY LicenseAssumption DEF Content

LEMMA FoundType == \A found \in Found : found \subseteq DOMAIN Priority /\ found \subseteq Present
  BY DEF Found, Present

LEMMA KeyFilesAreFiles == \A f \in Range(KeyFiles) : f \in Files /\ f # Saved
  BY Directory

LEMMA CheckType ==
  ASSUME LicenseTypeOK, now' = now + 1, now' \in 0..MaxTime, Check \/ NoCheck
  PROVE  /\ license' \in Keys \cup {None} /\ tier' \in {"professional", "community"}
         /\ lastCheck' \in 0..now'
<1>1. now \in Nat /\ now' \in Nat /\ lastCheck \in 0..now
  BY LicenseAssumption DEF LicenseTypeOK
<1>2. lastCheck' \in 0..now'
  BY <1>1 DEF Check, NoCheck, manager
<1> QED
  BY <1>2 DEF Check, NoCheck, manager, LicenseTypeOK

LEMMA TypeStep == LicenseTypeOK /\ [Next]_vars => LicenseTypeOK'
<1> SUFFICES ASSUME LicenseTypeOK, [Next]_vars PROVE LicenseTypeOK'
  OBVIOUS
<1> USE DEF LicenseTypeOK
<1>1. CASE Start
  BY <1>1, FoundType DEF Start, manager
<1>2. CASE Load
  <2>1. CASE todo = {} /\ cached' = None /\ at' = "loaded" /\ UNCHANGED <<todo, key, unread>>
    BY <1>2, <2>1 DEF Load, manager
  <2>2. ASSUME NEW i \in todo, todo' = todo \ {i}, unread' = unread \/ unread' = (unread \/ i = 1),
               \/ UNCHANGED <<cached, at, key>>
               \/ /\ Whole(Priority[i])
                  /\ cached' = files[Priority[i]].key /\ at' = "loaded" /\ UNCHANGED key
               \/ /\ Whole(Priority[i])
                  /\ key' = files[Priority[i]].key /\ at' = "post" /\ UNCHANGED cached
        PROVE  LicenseTypeOK'
    <3>1. Whole(Priority[i]) => files[Priority[i]].key \in Keys \ {None}
      BY Directory, ContentsApart DEF Whole
    <3> QED
      BY <1>2, <2>2, <3>1 DEF Load, manager
  <2> QED
    BY <1>2, <2>1, <2>2 DEF Load
<1>3. CASE Post
  BY <1>3 DEF Post, manager
<1>4. CASE Save
  BY <1>4 DEF Save, manager
<1>5. CASE Write
  <2>1. Masked(Signed(key)) \in Content
    BY <1>5, Contents DEF Write
  <2> QED
    BY <1>5, <2>1, FoundType DEF Write, manager
<1>6. CASE Cleanup
  BY <1>6 DEF Cleanup, manager
<1>7. CASE Loaded
  BY <1>7, LicenseAssumption DEF Loaded
<1>8. CASE Tick
  <2>1. now' \in 0..MaxTime
    BY <1>8, LicenseAssumption DEF Tick
  <2> QED
    BY <1>8, <2>1, CheckType DEF Tick
<1>9. CASE Crash
  BY <1>9, LicenseAssumption DEF Crash
<1>10. ASSUME NEW f \in Range(KeyFiles), NEW k \in Keys, Provide(f, k) PROVE LicenseTypeOK'
  <2>1. Plain(k) \in Content /\ Signed(k) \in Content
    BY Contents
  <2>2. files' \in [Files -> {None, Torn} \cup Content]
    BY <1>10, <2>1 DEF Provide
  <2> QED
    BY <1>10, <2>2 DEF Provide, manager
<1>11. CASE UNCHANGED vars
  BY <1>11 DEF vars
<1> QED
  BY <1>1, <1>2, <1>3, <1>4, <1>5, <1>6, <1>7, <1>8, <1>9, <1>10, <1>11 DEF Next, Starting

\* The licence service has the types it is meant to have, wherever it is stopped.
THEOREM TypeCorrect == Spec => []LicenseTypeOK
<1>1. Init => LicenseTypeOK
  <2> SUFFICES ASSUME Init PROVE LicenseTypeOK
    OBVIOUS
  <2>1. now \in 0..MaxTime /\ lastCheck \in 0..now
    BY LicenseAssumption DEF Init
  <2>2. files \in [Files -> {None, Torn} \cup Content]
    BY DEF Init
  <2> QED
    BY <2>1, <2>2 DEF Init, LicenseTypeOK
<1> QED
  BY <1>1, TypeStep, PTL DEF Spec

--------------------------------------------------------------------------------
(* A key is deleted after the licence it gave is saved. *)
KeptInv ==
  /\ Whole(Saved) => files[Saved].signed /\ files[Saved] = Masked(Signed(files[Saved].key))
  /\ at \in {"post", "save", "write"} => \E f \in Range(KeyFiles) : Whole(f)
  /\ at = "cleanup" => Whole(Saved) /\ files[Saved].key = key /\ 1 \notin todo
  /\ LicenceKept

LEMMA WholeContent == LicenseTypeOK => \A f \in Files : Whole(f) <=> files[f] \in Content
  BY ContentsApart DEF LicenseTypeOK, Whole

LEMMA KeptUnchanged ==
  ASSUME KeptInv, UNCHANGED <<files, provided>>,
         at' \in {"post", "save", "write"} => \E f \in Range(KeyFiles) : Whole(f),
         at' = "cleanup" => at = "cleanup" /\ UNCHANGED <<key, todo>>
  PROVE  KeptInv'
  BY DEF KeptInv, LicenceKept, Whole

LEMMA KeptStep == LicenseTypeOK /\ KeptInv /\ [Next]_vars => KeptInv'
<1> SUFFICES ASSUME LicenseTypeOK, KeptInv, [Next]_vars PROVE KeptInv'
  OBVIOUS
<1>1. CASE Start
  BY <1>1, KeptUnchanged DEF Start
<1>2. CASE Load
  <2>1. ASSUME at' = "post"
        PROVE  \E f \in Range(KeyFiles) : Whole(f)
    <3>1. PICK i \in todo : Whole(Priority[i]) /\ ~files[Priority[i]].signed
      BY <1>2, <2>1 DEF Load
    <3>2. i # 1
      BY <3>1, Directory DEF KeptInv
    <3> QED
      BY <3>1, <3>2, Directory DEF LicenseTypeOK
  <2>2. UNCHANGED <<files, provided>> /\ at' \in {"load", "loaded", "post"}
    BY <1>2 DEF Load
  <2> QED
    BY <2>1, <2>2, KeptUnchanged
<1>3. CASE Post
  BY <1>3, KeptUnchanged DEF Post, KeptInv
<1>4. CASE Save
  <2>1. PICK f \in Range(KeyFiles) : Whole(f)
    BY <1>4 DEF Save, KeptInv
  <2>2. CASE files' = [files EXCEPT ![".license-key"] = Torn] /\ at' = "write"
    <3>1. ~Whole(Saved)' /\ Whole(f)' /\ f \in Files
      BY <2>1, <2>2, KeyFilesAreFiles, Directory DEF Whole, Saved, LicenseTypeOK
    <3> QED
      BY <2>2, <3>1 DEF KeptInv, LicenceKept
  <2>3. CASE UNCHANGED files /\ at' = "load"
    BY <1>4, <2>3, KeptUnchanged DEF Save
  <2> QED
    BY <1>4, <2>2, <2>3 DEF Save
<1>5. CASE Write
  <2>1. CASE files' = [files EXCEPT ![".license-key"] = Masked(Signed(key))] /\ at' = "cleanup"
                 /\ \E found \in Found : todo' = found \ {1}
    <3>1. key \in Keys
      BY <1>5 DEF Write, LicenseTypeOK
    <3>2. files'[Saved] = Masked(Signed(key)) /\ Saved \in Files
      BY <2>1, Directory DEF LicenseTypeOK, Saved
    <3>3. /\ Whole(Saved)' /\ files'[Saved].signed /\ files'[Saved].key = key'
          /\ files'[Saved] = Masked(Signed(files'[Saved].key))
      BY <1>5, <3>1, <3>2, Contents, ContentsApart DEF Whole, Write
    <3> QED
      BY <2>1, <3>2, <3>3 DEF KeptInv, LicenceKept
  <2>2. CASE at' = "load" /\ UNCHANGED files
    BY <1>5, <2>2, KeptUnchanged DEF Write
  <2> QED
    BY <1>5, <2>1, <2>2 DEF Write
<1>6. CASE Cleanup
  <2>1. CASE cached' = key /\ at' = "loaded" /\ UNCHANGED <<files, todo>>
    BY <1>6, <2>1, KeptUnchanged DEF Cleanup
  <2>2. ASSUME NEW i \in todo, todo' = todo \ {i}, UNCHANGED <<cached, at>>,
               files' = [files EXCEPT ![Priority[i]] = None] \/ UNCHANGED files
        PROVE  KeptInv'
    <3>1. Priority[i] # Saved
      BY <1>6, <2>2, Directory DEF Cleanup, KeptInv, LicenseTypeOK
    <3>2. files'[Saved] = files[Saved] /\ Saved \in Files
      BY <2>2, <3>1, Directory DEF LicenseTypeOK
    <3> QED
      BY <1>6, <2>2, <3>2 DEF Cleanup, KeptInv, LicenceKept, Whole
  <2> QED
    BY <1>6, <2>1, <2>2 DEF Cleanup
<1>7. CASE Loaded
  BY <1>7, KeptUnchanged DEF Loaded
<1>8. CASE Tick
  BY <1>8, KeptUnchanged DEF Tick
<1>9. CASE Crash
  BY <1>9, KeptUnchanged DEF Crash
<1>10. ASSUME NEW f \in Range(KeyFiles), NEW k \in Keys, Provide(f, k) PROVE KeptInv'
  <2>1. f \in Files /\ f # Saved
    BY KeyFilesAreFiles
  <2>2. files'[f] \in Content /\ files'[Saved] = files[Saved]
    BY <1>10, <2>1, Contents, Directory DEF Provide, LicenseTypeOK
  <2>3. Whole(f)'
    BY <2>2, ContentsApart DEF Whole
  <2> QED
    BY <1>10, <2>1, <2>2, <2>3 DEF Provide, KeptInv, LicenceKept, Whole
<1>11. CASE UNCHANGED vars
  BY <1>11 DEF vars, KeptInv, LicenceKept, Whole
<1> QED
  BY <1>1, <1>2, <1>3, <1>4, <1>5, <1>6, <1>7, <1>8, <1>9, <1>10, <1>11 DEF Next, Starting

\* Wherever the process ends, and whichever write or deletion fails, a licence or
\* its key is still in some file.
THEOREM NoLicenceLost == Spec => []LicenceKept
<1>1. Init => KeptInv
  BY Directory DEF Init, KeptInv, LicenceKept, Whole
<1>2. KeptInv => LicenceKept
  BY DEF KeptInv
<1> QED
  BY <1>1, <1>2, KeptStep, TypeCorrect, PTL DEF Spec

--------------------------------------------------------------------------------
(* The manager's copy, the service's, and the time. *)
Ends(k) == LicenceOf[k].expires # Never

ManagerInv ==
  /\ tier = "professional" =>
       /\ at = "up" /\ license # None /\ license = cached
       /\ LicenceOf[license].tier = "professional"
       /\ Ends(license) =>
            lastCheck < LicenceOf[license].expires /\ now <= LicenceOf[license].expires
  /\ at = "up" /\ cached # None /\ Professional(cached) => tier = "professional"

LEMMA LicenceType ==
  ASSUME NEW k \in Keys
  PROVE  LicenceOf[k].expires \in Nat \cup {Never} /\ (Ends(k) => LicenceOf[k].expires \in Nat)
  BY LicenseAssumption DEF Ends

LEMMA TickManager == LicenseTypeOK /\ ManagerInv /\ Tick => ManagerInv'
<1> SUFFICES ASSUME LicenseTypeOK, ManagerInv, Tick PROVE ManagerInv'
  OBVIOUS
<1>1. now \in Nat /\ lastCheck \in Nat /\ now' = now + 1 /\ lastCheck <= now
  BY LicenseAssumption DEF LicenseTypeOK, Tick
<1>2. cached' = cached /\ at' = at
  BY DEF Tick
<1>3. CASE tier = "professional"
  <2>1. license \in Keys /\ at = "up" /\ license = cached
    BY <1>3 DEF ManagerInv, LicenseTypeOK
  <2>2. CASE Ends(license)
    <3> DEFINE x == LicenceOf[license].expires
    <3>1. x \in Nat /\ lastCheck < x /\ now <= x /\ Expiring
      BY <1>3, <2>1, <2>2, LicenceType DEF ManagerInv, Expiring, Ends
    <3>2. CASE Check /\ ValidAt(cached, now')
      BY <1>1, <1>2, <1>3, <2>1, <2>2, <3>1, <3>2 DEF Check, ValidAt, ManagerInv, Ends
    <3>3. CASE Check /\ ~ValidAt(cached, now')
      BY <1>2, <2>1, <3>1, <3>3 DEF Check, ManagerInv, Professional, Valid, ValidAt
    <3>4. CASE NoCheck
      BY <1>1, <1>2, <1>3, <2>1, <2>2, <3>1, <3>4 DEF NoCheck, manager, ManagerInv, Ends
    <3> QED
      BY <3>2, <3>3, <3>4 DEF Tick
  <2>3. CASE ~Ends(license)
    <3>1. UNCHANGED manager
      BY <2>3 DEF Tick, Check, NoCheck, Expiring, Ends
    <3> QED
      BY <1>2, <1>3, <2>1, <2>3, <3>1 DEF manager, ManagerInv, Ends
  <2> QED
    BY <2>2, <2>3
<1>4. CASE tier # "professional"
  <2>1. UNCHANGED manager
    BY <1>4 DEF Tick, Check, NoCheck, Expiring
  <2>2. ASSUME at = "up", cached # None, Professional(cached)' PROVE Professional(cached)
    BY <1>1, <1>2, <2>2, LicenceType DEF Professional, Valid, ValidAt, LicenseTypeOK, Ends
  <2> QED
    BY <1>2, <1>4, <2>1, <2>2 DEF manager, ManagerInv
<1> QED
  BY <1>3, <1>4

LEMMA ManagerStep == LicenseTypeOK /\ ManagerInv /\ [Next]_vars => ManagerInv'
<1> SUFFICES ASSUME LicenseTypeOK, ManagerInv, [Next]_vars PROVE ManagerInv'
  OBVIOUS
<1>1. CASE Loaded
  <2>1. now \in Nat
    BY LicenseAssumption DEF LicenseTypeOK
  <2>2. CASE cached # None /\ Professional(cached)
    <3>1. cached \in Keys
      BY <2>2 DEF LicenseTypeOK
    <3> QED
      BY <1>1, <2>1, <2>2, <3>1, LicenceType
      DEF Loaded, ManagerInv, Professional, Valid, ValidAt, Ends
  <2>3. CASE ~(cached # None /\ Professional(cached))
    BY <1>1, <2>3 DEF Loaded, ManagerInv, Professional, Valid, ValidAt
  <2> QED
    BY <2>2, <2>3
<1>2. CASE Tick
  BY <1>2, TickManager
<1>3. CASE Crash
  BY <1>3 DEF Crash, ManagerInv
<1>4. CASE Start \/ Load \/ Post \/ Save \/ Write \/ Cleanup
  <2>1. at # "up" /\ at' # "up" /\ UNCHANGED manager
    BY <1>4 DEF Start, Load, Post, Save, Write, Cleanup
  <2> QED
    BY <2>1 DEF ManagerInv, manager
<1>5. CASE UNCHANGED <<now, cached, manager, at>>
  BY <1>5 DEF manager, ManagerInv, Professional, Valid, ValidAt
<1>6. (\E f \in Range(KeyFiles), k \in Keys : Provide(f, k)) \/ UNCHANGED vars
        => UNCHANGED <<now, cached, manager, at>>
  BY DEF Provide, vars, manager
<1> QED
  BY <1>1, <1>2, <1>3, <1>4, <1>5, <1>6 DEF Next, Starting

LEMMA ManagerOk == Spec => []ManagerInv
<1>1. Init => ManagerInv
  BY DEF Init, ManagerInv
<1> QED
  BY <1>1, ManagerStep, TypeCorrect, PTL DEF Spec

\* An expired licence is in force for one check in vain at most.
THEOREM LicenceEnds == Spec => []EndsInTime
<1>1. ManagerInv => EndsInTime
  BY DEF ManagerInv, EndsInTime, Ends
<1> QED
  BY <1>1, ManagerOk, PTL

\* What the manager grants and what the service holds are one licence.
THEOREM OneLicence == Spec => []CopiesAgree
<1>1. ManagerInv => CopiesAgree
  BY DEF ManagerInv, CopiesAgree
<1> QED
  BY <1>1, ManagerOk, PTL

--------------------------------------------------------------------------------
(* A saved licence with a good signature is tried first, and is the one loaded. *)
SavedOk == Whole(Saved) /\ files[Saved].key \in MaskedKeys

SavedInv ==
  ~unread =>
    /\ at = "load" /\ SavedOk => 1 \in todo
    /\ at \in {"post", "save", "write"} => ~SavedOk
    /\ at \in {"loaded", "up"} /\ SavedOk => cached = files[Saved].key

\* What was saved verifies, if the server signs the key as it is saved.
LEMMA SavedVerifies ==
  ASSUME LicenseTypeOK, KeptInv, SavedOk
  PROVE  Whole(Saved) /\ files[Saved].signed /\ Verified(files[Saved])
<1> DEFINE k == files[Saved].key
<1>1. k \in Keys /\ Signed(k) \in Content /\ (k \in MaskedKeys) = TRUE
  BY WholeContent, ContentsApart, Contents, Directory DEF SavedOk
<1>2. Signed(k).masked = TRUE
  BY <1>1 DEF Signed
<1>3. Masked(Signed(k)) = Signed(k)
  BY <1>1, <1>2 DEF Masked, Content
<1> QED
  BY <1>3 DEF SavedOk, KeptInv, Verified

LEMMA SavedUnchanged ==
  ASSUME files'[Saved] = files[Saved]
  PROVE  SavedOk' <=> SavedOk
  BY DEF SavedOk, Whole

LEMMA SavedStep == LicenseTypeOK /\ KeptInv /\ SavedInv /\ [Next]_vars => SavedInv'
<1> SUFFICES ASSUME LicenseTypeOK, KeptInv, SavedInv, [Next]_vars PROVE SavedInv'
  OBVIOUS
<1>1. CASE Start
  <2>1. SavedOk => 1 \in Present
    BY Directory DEF SavedOk, Whole, Present
  <2> QED
    BY <1>1, <2>1, SavedUnchanged DEF Start, SavedInv
<1>2. CASE Load
  <2>1. SavedOk' <=> SavedOk
    BY <1>2, SavedUnchanged DEF Load
  <2>2. CASE ~SavedOk \/ unread'
    BY <1>2, <2>1, <2>2 DEF Load, SavedInv
  <2>3. CASE SavedOk /\ ~unread'
    <3>0. ~unread
      BY <1>2, <2>3 DEF Load
    <3>1. 1 \in todo
      BY <1>2, <2>3, <3>0 DEF Load, SavedInv
    <3>2. \A i \in todo : First(i) => i = 1
      BY <3>1, Directory DEF First, LicenseTypeOK
    <3>3. Whole(Saved) /\ files[Saved].signed /\ Verified(files[Saved])
      BY <2>3, SavedVerifies
    <3>4. cached' = files[Saved].key /\ at' = "loaded"
      BY <1>2, <2>3, <3>1, <3>2, <3>3, Directory DEF Load
    <3> QED
      BY <1>2, <3>4 DEF Load, SavedInv
  <2> QED
    BY <2>2, <2>3
<1>3. CASE Post
  BY <1>3, SavedUnchanged DEF Post, SavedInv
<1>4. CASE Save
  <2>1. CASE files' = [files EXCEPT ![".license-key"] = Torn] /\ at' = "write"
    <3>1. ~SavedOk'
      BY <2>1, Directory DEF SavedOk, Whole, Saved, LicenseTypeOK
    <3> QED
      BY <2>1, <3>1 DEF SavedInv
  <2>2. CASE UNCHANGED files /\ at' = "load"
    BY <1>4, <2>2, SavedUnchanged DEF Save, SavedInv
  <2> QED
    BY <1>4, <2>1, <2>2 DEF Save
<1>5. CASE Write
  <2>1. CASE at' = "cleanup"
    BY <2>1 DEF SavedInv
  <2>2. CASE at' = "load" /\ UNCHANGED <<files, unread>>
    BY <1>5, <2>2, SavedUnchanged DEF Write, SavedInv
  <2> QED
    BY <1>5, <2>1, <2>2 DEF Write
<1>6. CASE Cleanup
  <2>1. CASE cached' = key /\ at' = "loaded" /\ UNCHANGED <<files, todo>>
    BY <1>6, <2>1 DEF Cleanup, SavedInv, KeptInv
  <2>2. CASE at' = "cleanup"
    BY <2>2 DEF SavedInv
  <2> QED
    BY <1>6, <2>1, <2>2 DEF Cleanup
<1>7. CASE Loaded
  BY <1>7, SavedUnchanged DEF Loaded, SavedInv
<1>8. CASE Tick
  BY <1>8, SavedUnchanged DEF Tick, SavedInv
<1>9. CASE Crash
  BY <1>9 DEF Crash, SavedInv
<1>10. ASSUME NEW f \in Range(KeyFiles), NEW k \in Keys, Provide(f, k) PROVE SavedInv'
  <2>1. files'[Saved] = files[Saved]
    BY <1>10, KeyFilesAreFiles, Directory DEF Provide, LicenseTypeOK
  <2> QED
    BY <1>10, <2>1, SavedUnchanged DEF Provide, SavedInv
<1>11. CASE UNCHANGED vars
  BY <1>11, SavedUnchanged DEF vars, SavedInv
<1> QED
  BY <1>1, <1>2, <1>3, <1>4, <1>5, <1>6, <1>7, <1>8, <1>9, <1>10, <1>11 DEF Next, Starting

\* The licence that is saved is in force after every start that can read
\* .license-key, whatever else the directory holds, whichever other file cannot be
\* read or deleted, and whether the server answers or not.  That the server signs
\* the licence with its key masked is a condition of it.
THEOREM SavedLicenceLoaded == Spec => []SavedIsLoaded
<1>1. Init => SavedInv
  BY DEF Init, SavedInv
<1>2. Init => KeptInv
  BY Directory DEF Init, KeptInv, LicenceKept, Whole
<1>3. LicenseTypeOK /\ SavedInv /\ ManagerInv => SavedIsLoaded
  <2> SUFFICES ASSUME LicenseTypeOK, SavedInv, ManagerInv,
                      at = "up", ~unread, Whole(Saved), files[Saved].key \in MaskedKeys,
                      Professional(files[Saved].key)
               PROVE  tier = "professional"
    BY DEF SavedIsLoaded, Saved
  <2>1. cached = files[Saved].key
    BY DEF SavedInv, SavedOk
  <2>2. cached # None
    BY <2>1, WholeContent, ContentsApart, Directory
  <2> QED
    BY <2>1, <2>2 DEF ManagerInv
<1> QED
  BY <1>1, <1>2, <1>3, KeptStep, SavedStep, ManagerOk, TypeCorrect, PTL DEF Spec
================================================================================
