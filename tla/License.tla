-------------------------------- MODULE License --------------------------------
(***************************************************************************)
(* LicenseService and LicenseManager: at start the licence files of the    *)
(* working directory are tried in order of priority; a file with a key is  *)
(* activated at the licence server, the answer is saved in .license-key    *)
(* with its key masked, and the files with keys are deleted.  A timer of   *)
(* six hours, the unit of time here, ends an expired licence.              *)
(*                                                                         *)
(* The process may end at any step, and any read, write or deletion may    *)
(* fail.  A licence is known by its key; its signature covers the key as   *)
(* the server writes it.                                                   *)
(***************************************************************************)
EXTENDS Integers, Sequences, SequencesExt

CONSTANTS
  KeyFiles,      \* .license and *.license, by priority
  Keys,          \* licence keys
  LicenceOf,     \* what the server grants for each: its tier, and when it expires
  MaskedKeys,    \* those the server signs in the masked form
  Never, None, Torn,   \* no expiry; no file, no licence; a file written in part
  MaxTime        \* bound of the model

\* A file holds a key, or a licence with the server's signature.
Content == [key : Keys, signed : BOOLEAN, masked : BOOLEAN]

ASSUME LicenseAssumption ==
  /\ KeyFiles \in Seq(STRING \ {".license-key"}) /\ IsInjective(KeyFiles)
  /\ LicenceOf \in [Keys -> [tier : {"professional", "community"}, expires : Nat \cup {Never}]]
  /\ MaskedKeys \subseteq Keys
  /\ Never \notin Nat /\ None # Torn /\ {None, Torn} \cap (Keys \cup Content) = {}
  /\ MaxTime \in Nat

VARIABLES
  now,         \* ticks of the timer
  files,       \* the working directory
  cached,      \* LicenseService._cachedLicense
  license,     \* LicenseManager._cachedLicense
  tier,        \* LicenseManager._currentTier
  lastCheck,   \* LicenseManager._lastCheck
  at,          \* where the start is
  todo,        \* the files still to try, or to delete, by their place in Priority
  key,         \* the key being activated
  provided,    \* whether there has ever been a licence
  unread       \* whether this start did not get to read the .license-key there is

vars == <<now, files, cached, license, tier, lastCheck, at, todo, key, provided, unread>>

Priority == <<".license-key">> \o KeyFiles
Files == Range(Priority)

Plain(k) == [key |-> k, signed |-> FALSE, masked |-> FALSE]
Signed(k) == [key |-> k, signed |-> TRUE, masked |-> k \in MaskedKeys]

Present == {i \in DOMAIN Priority : files[Priority[i]] # None}
First(i) == i \in todo /\ \A j \in todo : i <= j
Whole(f) == files[f] \notin {None, Torn}

LicenseTypeOK ==
  /\ now \in 0..MaxTime
  /\ files \in [Files -> {None, Torn} \cup Content]
  /\ cached \in Keys \cup {None} /\ license \in Keys \cup {None}
  /\ tier \in {"professional", "community"}
  /\ lastCheck \in 0..now
  /\ at \in {"down", "load", "post", "save", "write", "cleanup", "loaded", "up"}
  /\ todo \subseteq DOMAIN Priority
  /\ key \in Keys \cup {None}
  /\ at \in {"post", "save", "write", "cleanup"} => key # None
  /\ provided \in BOOLEAN /\ unread \in BOOLEAN

Init ==
  /\ now = 0
  /\ files = [f \in Files |-> None]
  /\ cached = None /\ license = None
  /\ tier = "community"
  /\ lastCheck = 0
  /\ at = "down" /\ todo = {} /\ key = None
  /\ provided = FALSE /\ unread = FALSE

--------------------------------------------------------------------------------
manager == <<license, tier, lastCheck>>

\* IsValid and IsProfessional of a licence whose status is "active".
ValidAt(k, time) == LicenceOf[k].expires = Never \/ time < LicenceOf[k].expires
Valid(k) == ValidAt(k, now)
Professional(k) == LicenceOf[k].tier = "professional" /\ Valid(k)

\* The administrator puts a file with a key, or a signed licence.
Provide(f, k) ==
  /\ f \in Range(KeyFiles)
  /\ \E c \in {Plain(k), Signed(k)} : files' = [files EXCEPT ![f] = c]
  /\ provided' = TRUE
  /\ UNCHANGED <<now, cached, manager, at, todo, key, unread>>

\* FindAllLicenseFilesAsync: all files, by priority, or those it had come to when
\* it failed.
Found == SUBSET Present

\* StartAsync, GetCurrentLicenseAsync and LoadLicenseAsync: ...
Start ==
  /\ at = "down"
  /\ at' = "load"
  /\ todo' \in Found
  /\ unread' = (1 \in Present \ todo')
  /\ UNCHANGED <<now, files, cached, manager, key, provided>>

\* (a signature taken to cover the key in full)
VerifiedInFull(c) == c = [Signed(c.key) EXCEPT !.masked = FALSE]

\* VerifyLicenseSignature: the signature is that of what the file says.
Verified(c) == c = Signed(c.key)

\* ... the next file is loaded if it is signed, activated if it holds a key, and
\* passed over if it cannot be read.
Load ==
  /\ at = "load"
  /\ \/ /\ todo = {}
        /\ cached' = None /\ at' = "loaded"
        /\ UNCHANGED <<todo, key, unread>>
     \/ \E i \in todo :
        /\ First(i)
        /\ todo' = todo \ {i}
        /\ LET f == Priority[i]
           IN  \/ /\ Whole(f) => files[f].signed /\ ~Verified(files[f])
                  /\ UNCHANGED <<cached, at, key, unread>>
               \/ /\ unread' = (unread \/ i = 1)
                  /\ UNCHANGED <<cached, at, key>>
               \/ /\ Whole(f) /\ Verified(files[f])
                  /\ cached' = files[f].key /\ at' = "loaded"
                  /\ UNCHANGED <<key, unread>>
               \/ /\ Whole(f) /\ ~files[f].signed
                  /\ key' = files[f].key /\ at' = "post"
                  /\ UNCHANGED <<cached, unread>>
  /\ UNCHANGED <<now, files, manager, provided>>

\* (an activation that starts anew when it fails)
PostAgain ==
  /\ at = "post"
  /\ \/ at' = "save" /\ UNCHANGED todo
     \/ at' = "load" /\ todo' \in Found
  /\ UNCHANGED <<now, files, cached, manager, key, provided, unread>>

\* ActivateLicenseAsync: the server's answer, or an error, or none in 30 seconds.
Post ==
  /\ at = "post"
  /\ at' \in {"save", "load"}
  /\ UNCHANGED <<now, files, cached, manager, todo, key, provided, unread>>

\* (the files with keys are deleted first)
SaveLast ==
  /\ at = "save"
  /\ files' = [f \in Files |-> IF f = ".license-key" THEN Torn ELSE None]
  /\ at' = "write"
  /\ UNCHANGED <<now, cached, manager, todo, key, provided, unread>>

\* SaveActivatedLicenseAsync empties .license-key and ...
Save ==
  /\ at = "save"
  /\ \/ files' = [files EXCEPT ![".license-key"] = Torn] /\ at' = "write"
     \/ UNCHANGED files /\ at' = "load"
  /\ UNCHANGED <<now, cached, manager, todo, key, provided, unread>>

\* MaskLicenseKeyForFile leaves a key that is masked as it is.
Masked(c) == [c EXCEPT !.masked = TRUE]

\* ... writes the licence, its key masked; what throws is a failed activation.
Write ==
  /\ at = "write"
  /\ \/ /\ files' = [files EXCEPT ![".license-key"] = Masked(Signed(key))]
        /\ at' = "cleanup"
        /\ \E found \in Found : todo' = found \ {1}
        /\ unread' = FALSE
     \/ at' = "load" /\ UNCHANGED <<files, todo, unread>>
  /\ UNCHANGED <<now, cached, manager, key, provided>>

\* CleanupLicenseKeyFilesAsync deletes every file with a key that it finds, if it can.
Cleanup ==
  /\ at = "cleanup"
  /\ \/ /\ todo = {}
        /\ cached' = key /\ at' = "loaded"
        /\ UNCHANGED <<files, todo>>
     \/ \E i \in todo :
        /\ First(i)
        /\ files' = [files EXCEPT ![Priority[i]] = None] \/ UNCHANGED files
        /\ todo' = todo \ {i}
        /\ UNCHANGED <<cached, at>>
  /\ UNCHANGED <<now, manager, key, provided, unread>>

\* (any valid licence is taken for a professional one)
LoadedAny ==
  /\ at = "loaded"
  /\ license' = cached /\ lastCheck' = now
  /\ tier' = IF cached # None /\ Valid(cached) THEN "professional" ELSE "community"
  /\ at' = "up" /\ todo' = {} /\ key' = None
  /\ UNCHANGED <<now, files, cached, provided, unread>>

\* (the time of the first check is set, not that of the last)
LoadedAhead ==
  /\ at = "loaded"
  /\ license' = cached /\ lastCheck' = now + 1
  /\ tier' = IF cached # None /\ Professional(cached) THEN "professional" ELSE "community"
  /\ at' = "up" /\ todo' = {} /\ key' = None
  /\ UNCHANGED <<now, files, cached, provided, unread>>

\* LoadAndCacheLicenseAsync: the manager's own copy.
Loaded ==
  /\ at = "loaded"
  /\ license' = cached /\ lastCheck' = now
  /\ tier' = IF cached # None /\ Professional(cached) THEN "professional" ELSE "community"
  /\ at' = "up" /\ todo' = {} /\ key' = None
  /\ UNCHANGED <<now, files, cached, provided, unread>>

--------------------------------------------------------------------------------
\* The licence in force is one that may expire.
Expiring == tier = "professional" /\ LicenceOf[license].expires # Never

\* PerformPeriodicCheckAsync looks at nothing less than six hours after the last
\* check: the ticks are six hours apart, one a little early, one a little late,
\* and the next after a check may be in vain.
Check ==
  /\ Expiring /\ now' - lastCheck >= 1
  /\ lastCheck' = now'
  /\ IF cached # None /\ ValidAt(cached, now')
       THEN UNCHANGED <<tier, license>>
       ELSE tier' = "community" /\ license' = None

\* (one that counts as a check)
CheckInVain ==
  /\ ~(Expiring /\ now' - lastCheck >= 2)
  /\ lastCheck' = now'
  /\ UNCHANGED <<tier, license>>

NoCheck == ~(Expiring /\ now' - lastCheck >= 2) /\ UNCHANGED manager

\* Six hours later; starting takes less.
Tick ==
  /\ at \in {"down", "up"} /\ now < MaxTime
  /\ now' = now + 1
  /\ Check \/ NoCheck
  /\ UNCHANGED <<files, cached, at, todo, key, provided, unread>>

\* The process ends.
Crash ==
  /\ at # "down"
  /\ cached' = None /\ license' = None /\ tier' = "community" /\ lastCheck' = 0
  /\ at' = "down" /\ todo' = {} /\ key' = None
  /\ UNCHANGED <<now, files, provided, unread>>

--------------------------------------------------------------------------------
Starting == Load \/ Post \/ Save \/ Write \/ Cleanup \/ Loaded

Next ==
  \/ Start \/ Starting \/ Tick \/ Crash
  \/ \E f \in Range(KeyFiles), k \in Keys : Provide(f, k)

Spec == Init /\ [][Next]_vars /\ WF_vars(Starting)

--------------------------------------------------------------------------------
\* Whatever happens, some file of the directory holds a licence or its key once
\* one did: a key is deleted after the licence is saved.
LicenceKept == provided => \E f \in Files : Whole(f)

\* An expired licence is professional for less than twelve hours: that is one
\* check in vain.
EndsInTime ==
  tier = "professional" =>
    LicenceOf[license].expires = Never \/ now <= LicenceOf[license].expires

\* The manager's copy and the service's agree: both are asked what is licensed.
CopiesAgree ==
  /\ tier = "professional" => license = cached /\ LicenceOf[license].tier = "professional"
  /\ at = "up" /\ cached # None /\ Professional(cached) => tier = "professional"

\* The licence that is saved needs no server: it is in force after every start
\* that could read .license-key, if the server signs what is saved, the licence
\* with its key masked; nothing that is found or fails beside it matters.
SavedIsLoaded ==
  at = "up" /\ ~unread /\ Whole(".license-key") =>
    LET k == files[".license-key"].key
    IN  k \in MaskedKeys /\ Professional(k) => tier = "professional"

\* "Don't fail startup": whatever the server, the disk and the files do, it ends.
StartEnds == at = "load" ~> at \in {"up", "down"}
================================================================================
