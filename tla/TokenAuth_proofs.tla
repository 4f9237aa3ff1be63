--------------------------- MODULE TokenAuth_proofs ---------------------------
(***************************************************************************)
(* What holds of the token database and its files for any number of        *)
(* consoles, servers, users and tokens, and of authenticated requests for  *)
(* any number of requests and license changes.                             *)
(***************************************************************************)
EXTENDS TokenAuthChecks, TokenStoreChecks, TLAPS

\* A row as a new token has it.
LEMMA NewRowType ==
  ASSUME NEW u \in Users, NEW s \in ScopeSets, NEW e \in EnvironmentSets, NEW x \in Expiry
  PROVE  NewRow(u, s, e, x) \in Row
  BY DEF NewRow, Row

LEMMA IdleJobType == IdleJob \in Job
  BY StoreAssumption, NewRowType DEF IdleJob, Job, Expiry

LEMMA ExpiryType == ASSUME StoreTypeOK PROVE ExpiryDates \subseteq Expiry
  BY StoreAssumption DEF ExpiryDates, Expiry, StoreTypeOK

LEMMA FileType ==
  ASSUME NEW i \in Nat, NEW row \in Row PROVE FileOf(i, row) \in File
  BY DEF FileOf, File, Row

\* A console that finishes, or goes to another stage, keeps its types.
LEMMA FinishType ==
  ASSUME StoreTypeOK, NEW a \in Consoles, Finish(a)
  PROVE  at' \in [Consoles -> Stages] /\ job' \in [Consoles -> Job]
  BY IdleJobType DEF Finish, Stage, StoreTypeOK, Stages

LEMMA StageType ==
  ASSUME StoreTypeOK, NEW a \in Consoles, NEW s \in Stages, Stage(a, s)
  PROVE  at' \in [Consoles -> Stages]
  BY DEF Stage, StoreTypeOK

LEMMA AddRowType ==
  ASSUME StoreTypeOK, NEW a \in Consoles, NEW row \in Row, AddRow(a, row)
  PROVE  StoreTypeOK'
<1>1. tokens' \in Seq(Row)
  BY DEF AddRow, StoreTypeOK
<1>2. [id |-> Len(tokens) + 1, row |-> row, held |-> 0] \in Job
  BY DEF Job, StoreTypeOK
<1>3. at' \in [Consoles -> Stages]
  BY StageType DEF AddRow, Stages
<1> QED
  BY <1>1, <1>2, <1>3 DEF AddRow, StoreTypeOK

LEMMA SaveChangesType ==
  ASSUME StoreTypeOK, JobInv, NEW a \in Consoles, NEW row \in Row, SaveChanges(a, row)
  PROVE  StoreTypeOK'
<1> DEFINE id == job[a].id
<1>1. id \in DOMAIN tokens /\ tokens[id] \in Row
  BY DEF SaveChanges, JobInv, StoreTypeOK
<1>2. tokens' \in Seq(Row)
  <2>1. ASSUME NEW s \in ScopeSets, NEW e \in EnvironmentSets, NEW x \in Expiry
        PROVE  [tokens[id] EXCEPT !.scopes = s, !.environments = e, !.expires = x] \in Row
    BY <1>1 DEF Row
  <2>2. ASSUME NEW new \in Row, tokens' = [tokens EXCEPT ![id] = new]
        PROVE  tokens' \in Seq(Row)
    BY <2>2, <1>1 DEF StoreTypeOK
  <2>3. PICK s \in ScopeSets, e \in EnvironmentSets, x \in Expiry :
          tokens' = [tokens EXCEPT ![id] =
                       [tokens[id] EXCEPT !.scopes = s, !.environments = e, !.expires = x]]
    <3>1. /\ row.scopes \in ScopeSets /\ tokens[id].scopes \in ScopeSets
          /\ row.environments \in EnvironmentSets /\ tokens[id].environments \in EnvironmentSets
          /\ row.expires \in Expiry /\ tokens[id].expires \in Expiry
      BY <1>1 DEF Row
    <3> DEFINE old == job[a].row
               t == tokens[id]
               s == Column(row.scopes, old.scopes, t.scopes)
               e == Column(row.environments, old.environments, t.environments)
               x == Column(row.expires, old.expires, t.expires)
    <3>2. s \in ScopeSets /\ e \in EnvironmentSets /\ x \in Expiry
      BY <3>1 DEF Column
    <3>3. tokens' = [tokens EXCEPT ![id] =
                       [t EXCEPT !.scopes = s, !.environments = e, !.expires = x]]
      BY DEF SaveChanges
    <3> HIDE DEF s, e, x
    <3> QED
      BY <3>2, <3>3
  <2> QED
    BY <2>1, <2>2, <2>3
<1>3. job' \in [Consoles -> Job]
  BY DEF SaveChanges, StoreTypeOK, Job
<1>4. at' \in [Consoles -> Stages]
  BY StageType DEF SaveChanges, Stages
<1> QED
  BY <1>2, <1>3, <1>4 DEF SaveChanges, StoreTypeOK

LEMMA StoreTypeStep == ASSUME StoreTypeOK, JobInv, [StoreNext]_svars PROVE StoreTypeOK'
<1>0. /\ ScopeSets # {} /\ Expiry = Nat \cup {Never} /\ Admins \subseteq Consoles
      /\ Servers \subseteq Consoles
  BY StoreAssumption DEF Expiry, Consoles
<1>1. ASSUME NEW a \in Admins, NEW u \in Users, NEW s \in ScopeSets,
             NEW e \in EnvironmentSets, NEW x \in ExpiryDates, Generate(a, u, s, e, x)
      PROVE  StoreTypeOK'
  BY <1>0, <1>1, ExpiryType, NewRowType, AddRowType DEF Generate
<1>2. ASSUME NEW a \in Admins, NEW i \in DOMAIN tokens, Revoke(a, i)
      PROVE  StoreTypeOK'
  <2>1. tokens[i] \in Row /\ i \in Nat
    BY DEF StoreTypeOK
  <2>2. [tokens[i] EXCEPT !.revoked = TRUE] \in Row
    BY <2>1 DEF Row
  <2>3. tokens' = [tokens EXCEPT ![i] = [tokens[i] EXCEPT !.revoked = TRUE]]
    BY <1>2 DEF Revoke
  <2>4. tokens' \in Seq(Row) /\ tokens'[i] \in Row
    BY <2>2, <2>3 DEF StoreTypeOK
  <2>5. [id |-> i, row |-> tokens'[i], held |-> 0] \in Job
    BY <2>1, <2>4 DEF Job
  <2>6. at' \in [Consoles -> Stages]
    BY <1>0, <1>2, StageType DEF Revoke, Stages
  <2> QED
    BY <1>2, <2>4, <2>5, <2>6 DEF Revoke, StoreTypeOK
<1>3. ASSUME NEW a \in Admins, NEW i \in DOMAIN tokens, Load(a, i)
      PROVE  StoreTypeOK'
  <2>1. [id |-> i, row |-> tokens[i], held |-> 0] \in Job
    BY DEF StoreTypeOK, Job
  <2>2. at' \in [Consoles -> Stages]
    BY <1>0, <1>3, StageType DEF Load, Stages
  <2> QED
    BY <1>3, <2>1, <2>2 DEF Load, StoreTypeOK
<1>4. ASSUME NEW a \in Admins, NEW s \in ScopeSets, UpdateScopes(a, s)
      PROVE  StoreTypeOK'
  <2>1. [job[a].row EXCEPT !.scopes = s] \in Row
    BY <1>0 DEF StoreTypeOK, Job, Row
  <2> QED
    BY <1>0, <1>4, <2>1, SaveChangesType DEF UpdateScopes
<1>5. ASSUME NEW a \in Admins, NEW e \in EnvironmentSets, UpdateEnvironments(a, e)
      PROVE  StoreTypeOK'
  <2>1. [job[a].row EXCEPT !.environments = e] \in Row
    BY <1>0 DEF StoreTypeOK, Job, Row
  <2> QED
    BY <1>0, <1>5, <2>1, SaveChangesType DEF UpdateEnvironments
<1>6. ASSUME NEW a \in Admins, NEW x \in ExpiryDates, UpdateExpiration(a, x)
      PROVE  StoreTypeOK'
  <2>1. [job[a].row EXCEPT !.expires = x] \in Row
    BY <1>0, ExpiryType DEF StoreTypeOK, Job, Row
  <2> QED
    BY <1>0, <1>6, <2>1, SaveChangesType DEF UpdateExpiration
<1>7. ASSUME NEW a \in Servers, StartServer(a)
      PROVE  StoreTypeOK'
  BY <1>0, <1>7, StageType DEF StartServer, StoreTypeOK, Stages
<1>8. ASSUME NEW a \in Servers, CreateDefault(a)
      PROVE  StoreTypeOK'
  BY <1>0, <1>8, NewRowType, AddRowType, StoreAssumption DEF CreateDefault
<1>9. ASSUME NEW a \in Consoles, WriteFile(a) \/ SaveFile(a)
      PROVE  StoreTypeOK'
  <2>1. /\ job[a].id \in Nat /\ job[a].held \in Nat /\ job[a].row \in Row
        /\ job[a].row.user \in Users
    BY DEF StoreTypeOK, Job, Row
  <2>2. files' \in [Users -> File \cup {NoFile}]
    BY <1>9, <2>1, FileType DEF WriteFile, SaveFile, StoreTypeOK
  <2> QED
    BY <1>9, <2>2, FinishType DEF WriteFile, SaveFile, StoreTypeOK
<1>10. ASSUME NEW a \in Consoles, DeleteFile(a) \/ Abandon(a)
       PROVE  StoreTypeOK'
  BY <1>10, FinishType DEF DeleteFile, Abandon, StoreTypeOK
<1>11. ASSUME NEW a \in Consoles, ReadFile(a)
       PROVE  StoreTypeOK'
  <2>1. CASE Finish(a)
    BY <1>11, <2>1, FinishType DEF ReadFile, StoreTypeOK
  <2>2. CASE /\ files[job[a].row.user] # NoFile
             /\ job' = [job EXCEPT ![a].held = files[job[a].row.user].id]
             /\ Stage(a, "saveFile")
    <3>1. job[a] \in Job /\ files[job[a].row.user].id \in Nat
      BY <2>2 DEF StoreTypeOK, Job, Row, File
    <3>2. job' \in [Consoles -> Job]
      BY <2>2, <3>1 DEF StoreTypeOK, Job
    <3>3. at' \in [Consoles -> Stages]
      BY <2>2, StageType DEF Stages
    <3> QED
      BY <1>11, <3>2, <3>3 DEF ReadFile, StoreTypeOK
  <2> QED
    BY <1>11, <2>1, <2>2 DEF ReadFile
<1>12. CASE Tick \/ UNCHANGED svars
  BY <1>12 DEF Tick, svars, StoreTypeOK
<1> QED
  BY <1>1, <1>2, <1>3, <1>4, <1>5, <1>6, <1>7, <1>8, <1>9, <1>10, <1>11, <1>12
  DEF StoreNext, Proceed, AdminStep, FileStep

--------------------------------------------------------------------------------
(* Rows are only added, and keep their user and their revocation. *)

RowsKept ==
  \A i \in DOMAIN tokens :
    /\ i \in DOMAIN tokens'
    /\ tokens'[i].user = tokens[i].user
    /\ tokens[i].revoked => tokens'[i].revoked

LEMMA StoreKeepsRows == ASSUME StoreTypeOK, JobInv, [StoreNext]_svars PROVE RowsKept
<1>0. ASSUME NEW i \in DOMAIN tokens PROVE tokens[i] \in Row
  BY DEF StoreTypeOK
<1>1. ASSUME NEW a, NEW row, AddRow(a, row) PROVE RowsKept
  BY <1>1 DEF AddRow, StoreTypeOK, RowsKept
<1>2. ASSUME NEW a \in Consoles, NEW row, SaveChanges(a, row) PROVE RowsKept
  <2> SUFFICES ASSUME NEW i \in DOMAIN tokens
               PROVE  /\ i \in DOMAIN tokens'
                      /\ tokens'[i].user = tokens[i].user
                      /\ tokens'[i].revoked = tokens[i].revoked
    BY DEF RowsKept
  <2>1. DOMAIN tokens' = DOMAIN tokens
    BY <1>2 DEF SaveChanges
  <2>2. CASE i = job[a].id
    BY <1>0, <1>2, <2>1, <2>2 DEF SaveChanges, Row
  <2>3. CASE i # job[a].id
    BY <1>2, <2>1, <2>3 DEF SaveChanges
  <2> QED BY <2>2, <2>3
<1>3. ASSUME NEW a, NEW j \in DOMAIN tokens, Revoke(a, j) PROVE RowsKept
  BY <1>0, <1>3 DEF Revoke, RowsKept, Row
<1>4. CASE UNCHANGED tokens
  BY <1>4 DEF RowsKept
<1>5. CASE \E a \in Consoles : FileStep(a) \/ DeleteFile(a) \/ Abandon(a)
  BY <1>4, <1>5 DEF FileStep, WriteFile, DeleteFile, ReadFile, SaveFile, Abandon
<1>6. CASE \E a \in Servers : StartServer(a) \/ CreateDefault(a)
  BY <1>1, <1>4, <1>6 DEF StartServer, CreateDefault
<1>7. CASE \E a \in Admins : AdminStep(a)
  BY <1>1, <1>2, <1>3, <1>4, <1>7
  DEF AdminStep, Generate, Load, UpdateScopes, UpdateEnvironments, UpdateExpiration, Consoles
<1>8. CASE Tick \/ UNCHANGED svars
  BY <1>4, <1>8 DEF Tick, svars
<1> QED
  BY <1>5, <1>6, <1>7, <1>8 DEF StoreNext, Proceed

\* What a console knows of the rows it works on.
JobFine(a) ==
  /\ at[a] \in {"writeFile", "deleteFile", "confirm", "readFile", "saveFile"} =>
       /\ job[a].id \in DOMAIN tokens
       /\ tokens[job[a].id].user = job[a].row.user
  /\ at[a] = "saveFile" =>
       /\ job[a].held \in DOMAIN tokens
       /\ tokens[job[a].held].user = job[a].row.user

\* A console whose job did not change, or that finished, is as well off as before.
LEMMA JobKept ==
  ASSUME StoreTypeOK, JobInv, RowsKept, NEW b \in Consoles,
         (at'[b] = at[b] /\ job'[b] = job[b]) \/ at'[b] \in {"idle", "insert"}
  PROVE  JobFine(b)'
<1>1. CASE at'[b] \in {"idle", "insert"}
  BY <1>1 DEF JobFine
<1>2. CASE at'[b] = at[b] /\ job'[b] = job[b]
  BY <1>2 DEF JobFine, JobInv, RowsKept
<1> QED BY <1>1, <1>2

LEMMA JobStep ==
  ASSUME StoreTypeOK, JobInv, FilesOwned, [StoreNext]_svars PROVE JobInv'
<1> SUFFICES ASSUME NEW b \in Consoles PROVE JobFine(b)'
  BY DEF JobInv, JobFine
<1>0. RowsKept
  BY StoreKeepsRows
<1> USE DEF Stage
<1>1. ASSUME NEW a \in Consoles, NEW row \in Row, AddRow(a, row) PROVE JobFine(b)'
  <2>1. CASE a = b
    <3>1. /\ at'[b] = "writeFile" /\ job'[b].id = Len(tokens) + 1 /\ job'[b].row = row
      BY <1>1, <2>1 DEF AddRow, StoreTypeOK
    <3>2. Len(tokens) + 1 \in DOMAIN tokens' /\ tokens'[Len(tokens) + 1] = row
      BY <1>1 DEF AddRow, StoreTypeOK
    <3> QED
      BY <3>1, <3>2 DEF JobFine
  <2>2. CASE a # b
    BY <1>0, <1>1, <2>2, JobKept DEF AddRow, StoreTypeOK
  <2> QED BY <2>1, <2>2
<1>2. ASSUME NEW a \in Consoles, NEW row \in Row, SaveChanges(a, row),
             row.user = job[a].row.user
      PROVE  JobFine(b)'
  <2>1. CASE a = b
    <3>1. at'[b] = "readFile" /\ job'[b].id = job[b].id /\ job'[b].row = row
      BY <1>2, <2>1 DEF SaveChanges, StoreTypeOK, Job
    <3>2. job[b].id \in DOMAIN tokens /\ tokens[job[b].id].user = job[b].row.user
      BY <1>2, <2>1 DEF SaveChanges, JobInv
    <3> QED
      BY <1>0, <1>2, <2>1, <3>1, <3>2 DEF JobFine, RowsKept
  <2>2. CASE a # b
    BY <1>0, <1>2, <2>2, JobKept DEF SaveChanges, StoreTypeOK
  <2> QED BY <2>1, <2>2
<1>3. ASSUME NEW a \in Admins, NEW i \in DOMAIN tokens, Revoke(a, i) \/ Load(a, i)
      PROVE  JobFine(b)'
  <2>1. CASE a = b
    <3>1. /\ at'[b] \in {"deleteFile", "confirm"} /\ job'[b].id = i
          /\ job'[b].row = tokens'[i]
      BY <1>3, <2>1 DEF Revoke, Load, StoreTypeOK, Consoles
    <3> QED
      BY <1>0, <3>1 DEF JobFine, RowsKept
  <2>2. CASE a # b
    BY <1>0, <1>3, <2>2, JobKept DEF Revoke, Load, StoreTypeOK
  <2> QED BY <2>1, <2>2
<1>4. ASSUME NEW a \in Consoles, ReadFile(a)
      PROVE  JobFine(b)'
  <2>1. CASE a = b /\ ~Finish(a)
    <3> DEFINE file == files[job[b].row.user]
    <3>0. job[b].row.user \in Users
      BY DEF StoreTypeOK, Job, Row
    <3>1. /\ file # NoFile /\ at'[b] = "saveFile" /\ job'[b].id = job[b].id
          /\ job'[b].row = job[b].row /\ job'[b].held = file.id /\ at[b] = "readFile"
      BY <1>4, <2>1 DEF ReadFile, StoreTypeOK, Job
    <3>2. file.id \in DOMAIN tokens /\ tokens[file.id].user = job[b].row.user
      BY <3>0, <3>1 DEF FilesOwned
    <3>3. job[b].id \in DOMAIN tokens /\ tokens[job[b].id].user = job[b].row.user
      BY <3>1 DEF JobInv
    <3> QED
      BY <1>0, <3>1, <3>2, <3>3 DEF JobFine, RowsKept
  <2>2. CASE a # b
    BY <1>0, <1>4, <2>2, JobKept DEF ReadFile, Finish, StoreTypeOK
  <2>3. CASE Finish(a)
    BY <1>0, <2>3, JobKept DEF Finish, StoreTypeOK
  <2> QED BY <2>1, <2>2, <2>3
<1>5. ASSUME NEW a \in Consoles, Finish(a) PROVE JobFine(b)'
  BY <1>0, <1>5, JobKept DEF Finish, StoreTypeOK
<1>6. ASSUME NEW a \in Servers, StartServer(a) PROVE JobFine(b)'
  BY <1>0, <1>6, JobKept DEF StartServer, StoreTypeOK
<1>7. CASE Tick \/ UNCHANGED svars
  BY <1>0, <1>7, JobKept DEF Tick, svars
<1>8. CASE \E a \in Consoles : FileStep(a) \/ DeleteFile(a) \/ Abandon(a)
  BY <1>4, <1>5, <1>8 DEF FileStep, WriteFile, DeleteFile, SaveFile, Abandon
<1>9. CASE \E a \in Servers : StartServer(a) \/ CreateDefault(a)
  BY <1>1, <1>6, <1>9, NewRowType, StoreAssumption DEF CreateDefault, Consoles, Expiry
<1>10. ASSUME NEW a \in Admins, AdminStep(a) PROVE JobFine(b)'
  <2>1. job[a].row \in Row
    BY DEF StoreTypeOK, Job, Consoles
  <2>2. CASE \E u \in Users, s \in ScopeSets, e \in EnvironmentSets, x \in ExpiryDates :
               Generate(a, u, s, e, x)
    BY <1>1, <2>2, NewRowType, ExpiryType DEF Generate, Consoles
  <2>3. CASE \E s \in ScopeSets : UpdateScopes(a, s)
    <3>1. PICK s \in ScopeSets : UpdateScopes(a, s)
      BY <2>3
    <3>2. /\ [job[a].row EXCEPT !.scopes = s] \in Row
          /\ [job[a].row EXCEPT !.scopes = s].user = job[a].row.user
      BY <2>1 DEF Row
    <3> QED BY <1>2, <3>1, <3>2 DEF UpdateScopes, Consoles
  <2>4. CASE \E e \in EnvironmentSets : UpdateEnvironments(a, e)
    <3>1. PICK e \in EnvironmentSets : UpdateEnvironments(a, e)
      BY <2>4
    <3>2. /\ [job[a].row EXCEPT !.environments = e] \in Row
          /\ [job[a].row EXCEPT !.environments = e].user = job[a].row.user
      BY <2>1 DEF Row
    <3> QED BY <1>2, <3>1, <3>2 DEF UpdateEnvironments, Consoles
  <2>5. CASE \E x \in ExpiryDates : UpdateExpiration(a, x)
    <3>1. PICK x \in ExpiryDates : UpdateExpiration(a, x)
      BY <2>5
    <3>2. /\ [job[a].row EXCEPT !.expires = x] \in Row
          /\ [job[a].row EXCEPT !.expires = x].user = job[a].row.user
      BY <2>1, ExpiryType DEF Row
    <3> QED BY <1>2, <3>1, <3>2 DEF UpdateExpiration, Consoles
  <2> QED
    BY <1>3, <1>10, <2>2, <2>3, <2>4, <2>5 DEF AdminStep
<1> QED
  BY <1>7, <1>8, <1>9, <1>10 DEF StoreNext, Proceed

LEMMA FilesStep ==
  ASSUME StoreTypeOK, JobInv, FilesOwned, [StoreNext]_svars PROVE FilesOwned'
<1> SUFFICES ASSUME NEW u \in Users, files'[u] # NoFile
             PROVE  /\ files'[u].id \in DOMAIN tokens'
                    /\ tokens'[files'[u].id].user = u
  BY DEF FilesOwned
<1>0. RowsKept
  BY StoreKeepsRows
<1>1. CASE files'[u] = files[u]
  BY <1>0, <1>1 DEF FilesOwned, RowsKept
<1>2. ASSUME NEW a \in Consoles, WriteFile(a) \/ SaveFile(a), files'[u] # files[u]
      PROVE  /\ files'[u].id \in DOMAIN tokens'
             /\ tokens'[files'[u].id].user = u
  <2>1. u = job[a].row.user /\ files'[u].id \in {job[a].id, job[a].held}
    BY <1>2 DEF WriteFile, SaveFile, FileOf, StoreTypeOK
  <2>2. CASE WriteFile(a)
    BY <1>0, <2>1, <2>2 DEF WriteFile, FileOf, StoreTypeOK, JobInv, RowsKept
  <2>3. CASE SaveFile(a)
    BY <1>0, <2>1, <2>3 DEF SaveFile, FileOf, StoreTypeOK, JobInv, RowsKept
  <2> QED BY <1>2, <2>2, <2>3
<1>3. ASSUME NEW a \in Consoles, DeleteFile(a) PROVE files'[u] = files[u]
  BY <1>3 DEF DeleteFile, StoreTypeOK
<1>4. CASE UNCHANGED files
  BY <1>1, <1>4
<1>5. CASE \E a \in Consoles : FileStep(a) \/ DeleteFile(a) \/ Abandon(a)
  BY <1>1, <1>2, <1>3, <1>4, <1>5 DEF FileStep, ReadFile, Abandon
<1>6. CASE \/ \E a \in Admins : AdminStep(a)
           \/ \E a \in Servers : StartServer(a) \/ CreateDefault(a)
           \/ Tick
           \/ UNCHANGED svars
  BY <1>4, <1>6 DEF AdminStep, StartServer, CreateDefault, Tick, svars, Generate, AddRow,
       Revoke, Load, UpdateScopes, UpdateEnvironments, UpdateExpiration, SaveChanges
<1> QED
  BY <1>5, <1>6 DEF StoreNext, Proceed

LEMMA StoreInitInv == StoreInit => StoreInv
<1> SUFFICES ASSUME StoreInit PROVE StoreInv
  OBVIOUS
<1>1. StoreTypeOK
  BY IdleJobType DEF StoreInit, StoreTypeOK, Stages
<1> QED
  BY <1>1 DEF StoreInit, StoreInv, FilesOwned, JobInv

LEMMA StoreStepInv == StoreInv /\ [StoreNext]_svars => StoreInv'
  BY StoreTypeStep, FilesStep, JobStep DEF StoreInv

\* Every reachable state of the store satisfies its inductive invariant: rows,
\* files and console jobs keep their types and refer to rows that exist.
THEOREM StoreInductive == StoreSpec => []StoreInv
  BY StoreInitInv, StoreStepInv, PTL DEF StoreSpec

\* A token file always holds a token of the user it is named after, for any
\* number of overlapping and failing consoles (UpdateTokenFileAsync).
THEOREM FilesAlwaysOwned == StoreSpec => []FilesOwned
<1>1. StoreInv => FilesOwned
  BY DEF StoreInv
<1> QED BY <1>1, StoreInductive, PTL

\* No step of any console or server undoes a revocation (RevokeTokenAsync,
\* UpdateTokenScopesAsync and its siblings).
THEOREM RevocationIsFinal == StoreSpec => RevocationFinal
<1>1. StoreInv /\ [StoreNext]_svars =>
        [\A i \in DOMAIN tokens : tokens[i].revoked =>
           i \in DOMAIN tokens' /\ tokens'[i].revoked]_svars
  BY StoreKeepsRows DEF StoreInv, RowsKept
<1> QED
  BY <1>1, StoreInductive, PTL DEF StoreSpec, RevocationFinal

--------------------------------------------------------------------------------
(* Files of revoked tokens. *)

\* Console b is about to write token i into the file of user u.
Comes(b, i, u) ==
  /\ job[b].row.user = u
  /\ \/ at[b] = "writeFile" /\ job[b].id = i
     \/ at[b] = "saveFile" /\ job[b].held = i

\* Token i is in the file of user u, or on its way there.
Near(i, u) ==
  \/ \E b \in Consoles : Comes(b, i, u)
  \/ files[u] # NoFile /\ files[u].id = i

LEMMA NearIs ==
  ASSUME NEW u, NEW i PROVE Near(i, u) <=> i \in Coming(u) \cup Present(u)
<1>1. i \in Coming(u) <=> \E b \in Consoles : Comes(b, i, u)
  BY DEF Coming, Comes
<1>2. i \in Present(u) <=> files[u] # NoFile /\ files[u].id = i
  BY DEF Present
<1> QED BY <1>1, <1>2 DEF Near

LEMMA NearOwned ==
  ASSUME StoreInv, NEW u \in Users, NEW i, Near(i, u)
  PROVE  i \in DOMAIN tokens /\ tokens[i].user = u
<1>1. CASE \E b \in Consoles : Comes(b, i, u)
  BY <1>1 DEF Comes, StoreInv, JobInv
<1>2. CASE files[u] # NoFile /\ files[u].id = i
  BY <1>2 DEF StoreInv, FilesOwned
<1> QED BY <1>1, <1>2 DEF Near

\* The inductive part, token by token.
Watched ==
  /\ escaped \subseteq DOMAIN tokens
  /\ \A u \in Users, i \in DOMAIN tokens :
       Near(i, u) /\ tokens[i].revoked => Revoking(u) \/ i \in escaped

LEMMA WatchedIs == ASSUME StoreInv PROVE EscapedInv <=> Watched
<1>1. ASSUME NEW u \in Users
      PROVE  RevokedOf(Coming(u) \cup Present(u)) \subseteq escaped
               <=> \A i \in DOMAIN tokens : Near(i, u) /\ tokens[i].revoked => i \in escaped
  BY NearIs, NearOwned DEF RevokedOf
<1>2. ASSUME NEW u \in Users
      PROVE  (Revoking(u) \/ RevokedOf(Coming(u) \cup Present(u)) \subseteq escaped)
               <=> \A i \in DOMAIN tokens : Near(i, u) /\ tokens[i].revoked => Revoking(u) \/ i \in escaped
  BY <1>1
<1> HIDE DEF Near, Revoking
<1> QED BY <1>2 DEF EscapedInv, Watched

\* Nothing revoked comes near a file, and no revocation ends.
Calm ==
  /\ \A u \in Users, i \in DOMAIN tokens' :
       Near(i, u)' /\ tokens'[i].revoked =>
         i \in DOMAIN tokens /\ Near(i, u) /\ tokens[i].revoked
  /\ \A u \in Users : Revoking(u) => Revoking(u)'

LEMMA CalmStep ==
  ASSUME Watched, RowsKept, Calm, escaped \subseteq escaped', escaped' \subseteq DOMAIN tokens'
  PROVE  Watched'
  BY DEF Watched, Calm

\* What a console's step may change: the others stay where they are.
OthersStay(a) == \A b \in Consoles : b # a => at'[b] = at[b] /\ job'[b] = job[b]

\* A console that is about to write no token that it was not about to write, and
\* that ends no revocation.
LEMMA CalmConsole ==
  ASSUME StoreInv, NEW a \in Consoles, OthersStay(a), at[a] # "deleteFile",
         \A i \in DOMAIN tokens : tokens'[i].revoked = tokens[i].revoked,
         \A u \in Users : \A i : Comes(a, i, u)' =>
           Near(i, u) \/ (i \in DOMAIN tokens' /\ ~tokens'[i].revoked),
         \A u \in Users : files'[u] = files[u] \/ files'[u] = NoFile \/ Near(files'[u].id, u)
  PROVE  Calm
<1>1. ASSUME NEW u \in Users, NEW i \in DOMAIN tokens', Near(i, u)', tokens'[i].revoked
      PROVE  Near(i, u)
  <2>1. CASE \E b \in Consoles : Comes(b, i, u)'
    <3>1. PICK b \in Consoles : Comes(b, i, u)'
      BY <2>1
    <3>2. CASE b = a
      BY <1>1, <3>1, <3>2
    <3>3. CASE b # a
      <4>1. Comes(b, i, u)
        BY <3>1, <3>3 DEF OthersStay, Comes
      <4> QED BY <4>1 DEF Near
    <3> QED BY <3>2, <3>3
  <2>2. CASE files'[u] # NoFile /\ files'[u].id = i
    BY <2>2 DEF Near
  <2> QED BY <1>1, <2>1, <2>2 DEF Near
<1>2. ASSUME NEW u \in Users, Revoking(u) PROVE Revoking(u)'
  BY <1>2 DEF Revoking, OthersStay
<1>3. ASSUME NEW u \in Users, NEW i \in DOMAIN tokens', Near(i, u)', tokens'[i].revoked
      PROVE  i \in DOMAIN tokens /\ Near(i, u) /\ tokens[i].revoked
  BY <1>1, <1>3, NearOwned
<1> QED BY <1>2, <1>3 DEF Calm

\* A console that finishes or moves stays the only one that changes.
LEMMA FinishStays ==
  ASSUME StoreInv, NEW a \in Consoles, Finish(a)
  PROVE  OthersStay(a) /\ at'[a] = "idle"
  BY DEF Finish, Stage, OthersStay, StoreInv, StoreTypeOK

LEMMA ProceedWatched ==
  ASSUME StoreInv, StoreInv', Watched, Proceed, UNCHANGED escaped
  PROVE  Watched'
<1>0. /\ StoreTypeOK /\ FilesOwned /\ JobInv /\ RowsKept
      /\ Admins \subseteq Consoles /\ Servers \subseteq Consoles
  BY StoreKeepsRows DEF StoreInv, StoreNext, Consoles
<1>1. ASSUME Calm PROVE Watched'
  BY <1>0, <1>1, CalmStep DEF Watched, RowsKept
<1>2. ASSUME NEW a \in Consoles, NEW row \in Row, ~row.revoked, at[a] # "deleteFile", AddRow(a, row)
      PROVE  Calm
  <2>1. /\ OthersStay(a) /\ at'[a] = "writeFile" /\ job'[a].id = Len(tokens) + 1
        /\ files' = files /\ tokens' = Append(tokens, row)
    BY <1>0, <1>2 DEF AddRow, Stage, OthersStay, StoreTypeOK
  <2>2. \A i \in DOMAIN tokens : tokens'[i].revoked = tokens[i].revoked
    BY <1>0, <2>1 DEF StoreTypeOK
  <2>3. Len(tokens) + 1 \in DOMAIN tokens' /\ tokens'[Len(tokens) + 1] = row
    BY <1>0, <2>1 DEF StoreTypeOK
  <2>4. \A u \in Users : \A i : Comes(a, i, u)' => i \in DOMAIN tokens' /\ ~tokens'[i].revoked
    BY <1>2, <2>1, <2>3 DEF Comes
  <2> QED BY <1>2, <2>1, <2>2, <2>4, CalmConsole
<1>3. ASSUME NEW a \in Consoles, NEW i \in DOMAIN tokens, Revoke(a, i)
      PROVE  Watched'
  <2>1. /\ OthersStay(a) /\ at[a] = "idle" /\ at'[a] = "deleteFile" /\ job'[a].row = tokens'[i]
        /\ files' = files /\ tokens' = [tokens EXCEPT ![i].revoked = TRUE]
    BY <1>0, <1>3 DEF Revoke, Stage, OthersStay, StoreTypeOK
  <2>2. at'[a] = "deleteFile" /\ job'[a].row.user = tokens[i].user
    BY <1>0, <2>1 DEF RowsKept
  <2>3. \A u \in Users : Revoking(u) => Revoking(u)'
    BY <2>1 DEF Revoking, OthersStay
  <2>4. ASSUME NEW u \in Users, NEW k \in DOMAIN tokens', Near(k, u)', tokens'[k].revoked
        PROVE  Revoking(u)' \/ k \in escaped'
    <3>1. Near(k, u)
      <4>1. ASSUME NEW b \in Consoles, Comes(b, k, u)' PROVE Near(k, u)
        BY <2>1, <4>1 DEF Comes, OthersStay, Near
      <4> QED BY <2>1, <2>4, <4>1 DEF Near
    <3>2. k \in DOMAIN tokens /\ tokens[k].user = u
      BY <3>1, NearOwned
    <3>3. CASE k = i
      BY <2>2, <3>2, <3>3 DEF Revoking
    <3>4. CASE k # i
      <4>1. tokens[k].revoked
        BY <2>1, <2>4, <3>2, <3>4
      <4> QED BY <2>1, <2>3, <3>1, <3>2, <4>1, <1>3 DEF Watched
    <3> QED BY <3>3, <3>4
  <2>5. escaped' \subseteq DOMAIN tokens'
    BY <2>1 DEF Watched
  <2> QED BY <2>4, <2>5 DEF Watched
<1>4. ASSUME NEW a \in Consoles, NEW i \in DOMAIN tokens, Load(a, i)
      PROVE  Calm
  <2>1. /\ OthersStay(a) /\ at[a] = "idle" /\ at'[a] = "confirm"
        /\ files' = files /\ tokens' = tokens
    BY <1>0, <1>4 DEF Load, Stage, OthersStay, StoreTypeOK
  <2> QED BY <2>1, CalmConsole DEF Comes
<1>5. ASSUME NEW a \in Consoles, NEW row, SaveChanges(a, row)
      PROVE  Calm
  <2>1. /\ OthersStay(a) /\ at[a] = "confirm" /\ at'[a] = "readFile" /\ files' = files
    BY <1>0, <1>5 DEF SaveChanges, Stage, OthersStay, StoreTypeOK
  <2>2. job[a].id \in DOMAIN tokens /\ tokens[job[a].id] \in Row
    BY <1>0, <2>1 DEF JobInv, StoreTypeOK
  <2>3. \A k \in DOMAIN tokens : tokens'[k].revoked = tokens[k].revoked
    BY <1>0, <1>5, <2>2 DEF SaveChanges, StoreTypeOK, Row
  <2> QED BY <2>1, <2>3, CalmConsole DEF Comes
<1>6. ASSUME NEW a \in Consoles, WriteFile(a) \/ SaveFile(a)
      PROVE  Calm
  <2> DEFINE id == IF at[a] = "writeFile" THEN job[a].id ELSE job[a].held
             v == job[a].row.user
  <2>1. /\ at[a] \in {"writeFile", "saveFile"} /\ Finish(a) /\ tokens' = tokens
        /\ files' = [files EXCEPT ![v] = FileOf(id, job[a].row)]
    BY <1>6 DEF WriteFile, SaveFile
  <2>2. OthersStay(a) /\ at'[a] = "idle"
    BY <2>1, FinishStays
  <2>3. Near(id, v)
    BY <2>1 DEF Near, Comes
  <2>4. v \in Users /\ files'[v].id = id /\ \A u \in Users : u # v => files'[u] = files[u]
    BY <1>0, <2>1 DEF StoreTypeOK, Job, Row, FileOf
  <2>5. \A u \in Users : files'[u] = files[u] \/ files'[u] = NoFile \/ Near(files'[u].id, u)
    BY <2>3, <2>4
  <2>6. \A u \in Users : \A i : Comes(a, i, u)' => Near(i, u)
    BY <2>2 DEF Comes
  <2>7. at[a] # "deleteFile" /\ \A i \in DOMAIN tokens : tokens'[i].revoked = tokens[i].revoked
    BY <2>1
  <2> QED BY <2>2, <2>5, <2>6, <2>7, CalmConsole
<1>7. ASSUME NEW a \in Consoles, ReadFile(a)
      PROVE  Calm
  <2> DEFINE v == job[a].row.user
  <2>1. at[a] = "readFile" /\ UNCHANGED <<tokens, files>>
    BY <1>7 DEF ReadFile
  <2>2. CASE Finish(a)
    BY <2>1, <2>2, FinishStays, CalmConsole DEF Comes
  <2>3. CASE files[v] # NoFile /\ job' = [job EXCEPT ![a].held = files[v].id] /\ Stage(a, "saveFile")
    <3>1. /\ OthersStay(a) /\ at'[a] = "saveFile" /\ job'[a].held = files[v].id
          /\ job'[a].row.user = v
      BY <1>0, <2>3 DEF Stage, OthersStay, StoreTypeOK, Job
    <3>2. Near(files[v].id, v)
      BY <2>3 DEF Near
    <3>3. \A u \in Users : \A i : Comes(a, i, u)' => Near(i, u)
      BY <3>1, <3>2 DEF Comes
    <3> QED BY <2>1, <3>1, <3>3, CalmConsole
  <2> QED BY <1>7, <2>2, <2>3 DEF ReadFile
<1>8. ASSUME NEW a \in Consoles, StartServer(a)
      PROVE  Calm
  <2>1. /\ OthersStay(a) /\ at[a] = "idle" /\ at'[a] = "insert"
        /\ files' = files /\ tokens' = tokens
    BY <1>0, <1>8 DEF StartServer, Stage, OthersStay, StoreTypeOK
  <2> QED BY <2>1, CalmConsole DEF Comes
<1>9. CASE Tick
  <2>1. UNCHANGED <<tokens, files, at, job>>
    BY <1>9 DEF Tick
  <2> QED BY <1>1, <2>1 DEF Calm, Near, Comes, Revoking
<1>10. ASSUME NEW a \in Admins, AdminStep(a) PROVE Watched'
  <2>1. ASSUME NEW w \in Users, NEW s \in ScopeSets, NEW e \in EnvironmentSets, NEW x \in ExpiryDates,
               Generate(a, w, s, e, x)
        PROVE  Calm
    <3>1. NewRow(w, s, e, x) \in Row /\ ~NewRow(w, s, e, x).revoked
      BY <1>0, ExpiryType, NewRowType DEF NewRow
    <3> QED BY <1>0, <1>2, <2>1, <3>1 DEF Generate
  <2> QED
    BY <1>0, <1>1, <1>3, <1>4, <1>5, <1>10, <2>1
       DEF AdminStep, UpdateScopes, UpdateEnvironments, UpdateExpiration
<1>11. ASSUME NEW a \in Servers, CreateDefault(a) PROVE Calm
  <2>1. NewRow(ServerName, AllScopes, AllEnvironments, Never) \in Row
    BY StoreAssumption, NewRowType DEF Expiry
  <2>2. ~NewRow(ServerName, AllScopes, AllEnvironments, Never).revoked
    BY DEF NewRow
  <2> QED BY <1>0, <1>2, <1>11, <2>1, <2>2 DEF CreateDefault
<1> QED
  BY <1>0, <1>1, <1>6, <1>7, <1>8, <1>9, <1>10, <1>11 DEF Proceed, FileStep

\* A revocation that ends leaves the others of its user, and what it could not
\* delete has escaped it.
LEMMA EndWatched ==
  ASSUME StoreInv, StoreInv', Watched, NEW a \in Consoles, Deleted(a) \/ Abandoned(a)
  PROVE  Watched'
<1> DEFINE v == job[a].row.user
<1>1. /\ Finish(a) /\ tokens' = tokens /\ OthersStay(a) /\ at'[a] = "idle"
      /\ \A u \in Users : files'[u] = files[u] \/ files'[u] = NoFile
  BY FinishStays DEF Deleted, Abandoned, DeleteFile, Abandon, StoreInv, StoreTypeOK
<1>2. ASSUME NEW u, NEW i, NEW b \in Consoles, Comes(b, i, u)' PROVE b # a /\ Comes(b, i, u)
  BY <1>1, <1>2 DEF Comes, OthersStay
<1>3. ASSUME NEW u \in Users, NEW i, Near(i, u)' PROVE Near(i, u)
  BY <1>1, <1>2, <1>3 DEF Near
<1>4. escaped \subseteq escaped'
  BY DEF Deleted, Abandoned
<1>5. v \in Users
  BY DEF StoreInv, StoreTypeOK, Job, Row
<1>6. escaped' \subseteq DOMAIN tokens'
  <2>1. \A i \in Coming(v) \cup Present(v) : i \in DOMAIN tokens
    BY <1>5, NearIs, NearOwned
  <2> QED BY <1>1, <2>1 DEF Watched, Deleted, Abandoned, RevokedOf
<1>7. ASSUME NEW u \in Users, NEW i \in DOMAIN tokens', Near(i, u)', tokens'[i].revoked
      PROVE  Revoking(u)' \/ i \in escaped'
  <2>1. Near(i, u) /\ tokens[i].revoked /\ i \in DOMAIN tokens
    BY <1>1, <1>3, <1>7
  <2>2. CASE i \in escaped
    BY <1>4, <2>2
  <2>3. CASE Revoking(u)
    <3>1. PICK b \in Consoles : at[b] = "deleteFile" /\ job[b].row.user = u
      BY <2>3 DEF Revoking
    <3>2. CASE b # a
      BY <1>1, <3>1, <3>2 DEF Revoking, OthersStay
    <3>3. CASE b = a /\ Abandoned(a)
      <4>1. i \in Coming(v) \cup Present(v) /\ v = u
        BY <2>1, <3>1, <3>3, NearIs
      <4> QED BY <2>1, <3>1, <3>3, <4>1 DEF Abandoned, RevokedOf
    <3>4. CASE b = a /\ Deleted(a)
      <4>1. v = u /\ files'[u] = NoFile
        BY <3>1, <3>4 DEF Deleted, DeleteFile, StoreInv, StoreTypeOK
      <4>2. \E c \in Consoles : Comes(c, i, u)
        BY <1>2, <1>7, <4>1 DEF Near
      <4>3. i \in Coming(v)
        BY <4>1, <4>2 DEF Coming, Comes
      <4> QED BY <2>1, <3>4, <4>3 DEF Deleted, RevokedOf
    <3> QED BY <3>2, <3>3, <3>4
  <2> QED BY <2>1, <2>2, <2>3 DEF Watched
<1> QED BY <1>6, <1>7 DEF Watched

\* "The token file is deleted from the tokens/ directory" when RevokeTokenAsync
\* revokes a token: for any number of overlapping and failing consoles, once none
\* is at work, a file holds a revoked token only if a revocation failed to delete
\* it, or a console had the token in hand when the file was deleted.
THEOREM RevokedFilesGone == FilesSpec => []RevokedFileGone
<1>1. FilesInit => StoreInv /\ Watched
  <2>1. SUFFICES ASSUME FilesInit PROVE Watched
    BY StoreInitInv DEF FilesInit
  <2> QED
    BY <2>1 DEF FilesInit, StoreInit, Watched
<1>2. StoreInv /\ [FilesNext]_fvars => StoreInv'
  <2>1. [FilesNext]_fvars => [StoreNext]_svars
    BY DEF FilesNext, Deleted, Abandoned, StoreNext, fvars
  <2> QED BY <2>1, StoreStepInv
<1>3. StoreInv /\ StoreInv' /\ Watched /\ [FilesNext]_fvars => Watched'
  <2>1. CASE UNCHANGED fvars
    BY <2>1 DEF fvars, svars, Watched, Near, Comes, Revoking
  <2> QED
    BY <2>1, ProceedWatched, EndWatched DEF FilesNext
<1>4. StoreInv /\ Watched => RevokedFileGone
  <2>1. SUFFICES ASSUME StoreInv, Watched, Quiet, NEW u \in Users
                 PROVE  RevokedOf(Present(u)) \subseteq escaped
    BY DEF RevokedFileGone
  <2>2. ~Revoking(u)
    BY <2>1 DEF Quiet, Revoking
  <2> QED
    BY <2>1, <2>2, WatchedIs DEF EscapedInv, RevokedOf
<1> QED
  BY <1>1, <1>2, <1>3, <1>4, PTL DEF FilesSpec

--------------------------------------------------------------------------------
\* A step of the authentication is a step of the store, or leaves it alone.
LEMMA StoreSteps ==
  ASSUME [AuthNext]_avars
  PROVE  [StoreNext]_svars
<1>1. CASE \E r \in Requests : Handle(r)
  BY <1>1 DEF Handle, Arrive, LimiterVerify, Verify, GetDetails, Query, CheckLicense,
              CheckAccess, Complete
<1>2. CASE LicenseChanges \/ UNCHANGED avars
  BY <1>2 DEF LicenseChanges, avars
<1> QED BY <1>1, <1>2 DEF AuthNext

\* A request either answers, moves on, queries, or arrives.
Moves(r, from, to) ==
  /\ pc[r] = from /\ Goto(r, to) /\ UNCHANGED req

Found(r, from, to) ==
  LET id == req[r].id
  IN  /\ pc[r] = from /\ Active(id) /\ Goto(r, to)
      /\ req' = [req EXCEPT ![r].row = IF @ = NoRow THEN tokens[id] ELSE @]

Served(r) == Moves(r, "license", "access") /\ (professional \/ FirstToken \in {0, req[r].id})

Passed(r) == Moves(r, "access", "next") /\ HasAccess(req[r])

Arrived(r) ==
  \E id \in Nat, path \in Paths :
    /\ pc[r] = "idle"
    /\ Goto(r, IF LimiterEnabled THEN "limiter" ELSE "verify")
    /\ req' = [req EXCEPT ![r] = [id |-> id, environment |-> path[1], endpoint |-> path[2],
                                  row |-> NoRow]]

Queried(r) ==
  \/ Found(r, "limiter", "verify") \/ Found(r, "verify", "details")
  \/ Found(r, "details", "license")

LEMMA HandleCases ==
  ASSUME StoreTypeOK, NEW r \in Requests, Handle(r)
  PROVE  /\ UNCHANGED <<svars, professional>>
         /\ Arrived(r) \/ Queried(r) \/ Served(r) \/ Passed(r) \/ Respond(r)
<1>1. CASE \E id \in DOMAIN tokens \cup {0}, path \in Paths : Arrive(r, id, path)
  <2>1. PICK id \in DOMAIN tokens \cup {0}, path \in Paths : Arrive(r, id, path)
    BY <1>1
  <2>2. id \in Nat
    BY DEF StoreTypeOK
  <2> QED
    BY <2>1, <2>2 DEF Arrive, Arrived
<1>2. CASE LimiterVerify(r) \/ Verify(r) \/ GetDetails(r)
  BY <1>2 DEF LimiterVerify, Verify, GetDetails, Query, Queried, Found
<1>3. CASE CheckLicense(r) \/ CheckAccess(r) \/ Complete(r)
  BY <1>3 DEF CheckLicense, CheckAccess, Complete, Served, Passed, Moves
<1> QED BY <1>1, <1>2, <1>3 DEF Handle

\* Only the request that is handled changes.
LEMMA OthersKept ==
  ASSUME AuthTypeOK, NEW r \in Requests,
         Arrived(r) \/ Queried(r) \/ Served(r) \/ Passed(r) \/ Respond(r),
         NEW q \in Requests, q # r
  PROVE  pc'[q] = pc[q] /\ req'[q] = req[q]
  BY DEF Arrived, Queried, Found, Served, Passed, Moves, Respond, Goto, AuthTypeOK

LEMMA RequestTypeStep ==
  ASSUME AuthTypeOK, StoreInv, NEW r \in Requests, Handle(r)
  PROVE  pc' \in [Requests -> Steps] /\ req' \in [Requests -> Request]
<1>0. UNCHANGED <<svars, professional>>
  BY HandleCases DEF AuthTypeOK
<1>1. CASE Arrived(r)
  <2>1. PICK id \in Nat, path \in Paths :
          /\ Goto(r, IF LimiterEnabled THEN "limiter" ELSE "verify")
          /\ req' = [req EXCEPT ![r] = [id |-> id, environment |-> path[1],
                                        endpoint |-> path[2], row |-> NoRow]]
    BY <1>1 DEF Arrived
  <2>2. path[1] \in Environments \cup {NoEnvironment} /\ path[2] \in Endpoints \cup {NoEndpoint}
    BY DEF Paths
  <2> QED
    BY <2>1, <2>2 DEF AuthTypeOK, Goto, Steps, Request
<1>2. CASE Queried(r)
  <2>1. Active(req[r].id)
    BY <1>2 DEF Queried, Found
  <2>2. tokens[req[r].id] \in Row /\ req[r] \in Request
    BY <2>1 DEF Active, AuthTypeOK, StoreTypeOK
  <2>3. req' \in [Requests -> Request]
    <3>1. PICK row \in Row \cup {NoRow} : req' = [req EXCEPT ![r].row = row]
      BY <1>2, <2>2 DEF Queried, Found, Request
    <3> QED
      BY <2>2, <3>1 DEF AuthTypeOK, Request
  <2> QED
    BY <1>2, <2>3 DEF Queried, Found, Goto, AuthTypeOK, Steps
<1>3. CASE Served(r) \/ Passed(r)
  BY <1>3 DEF Served, Passed, Moves, Goto, AuthTypeOK, Steps
<1>4. CASE Respond(r)
  <2>1. IdleRequest \in Request
    BY DEF IdleRequest, Request
  <2> QED
    BY <1>4, <2>1 DEF Respond, Goto, AuthTypeOK, Steps
<1> QED
  BY <1>1, <1>2, <1>3, <1>4, HandleCases DEF AuthTypeOK

LEMMA AuthTypeStep ==
  ASSUME AuthTypeOK, StoreInv, [AuthNext]_avars PROVE AuthTypeOK' /\ StoreInv'
<1>1. StoreInv'
  BY StoreSteps, StoreStepInv
<1>2. StoreTypeOK'
  BY <1>1 DEF StoreInv
<1>3. ASSUME NEW r \in Requests, Handle(r) PROVE AuthTypeOK'
  BY <1>2, <1>3, RequestTypeStep, HandleCases DEF AuthTypeOK
<1>4. CASE StoreNext /\ UNCHANGED <<professional, pc, req>>
  <2>1. professional' \in BOOLEAN /\ pc' = pc /\ req' = req
    BY <1>4 DEF AuthTypeOK
  <2>2. pc' \in [Requests -> Steps] /\ req' \in [Requests -> Request]
    BY <2>1 DEF AuthTypeOK
  <2>3. professional' \in BOOLEAN
    BY <2>1
  <2> QED
    BY <1>1, <1>2, <2>2, <2>3, Zenon DEF AuthTypeOK
<1>5. CASE LicenseChanges \/ UNCHANGED avars
  <2>1. professional' \in BOOLEAN /\ pc' = pc /\ req' = req
    BY <1>5 DEF LicenseChanges, avars, AuthTypeOK
  <2>2. pc' \in [Requests -> Steps] /\ req' \in [Requests -> Request]
    BY <2>1 DEF AuthTypeOK
  <2>3. professional' \in BOOLEAN
    BY <2>1
  <2> QED
    BY <1>1, <1>2, <2>2, <2>3, Zenon DEF AuthTypeOK
<1> QED BY <1>1, <1>3, <1>4, <1>5 DEF AuthNext

--------------------------------------------------------------------------------
(* The observer. *)

\* What a request looks at is well typed.
LEMMA LookType ==
  ASSUME AuthTypeOK, SeenTypeOK, NEW r \in Requests
  PROVE  Look(r) \in Seen
<1>1. seen[r] \in Seen /\ NothingSeen \in Seen
  BY DEF SeenTypeOK, NothingSeen, Seen
<1>2. ASSUME NEW i \in DOMAIN tokens
      PROVE  /\ tokens[i].scopes \subseteq Endpoints
             /\ tokens[i].environments \subseteq Environments
             /\ tokens[i].revoked \in BOOLEAN
  <2>1. tokens[i] \in Row
    BY DEF AuthTypeOK, StoreTypeOK
  <2>2. /\ tokens[i].scopes \in ScopeSets /\ tokens[i].environments \in EnvironmentSets
        /\ tokens[i].revoked \in BOOLEAN
    BY <2>1 DEF Row
  <2> QED
    BY <2>2, AuthAssumption
<1> DEFINE id == req'[r].id
           old == IF pc[r] = "idle" THEN NothingSeen ELSE seen[r]
           known == id \in DOMAIN tokens
<1>3. old \in Seen
  BY <1>1
<1>4. /\ (IF known THEN tokens[id].scopes ELSE {}) \subseteq Endpoints
      /\ (IF known THEN tokens[id].environments ELSE {}) \subseteq Environments
  BY <1>2
<1>5. /\ (IF pc[r] = "idle" THEN known /\ tokens[id].revoked ELSE old.late) \in BOOLEAN
      /\ (old.active \/ Active(id)) \in BOOLEAN
      /\ (old.served \/ ServedNow(id)) \in BOOLEAN
  BY <1>1, <1>2 DEF AuthTypeOK, Seen, Active, ServedNow
<1>6. /\ (old.scopes \cup IF known THEN tokens[id].scopes ELSE {}) \in SUBSET Endpoints
      /\ (old.environments \cup IF known THEN tokens[id].environments ELSE {})
           \in SUBSET Environments
  BY <1>3, <1>4 DEF Seen
<1> QED
  BY <1>5, <1>6 DEF Look, Seen

LEMMA SeenTypeStep ==
  ASSUME AuthTypeOK, SeenTypeOK, ChecksNext PROVE SeenTypeOK'
<1>1. NothingSeen \in Seen
  BY DEF NothingSeen, Seen
<1> QED
  BY <1>1, LookType DEF ChecksNext, SeenTypeOK

\* A request that was not idle looks at least at what it had seen.
LEMMA LookGrows ==
  ASSUME AuthTypeOK, SeenTypeOK, NEW r \in Requests, pc[r] # "idle"
  PROVE  /\ seen[r].active => Look(r).active
         /\ seen[r].served => Look(r).served
         /\ seen[r].scopes \subseteq Look(r).scopes
         /\ seen[r].environments \subseteq Look(r).environments
         /\ Look(r).late = seen[r].late
  BY DEF Look

\* What a request observes after a step of the specification.
LEMMA SeenNext ==
  ASSUME ChecksNext, NEW r \in Requests
  PROVE  seen'[r] = IF pc'[r] = "idle" THEN NothingSeen ELSE Look(r)
  BY DEF ChecksNext

\* The invariants of one request.
LateFine(r) ==
  seen[r].late =>
    /\ pc[r] = IF LimiterEnabled THEN "limiter" ELSE "verify"
    /\ req[r].id \in DOMAIN tokens
    /\ tokens[req[r].id].revoked

StageFine(r) ==
  /\ pc[r] = "idle" => req[r].row = NoRow
  /\ req[r].row # NoRow =>
       /\ req[r].row.scopes \subseteq seen[r].scopes
       /\ req[r].row.environments \subseteq seen[r].environments
  /\ pc[r] \in {"details", "license", "access", "next"} =>
       seen[r].active /\ req[r].row # NoRow
  /\ pc[r] \in {"access", "next"} => seen[r].served
  /\ pc[r] = "next" => HasAccess(req[r])

\* A request that answers has nothing to remember.
LEMMA IdleFine ==
  ASSUME AuthTypeOK, NEW r \in Requests, ChecksNext, Respond(r)
  PROVE  LateFine(r)' /\ StageFine(r)'
<1>1. pc'[r] = "idle" /\ req'[r] = IdleRequest
  BY DEF Respond, Goto, AuthTypeOK
<1>2. seen'[r] = NothingSeen
  BY <1>1, SeenNext
<1>3. LateFine(r)'
  BY <1>2 DEF LateFine, NothingSeen
<1>4. StageFine(r)'
  BY <1>1 DEF StageFine, IdleRequest
<1> QED BY <1>3, <1>4

\* A step of another request or of the store: the request's token may change,
\* but a revoked one stays revoked.
LEMMA KeptFine ==
  ASSUME AuthTypeOK, SeenTypeOK, RowsKept, ChecksNext, NEW r \in Requests,
         LateFine(r), StageFine(r), pc'[r] = pc[r], req'[r] = req[r]
  PROVE  LateFine(r)' /\ StageFine(r)'
<1>1. CASE pc[r] = "idle"
  <2>1. seen'[r] = NothingSeen
    BY <1>1, SeenNext
  <2>2. LateFine(r)'
    BY <2>1 DEF LateFine, NothingSeen
  <2>3. StageFine(r)'
    BY <1>1 DEF StageFine
  <2> QED BY <2>2, <2>3
<1>2. CASE pc[r] # "idle"
  <2>1. seen'[r] = Look(r)
    BY <1>2, SeenNext
  <2>2. LateFine(r)'
    BY <1>2, <2>1, LookGrows DEF LateFine, RowsKept
  <2>3. StageFine(r)'
    BY <1>2, <2>1, LookGrows DEF StageFine, HasAccess
  <2> QED BY <2>2, <2>3
<1> QED BY <1>1, <1>2

\* Arriving, the request is late when its token is revoked already.
LEMMA ArrivedFine ==
  ASSUME AuthTypeOK, NEW r \in Requests, ChecksNext, Arrived(r), UNCHANGED svars
  PROVE  LateFine(r)' /\ StageFine(r)'
<1>1. /\ pc[r] = "idle" /\ pc'[r] = IF LimiterEnabled THEN "limiter" ELSE "verify"
      /\ req'[r].row = NoRow
  BY DEF Arrived, Goto, AuthTypeOK
<1>2. seen'[r] = Look(r)
  BY <1>1, SeenNext
<1>3. seen'[r].late = (req'[r].id \in DOMAIN tokens /\ tokens[req'[r].id].revoked)
  BY <1>1, <1>2 DEF Look
<1>4. LateFine(r)'
  BY <1>1, <1>3 DEF LateFine, svars
<1>5. StageFine(r)'
  BY <1>1 DEF StageFine
<1> QED BY <1>4, <1>5

\* A query found the token active: the request is not late, has seen it active,
\* and has seen all that the tracked entity grants.
LEMMA QueriedFine ==
  ASSUME AuthTypeOK, SeenTypeOK, NEW r \in Requests, ChecksNext, Queried(r),
         LateFine(r), StageFine(r), UNCHANGED svars
  PROVE  LateFine(r)' /\ StageFine(r)'
<1> DEFINE id == req[r].id
<1>1. /\ pc[r] # "idle" /\ pc'[r] \in {"verify", "details", "license"} /\ Active(id)
      /\ req'[r].id = id
      /\ req'[r].row = IF req[r].row = NoRow THEN tokens[id] ELSE req[r].row
  BY DEF Queried, Found, Goto, AuthTypeOK, Request
<1>2. seen'[r] = Look(r)
  BY <1>1, SeenNext
<1>3. ~seen[r].late
  BY <1>1 DEF LateFine, Active
<1>4. LateFine(r)'
  <2>1. ~seen'[r].late
    BY <1>1, <1>2, <1>3, LookGrows
  <2> QED BY <2>1 DEF LateFine
<1>5. seen'[r].active
  <2>1. Look(r).active = (seen[r].active \/ Active(req'[r].id))
    BY <1>1 DEF Look
  <2> QED
    BY <1>1, <1>2, <2>1
<1>6. /\ tokens[id].scopes \subseteq seen'[r].scopes
      /\ tokens[id].environments \subseteq seen'[r].environments
  BY <1>1, <1>2 DEF Look, Active
<1>7. /\ req'[r].row.scopes \subseteq seen'[r].scopes
      /\ req'[r].row.environments \subseteq seen'[r].environments
  <2>1. CASE req[r].row = NoRow
    BY <1>1, <1>6, <2>1
  <2>2. CASE req[r].row # NoRow
    BY <1>1, <1>2, <2>2, LookGrows DEF StageFine
  <2> QED BY <2>1, <2>2
<1>8. req'[r].row # NoRow
  <2>1. tokens[id] \in Row
    BY <1>1 DEF Active, AuthTypeOK, StoreTypeOK
  <2> QED
    BY <1>1, <2>1, AuthAssumption
<1> QED
  BY <1>1, <1>4, <1>5, <1>7, <1>8 DEF StageFine

\* The checks of the license and of the access.
LEMMA CheckedFine ==
  ASSUME AuthTypeOK, SeenTypeOK, NEW r \in Requests, ChecksNext, Served(r) \/ Passed(r),
         LateFine(r), StageFine(r), UNCHANGED svars
  PROVE  LateFine(r)' /\ StageFine(r)'
<1>1. /\ pc[r] \in {"license", "access"} /\ pc'[r] \in {"access", "next"}
      /\ req'[r] = req[r]
      /\ pc'[r] = "next" => HasAccess(req[r]) /\ pc[r] = "access"
      /\ pc'[r] = "access" => professional \/ FirstToken \in {0, req[r].id}
  BY DEF Served, Passed, Moves, Goto, AuthTypeOK
<1>2. seen'[r] = Look(r)
  BY <1>1, SeenNext
<1>3. ~seen[r].late
  BY <1>1 DEF LateFine
<1>4. LateFine(r)'
  <2>1. ~seen'[r].late
    BY <1>1, <1>2, <1>3, LookGrows
  <2> QED BY <2>1 DEF LateFine
<1>5. seen'[r].served
  <2>1. CASE pc'[r] = "access"
    <3>1. ServedNow(req[r].id)
      BY <1>1, <2>1 DEF ServedNow
    <3>2. Look(r).served = (seen[r].served \/ ServedNow(req'[r].id))
      BY <1>1 DEF Look
    <3> QED
      BY <1>1, <1>2, <3>1, <3>2
  <2>2. CASE pc'[r] = "next"
    BY <1>1, <1>2, <2>2, LookGrows DEF StageFine
  <2> QED BY <1>1, <2>1, <2>2
<1>6. /\ seen'[r].active /\ req'[r].row # NoRow
      /\ req'[r].row.scopes \subseteq seen'[r].scopes
      /\ req'[r].row.environments \subseteq seen'[r].environments
  BY <1>1, <1>2, LookGrows DEF StageFine
<1>7. pc'[r] = "next" => HasAccess(req'[r])
  BY <1>1
<1>8. HasAccess(req[r])' = HasAccess(req'[r])
  BY DEF HasAccess
<1> QED
  BY <1>1, <1>4, <1>5, <1>6, <1>7, <1>8 DEF StageFine

--------------------------------------------------------------------------------
(* The theorems about the specification. *)

LEMMA ChecksInitInv == ChecksInit => ChecksInv
<1> SUFFICES ASSUME ChecksInit PROVE ChecksInv
  OBVIOUS
<1>1. StoreInv /\ StoreTypeOK
  BY StoreInitInv DEF ChecksInit, AuthInit, StoreInv
<1>2. IdleRequest \in Request /\ NothingSeen \in Seen
  BY DEF IdleRequest, Request, NothingSeen, Seen
<1>3. pc \in [Requests -> Steps] /\ req \in [Requests -> Request]
  BY <1>2 DEF ChecksInit, AuthInit, Steps
<1>4. AuthTypeOK
  BY <1>1, <1>3, Zenon DEF ChecksInit, AuthInit, AuthTypeOK
<1>5. SeenTypeOK
  BY <1>2 DEF ChecksInit, SeenTypeOK
<1>6. LateInv
  BY DEF ChecksInit, AuthInit, LateInv, NothingSeen
<1>7. StageInv
  BY DEF ChecksInit, AuthInit, StageInv, IdleRequest
<1> QED BY <1>1, <1>4, <1>5, <1>6, <1>7 DEF ChecksInv

LEMMA ChecksStepInv == ChecksInv /\ [ChecksNext]_cvars => ChecksInv'
<1> SUFFICES ASSUME ChecksInv, [ChecksNext]_cvars PROVE ChecksInv'
  OBVIOUS
<1>1. CASE UNCHANGED cvars
  <2>1. [AuthNext]_avars
    BY <1>1 DEF cvars
  <2>2. AuthTypeOK' /\ StoreInv'
    BY <2>1, AuthTypeStep DEF ChecksInv
  <2>3. SeenTypeOK' /\ LateInv' /\ StageInv'
    BY <1>1 DEF cvars, avars, svars, ChecksInv, SeenTypeOK, LateInv, StageInv, HasAccess
  <2> QED BY <2>2, <2>3 DEF ChecksInv
<1>2. CASE ChecksNext
  <2>1. [AuthNext]_avars /\ AuthNext
    BY <1>2 DEF ChecksNext
  <2>2. AuthTypeOK' /\ StoreInv'
    BY <2>1, AuthTypeStep DEF ChecksInv
  <2>3. SeenTypeOK'
    BY <1>2, SeenTypeStep DEF ChecksInv
  <2>4. RowsKept
    BY <2>1, StoreSteps, StoreKeepsRows DEF ChecksInv, StoreInv
  <2>5. ASSUME NEW r \in Requests PROVE LateFine(r) /\ StageFine(r)
    BY DEF ChecksInv, LateInv, StageInv, LateFine, StageFine
  <2>6. ASSUME NEW r \in Requests PROVE LateFine(r)' /\ StageFine(r)'
    <3>1. CASE pc'[r] = pc[r] /\ req'[r] = req[r]
      BY <1>2, <2>4, <2>5, <3>1, KeptFine DEF ChecksInv
    <3>2. ASSUME NEW q \in Requests, Handle(q) PROVE LateFine(r)' /\ StageFine(r)'
      <4>1. UNCHANGED svars /\ (Arrived(q) \/ Queried(q) \/ Served(q) \/ Passed(q) \/ Respond(q))
        BY <3>2, HandleCases DEF ChecksInv, StoreInv
      <4>2. CASE q # r
        BY <3>1, <4>1, <4>2, OthersKept DEF ChecksInv
      <4>3. CASE q = r
        BY <1>2, <2>5, <4>1, <4>3, ArrivedFine, QueriedFine, CheckedFine, IdleFine
        DEF ChecksInv
      <4> QED BY <4>2, <4>3
    <3>3. CASE (StoreNext /\ UNCHANGED <<professional, pc, req>>) \/ LicenseChanges
      BY <3>1, <3>3 DEF LicenseChanges
    <3> QED BY <2>1, <3>2, <3>3 DEF AuthNext
  <2>7. LateInv' /\ StageInv'
    BY <2>6 DEF LateInv, StageInv, LateFine, StageFine
  <2> QED BY <2>2, <2>3, <2>7 DEF ChecksInv
<1> QED BY <1>1, <1>2

\* Every reachable state satisfies the inductive invariant of the
\* authentication: types, and what each stage of a request has established.
THEOREM ChecksInductive == ChecksSpec => []ChecksInv
  BY ChecksInitInv, ChecksStepInv, PTL DEF ChecksSpec

\* No request that arrives after its token was revoked is forwarded, however
\* its queries interleave with consoles, servers and license changes
\* (TokenAuthMiddleware.InvokeAsync, RevokeTokenAsync).
THEOREM RevokedAlwaysOut == ChecksSpec => []RevokedStaysOut
<1>1. ChecksInv => RevokedStaysOut
  BY DEF ChecksInv, LateInv, RevokedStaysOut
<1> QED BY <1>1, ChecksInductive, PTL

\* Every check a forwarded request passed held at some instant since it arrived,
\* although the access is judged by an entity read by an earlier query.
THEOREM ChecksAlwaysHeld == ChecksSpec => []ChecksHeld
<1>1. ChecksInv => ChecksHeld
  BY DEF ChecksInv, StageInv, ChecksHeld, HasAccess
<1> QED BY <1>1, ChecksInductive, PTL
================================================================================
