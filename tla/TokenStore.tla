------------------------------ MODULE TokenStore ------------------------------
(***************************************************************************)
(* The token database (auth.db) and the files of the tokens directory, as  *)
(* the consoles of TokenGenerator and a starting server change them.       *)
(* Every console is a process with a database context of its own: it       *)
(* loads a row, waits for its operator, writes the changed column, and     *)
(* then the file, which is named after the user, not after the token.      *)
(***************************************************************************)
EXTENDS Integers, Sequences

CONSTANTS
  Users,          \* user names; a server generates for ServerName
  ServerName,
  Admins,         \* consoles of TokenGenerator
  Servers,        \* starting servers
  ScopeSets,      \* values of AllowedScopes: the endpoints they grant
  EnvironmentSets,\* values of AllowedEnvironments: the environments they grant
  AllScopes, AllEnvironments,   \* the value "*" of each
  Lifetimes,      \* values of expiresInDays
  Never,          \* ExpiresAt null
  NoFile,
  Failures,       \* whether consoles are killed or cannot write files
  MaxTokens, MaxClock   \* bounds of the model

ASSUME StoreAssumption ==
  /\ ServerName \in Users
  /\ Lifetimes \subseteq Nat
  /\ Never \notin Nat
  /\ AllScopes \in ScopeSets /\ AllEnvironments \in EnvironmentSets
  /\ Failures \in BOOLEAN
  /\ MaxTokens \in Nat /\ MaxClock \in Nat

VARIABLES
  clock,    \* DateTime.UtcNow, in days
  tokens,   \* the table Tokens: the row of Id i is tokens[i]
  files,    \* tokens/{user}.txt: whose token it holds and what it says of it
  at,       \* where each console is in its operation
  job       \* its locals: id, row (the tracked entity), held (the token read from the file)

svars == <<clock, tokens, files, at, job>>

Consoles == Admins \cup Servers
Expiry == Nat \cup {Never}

Row  == [user : Users, revoked : BOOLEAN, expires : Expiry,
         scopes : ScopeSets, environments : EnvironmentSets]
File == [id : Nat, expires : Expiry, scopes : ScopeSets, environments : EnvironmentSets]
Job  == [id : Nat, row : Row, held : Nat]

Stages == {"idle", "insert", "writeFile", "deleteFile", "confirm", "readFile", "saveFile"}

NewRow(user, scopes, environments, expires) ==
  [user |-> user, revoked |-> FALSE, expires |-> expires,
   scopes |-> scopes, environments |-> environments]

IdleJob == [id |-> 0, held |-> 0,
            row |-> NewRow(ServerName, AllScopes, AllEnvironments, Never)]

StoreTypeOK ==
  /\ clock \in Nat
  /\ tokens \in Seq(Row)
  /\ files \in [Users -> File \cup {NoFile}]
  /\ at \in [Consoles -> Stages]
  /\ job \in [Consoles -> Job]

StoreInit ==
  /\ clock = 0
  /\ tokens = <<>>
  /\ files = [u \in Users |-> NoFile]
  /\ at = [a \in Consoles |-> "idle"]
  /\ job = [a \in Consoles |-> IdleJob]

--------------------------------------------------------------------------------
Expired(row) == row.expires # Never /\ row.expires <= clock

\* A filter that forgets RevokedAt.
ActiveUnexpired(i) == i \in DOMAIN tokens /\ ~Expired(tokens[i])

\* The filter of every query of active tokens.
Active(i) == i \in DOMAIN tokens /\ ~tokens[i].revoked /\ ~Expired(tokens[i])

ActiveIds == {i \in DOMAIN tokens : Active(i)}

\* ExpiresAt for a lifetime in days, or for none given.
ExpiryDates == {Never} \cup {clock + d : d \in Lifetimes}

\* What SaveTokenToFileAsync writes of the token `id` with the rights of `row`.
FileOf(id, row) == [id |-> id, expires |-> row.expires,
                    scopes |-> row.scopes, environments |-> row.environments]

Stage(a, s) == at' = [at EXCEPT ![a] = s]

Finish(a) ==
  /\ Stage(a, "idle")
  /\ job' = [job EXCEPT ![a] = IdleJob]

\* The row is added to the database (Id is AUTOINCREMENT).
AddRow(a, row) ==
  /\ Len(tokens) < MaxTokens
  /\ tokens' = Append(tokens, row)
  /\ job' = [job EXCEPT ![a] = [id |-> Len(tokens) + 1, row |-> row, held |-> 0]]
  /\ Stage(a, "writeFile")
  /\ UNCHANGED <<clock, files>>

\* GenerateTokenAsync of a console, up to the database; a file of the same
\* user only makes it ask for a confirmation.
Generate(a, user, scopes, environments, expires) ==
  /\ at[a] = "idle"
  /\ AddRow(a, NewRow(user, scopes, environments, expires))

\* The start of a server: it looks for active tokens ...
StartServer(a) ==
  /\ at[a] = "idle"
  /\ ActiveIds = {}
  /\ Stage(a, "insert")
  /\ UNCHANGED <<clock, tokens, files, job>>

\* ... and generates one when it saw none.
CreateDefault(a) ==
  /\ at[a] = "insert"
  /\ AddRow(a, NewRow(ServerName, AllScopes, AllEnvironments, Never))

\* The end of GenerateTokenAsync: the file of the user is overwritten.
WriteFile(a) ==
  LET j == job[a]
  IN  /\ at[a] = "writeFile"
      /\ files' = [files EXCEPT ![j.row.user] = FileOf(j.id, j.row)]
      /\ Finish(a)
      /\ UNCHANGED <<clock, tokens>>

\* RevokeTokenAsync, the database.
Revoke(a, i) ==
  /\ at[a] = "idle"
  /\ tokens' = [tokens EXCEPT ![i].revoked = TRUE]
  /\ job' = [job EXCEPT ![a] = [id |-> i, row |-> tokens'[i], held |-> 0]]
  /\ Stage(a, "deleteFile")
  /\ UNCHANGED <<clock, files>>

\* RevokeTokenAsync, the file of the token's user, whichever token it holds.
DeleteFile(a) ==
  /\ at[a] = "deleteFile"
  /\ files' = [files EXCEPT ![job[a].row.user] = NoFile]
  /\ Finish(a)
  /\ UNCHANGED <<clock, tokens>>

\* The menus of scopes, environments and expiration show the token first:
\* its row is tracked by the console's context from now on.
Load(a, i) ==
  /\ at[a] = "idle"
  /\ job' = [job EXCEPT ![a] = [id |-> i, row |-> tokens[i], held |-> 0]]
  /\ Stage(a, "confirm")
  /\ UNCHANGED <<clock, tokens, files>>

\* SaveChanges leaves a column as it is stored when it was not modified.
Column(new, tracked, stored) == IF new # tracked THEN new ELSE stored

\* The whole tracked row is written, as with DbSet.Update.
SaveChangesRow(a, row) ==
  /\ at[a] = "confirm"
  /\ tokens' = [tokens EXCEPT ![job[a].id] = row]
  /\ job' = [job EXCEPT ![a].row = row]
  /\ Stage(a, "readFile")
  /\ UNCHANGED <<clock, files>>

\* The operator confirms: SaveChanges writes the columns that differ from the
\* tracked row, which is as old as the menu.
SaveChanges(a, row) ==
  LET old == job[a].row
      id  == job[a].id
      t   == tokens[id]
  IN  /\ at[a] = "confirm"
      /\ tokens' = [tokens EXCEPT ![id] =
           [t EXCEPT !.scopes       = Column(row.scopes, old.scopes, t.scopes),
                     !.environments = Column(row.environments, old.environments, t.environments),
                     !.expires      = Column(row.expires, old.expires, t.expires)]]
      /\ job' = [job EXCEPT ![a].row = row]
      /\ Stage(a, "readFile")
      /\ UNCHANGED <<clock, files>>

UpdateScopes(a, scopes) ==
  SaveChanges(a, [job[a].row EXCEPT !.scopes = scopes])
UpdateEnvironments(a, environments) ==
  SaveChanges(a, [job[a].row EXCEPT !.environments = environments])
UpdateExpiration(a, expires) ==
  SaveChanges(a, [job[a].row EXCEPT !.expires = expires])

\* (a file that is not there is made, of the token itself)
ReadFileAnyway(a) ==
  LET file == files[job[a].row.user]
  IN  /\ at[a] = "readFile"
      /\ job' = [job EXCEPT ![a].held = IF file = NoFile THEN job[a].id ELSE file.id]
      /\ Stage(a, "saveFile")
      /\ UNCHANGED <<clock, tokens, files>>

\* UpdateTokenFileAsync: the token in the user's file is kept ...
ReadFile(a) ==
  LET file == files[job[a].row.user]
  IN  /\ at[a] = "readFile"
      /\ \/ /\ file = NoFile
            /\ Finish(a)
         \/ /\ file # NoFile
            /\ job' = [job EXCEPT ![a].held = file.id]
            /\ Stage(a, "saveFile")
      /\ UNCHANGED <<clock, tokens, files>>

\* The file that is written back is the server's.
SaveFileElsewhere(a) ==
  LET j == job[a]
  IN  /\ at[a] = "saveFile"
      /\ files' = [files EXCEPT ![ServerName] = FileOf(j.held, j.row)]
      /\ Finish(a)
      /\ UNCHANGED <<clock, tokens>>

\* ... and written back with the rights of the tracked row.
SaveFile(a) ==
  LET j == job[a]
  IN  /\ at[a] = "saveFile"
      /\ files' = [files EXCEPT ![j.row.user] = FileOf(j.held, j.row)]
      /\ Finish(a)
      /\ UNCHANGED <<clock, tokens>>

\* The operator declines; or the process is killed, or the file cannot be
\* read, written or deleted (logged only): what was done stays done.
Abandon(a) ==
  /\ at[a] # "idle"
  /\ at[a] = "confirm" \/ Failures
  /\ Finish(a)
  /\ UNCHANGED <<clock, tokens, files>>

Tick ==
  /\ clock < MaxClock
  /\ clock' = clock + 1
  /\ UNCHANGED <<tokens, files, at, job>>

AdminStep(a) ==
  \/ \E u \in Users, s \in ScopeSets, e \in EnvironmentSets, x \in ExpiryDates :
       Generate(a, u, s, e, x)
  \/ \E i \in DOMAIN tokens : Revoke(a, i) \/ Load(a, i)
  \/ \E s \in ScopeSets : UpdateScopes(a, s)
  \/ \E e \in EnvironmentSets : UpdateEnvironments(a, e)
  \/ \E x \in ExpiryDates : UpdateExpiration(a, x)

FileStep(a) == WriteFile(a) \/ ReadFile(a) \/ SaveFile(a)

\* The steps that end no revocation ...
Proceed ==
  \/ \E a \in Admins : AdminStep(a)
  \/ \E a \in Servers : StartServer(a) \/ CreateDefault(a)
  \/ \E a \in Consoles : FileStep(a)
  \/ Tick

\* ... and all.
StoreNext ==
  \/ Proceed
  \/ \E a \in Consoles : DeleteFile(a) \/ Abandon(a)

StoreSpec == StoreInit /\ [][StoreNext]_svars

--------------------------------------------------------------------------------
\* A file holds a token of the user it is named after, whatever consoles
\* overlap, fail or overwrite it (UpdateTokenFileAsync writes back a token it
\* read earlier).
FilesOwned ==
  \A u \in Users : files[u] # NoFile =>
    /\ files[u].id \in DOMAIN tokens
    /\ tokens[files[u].id].user = u

\* A console in the middle of an operation holds rows that exist, and whose
\* users are those of its files.
JobInv ==
  \A a \in Consoles :
    /\ at[a] \in {"writeFile", "deleteFile", "confirm", "readFile", "saveFile"} =>
         /\ job[a].id \in DOMAIN tokens
         /\ tokens[job[a].id].user = job[a].row.user
    /\ at[a] = "saveFile" =>
         /\ job[a].held \in DOMAIN tokens
         /\ tokens[job[a].held].user = job[a].row.user

\* The inductive invariant of the store.
StoreInv == StoreTypeOK /\ FilesOwned /\ JobInv

\* Revoking is final: no console that loaded the row earlier and now saves
\* scopes, environments or an expiration brings the token back (SaveChanges
\* writes the changed columns only).
RevocationFinal ==
  [][\A i \in DOMAIN tokens : tokens[i].revoked =>
       i \in DOMAIN tokens' /\ tokens'[i].revoked]_svars

================================================================================
