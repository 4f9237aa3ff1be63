--------------------------- MODULE TokenStoreChecks ----------------------------
(***************************************************************************)
(* TokenStore with an observer of the revocations that cannot delete what  *)
(* they should: those whose file is not deleted, and those that another    *)
(* console's write overtakes.                                              *)
(***************************************************************************)
EXTENDS TokenStore

VARIABLE
  escaped   \* revoked tokens whose file a revocation left, or could not yet see

fvars == <<svars, escaped>>

\* The tokens that consoles are about to write into the file of user u.
Coming(u) ==
  {job[b].id : b \in {c \in Consoles : at[c] = "writeFile" /\ job[c].row.user = u}}
    \cup {job[b].held : b \in {c \in Consoles : at[c] = "saveFile" /\ job[c].row.user = u}}

\* The token in the file of user u.
Present(u) == IF files[u] = NoFile THEN {} ELSE {files[u].id}

RevokedOf(ids) == {i \in ids : tokens[i].revoked}

FilesInit == StoreInit /\ escaped = {}

\* A revocation deletes the file, and not what is on its way there ...
Deleted(a) ==
  /\ DeleteFile(a)
  /\ escaped' = escaped \cup RevokedOf(Coming(job[a].row.user))

\* ... or does not delete it; other operations that fail write nothing.
Abandoned(a) ==
  /\ Abandon(a)
  /\ escaped' = IF at[a] = "deleteFile"
                  THEN escaped \cup RevokedOf(Coming(job[a].row.user) \cup Present(job[a].row.user))
                  ELSE escaped

FilesNext ==
  \/ Proceed /\ UNCHANGED escaped
  \/ \E a \in Consoles : Deleted(a) \/ Abandoned(a)

FilesSpec == FilesInit /\ [][FilesNext]_fvars

--------------------------------------------------------------------------------
Quiet == \A a \in Consoles : at[a] \in {"idle", "confirm"}

\* "The token file is deleted from the tokens/ directory" when a token is revoked
\* (security guide), however many consoles generate, update and revoke: when none of
\* them is at work, a file that holds a revoked token is one that a revocation failed
\* to delete, or was written by a console that had the token in hand at that moment.
RevokedFileGone ==
  Quiet => \A u \in Users : RevokedOf(Present(u)) \subseteq escaped

\* A revocation of a token of user u has yet to delete the file.
Revoking(u) == \E a \in Consoles : at[a] = "deleteFile" /\ job[a].row.user = u

\* The inductive part: a revoked token is in a file, or on its way there, only while
\* a revocation is under way, or because it has escaped one.
EscapedInv ==
  /\ escaped \subseteq DOMAIN tokens
  /\ \A u \in Users : Revoking(u) \/ RevokedOf(Coming(u) \cup Present(u)) \subseteq escaped
================================================================================
