---------------------------- MODULE TokenAuthChecks ----------------------------
(***************************************************************************)
(* TokenAuth with an observer of what was true of a request's token at     *)
(* some instant since the request arrived, and what was when it arrived.   *)
(***************************************************************************)
EXTENDS TokenAuth

VARIABLE
  seen   \* of each request: late (its token was revoked already when it arrived),
         \* and active, served, scopes, environments (true, or granted, at some
         \* instant since)

cvars == <<avars, seen>>

Seen == [late : BOOLEAN, active : BOOLEAN, served : BOOLEAN,
         scopes : SUBSET Endpoints, environments : SUBSET Environments]

SeenTypeOK == seen \in [Requests -> Seen]

NothingSeen == [late |-> FALSE, active |-> FALSE, served |-> FALSE,
                scopes |-> {}, environments |-> {}]

\* What is true of token `id` now.
ServedNow(id) == professional \/ FirstToken \in {0, id}

\* The state before the step, as request r sees it, joined to what it has seen.
Look(r) ==
  LET id == req'[r].id
      old == IF pc[r] = "idle" THEN NothingSeen ELSE seen[r]
      known == id \in DOMAIN tokens
  IN  [late   |-> IF pc[r] = "idle" THEN known /\ tokens[id].revoked ELSE old.late,
       active |-> old.active \/ Active(id),
       served |-> old.served \/ ServedNow(id),
       scopes |-> old.scopes \cup IF known THEN tokens[id].scopes ELSE {},
       environments |-> old.environments \cup IF known THEN tokens[id].environments ELSE {}]

ChecksInit == AuthInit /\ seen = [r \in Requests |-> NothingSeen]

ChecksNext ==
  /\ AuthNext
  /\ seen' = [r \in Requests |-> IF pc'[r] = "idle" THEN NothingSeen ELSE Look(r)]

ChecksSpec == ChecksInit /\ [][ChecksNext]_cvars

--------------------------------------------------------------------------------
\* "All future API requests using this token will be rejected" (security
\* guide): no request that arrives after its token was revoked is forwarded,
\* whatever consoles and requests overlap.
RevokedStaysOut == \A r \in Requests : pc[r] = "next" => ~seen[r].late

\* Every check a forwarded request passed held at some instant since it
\* arrived: its token was active, granted the endpoint and the environment, and
\* was served under the license.  No answer is older than the request, although
\* the access check reads an entity that may be older than the last query.
ChecksHeld ==
  \A r \in Requests : pc[r] = "next" =>
    /\ seen[r].active
    /\ seen[r].served
    /\ req[r].endpoint # NoEndpoint => req[r].endpoint \in seen[r].scopes
    /\ req[r].environment # NoEnvironment => req[r].environment \in seen[r].environments

\* A request whose token was revoked before it arrived is at its first query.
LateInv ==
  \A r \in Requests : seen[r].late =>
    /\ pc[r] = IF LimiterEnabled THEN "limiter" ELSE "verify"
    /\ req[r].id \in DOMAIN tokens
    /\ tokens[req[r].id].revoked

\* What each stage of a request has established.
StageInv ==
  \A r \in Requests :
    /\ pc[r] = "idle" => req[r].row = NoRow
    /\ req[r].row # NoRow =>
         /\ req[r].row.scopes \subseteq seen[r].scopes
         /\ req[r].row.environments \subseteq seen[r].environments
    /\ pc[r] \in {"details", "license", "access", "next"} =>
         seen[r].active /\ req[r].row # NoRow
    /\ pc[r] \in {"access", "next"} => seen[r].served
    /\ pc[r] = "next" => HasAccess(req[r])

\* The inductive invariant of the authentication and its observer.
ChecksInv == StoreInv /\ AuthTypeOK /\ SeenTypeOK /\ LateInv /\ StageInv
================================================================================
