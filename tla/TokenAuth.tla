------------------------------- MODULE TokenAuth -------------------------------
(***************************************************************************)
(* The authentication of requests: the last step of the middleware         *)
(* RateLimiter (VerifyTokenAsync) and TokenAuthMiddleware.InvokeAsync,      *)
(* which query the token database up to four times, while the consoles of  *)
(* TokenStore change it and the license manager changes its mind.          *)
(*                                                                         *)
(* All queries of a request share its scoped AuthDbContext.  The filter of *)
(* a query is evaluated by the database; an entity the context has already *)
(* read keeps the column values it was first read with.                    *)
(***************************************************************************)
EXTENDS TokenStore

CONSTANTS
  Requests,
  Endpoints, Environments,
  NoEndpoint, NoEnvironment,   \* a path without an endpoint or environment segment
  NoRow,
  LimiterEnabled               \* RateLimitSettings.Enabled

ASSUME AuthAssumption ==
  /\ NoEndpoint \notin Endpoints /\ NoEnvironment \notin Environments
  /\ ScopeSets \subseteq SUBSET Endpoints
  /\ EnvironmentSets \subseteq SUBSET Environments
  /\ NoRow \notin Row
  /\ LimiterEnabled \in BOOLEAN

VARIABLES
  professional,  \* LicenseManager.IsProfessionalOrHigher
  pc,            \* where each request is
  req            \* id (of the presented token, 0 if no such), endpoint, environment,
                 \* row (the entity tracked by the request's context)

avars == <<svars, professional, pc, req>>

Steps == {"idle", "limiter", "verify", "details", "license", "access", "next"}

Request == [id : Nat,
            endpoint : Endpoints \cup {NoEndpoint},
            environment : Environments \cup {NoEnvironment},
            row : Row \cup {NoRow}]

IdleRequest == [id |-> 0, endpoint |-> NoEndpoint, environment |-> NoEnvironment,
                row |-> NoRow]

AuthTypeOK ==
  /\ StoreTypeOK
  /\ professional \in BOOLEAN
  /\ pc \in [Requests -> Steps]
  /\ req \in [Requests -> Request]

AuthInit ==
  /\ StoreInit
  /\ professional \in BOOLEAN
  /\ pc = [r \in Requests |-> "idle"]
  /\ req = [r \in Requests |-> IdleRequest]

--------------------------------------------------------------------------------
Goto(r, step) == pc' = [pc EXCEPT ![r] = step]

Respond(r) ==
  /\ Goto(r, "idle")
  /\ req' = [req EXCEPT ![r] = IdleRequest]

\* ExtractEnvironmentFromPath and ExtractEndpointName: a path with an endpoint
\* has an environment.
Paths == {p \in (Environments \cup {NoEnvironment}) \X (Endpoints \cup {NoEndpoint}) :
            p[1] = NoEnvironment => p[2] = NoEndpoint}

\* A request with a bearer token; the routes without authentication and the
\* requests without a header read no token.
Arrive(r, id, path) ==
  /\ pc[r] = "idle"
  /\ Goto(r, IF LimiterEnabled THEN "limiter" ELSE "verify")
  /\ req' = [req EXCEPT ![r] = [id |-> id, environment |-> path[1], endpoint |-> path[2],
                                row |-> NoRow]]
  /\ UNCHANGED <<svars, professional>>

\* A query of the active tokens finds the presented one, or answers without it.
\* The entity is tracked from the first query on.
Query(r, here, found) ==
  LET id == req[r].id
  IN  /\ pc[r] = here
      /\ \/ /\ Active(id)
            /\ Goto(r, found)
            /\ req' = [req EXCEPT ![r].row = IF @ = NoRow THEN tokens[id] ELSE @]
         \/ /\ ~Active(id)
            /\ Respond(r)
      /\ UNCHANGED <<svars, professional>>

LimiterVerify(r) == Query(r, "limiter", "verify")
Verify(r)        == Query(r, "verify", "details")
GetDetails(r)    == Query(r, "details", "license")

\* GetFirstTokenAsync: the active token with the lowest Id, 0 for null.
FirstToken ==
  IF ActiveIds = {} THEN 0
  ELSE CHOOSE i \in ActiveIds : \A j \in ActiveIds : i <= j

\* A license check that lets every token pass.
CheckLicenseAny(r) ==
  /\ pc[r] = "license"
  /\ Goto(r, "access")
  /\ UNCHANGED <<svars, professional, req>>

\* Without a professional license only the first token is served.
CheckLicense(r) ==
  /\ pc[r] = "license"
  /\ \/ /\ professional \/ FirstToken \in {0, req[r].id}
        /\ Goto(r, "access")
        /\ UNCHANGED req
     \/ /\ ~professional /\ FirstToken \notin {0, req[r].id}
        /\ Respond(r)
  /\ UNCHANGED <<svars, professional>>

\* One of the two is enough.
HasAccessEither(q) ==
  \/ q.environment # NoEnvironment /\ q.environment \in q.row.environments
  \/ q.endpoint # NoEndpoint => q.endpoint \in q.row.scopes

\* HasAccessToEnvironment and HasAccessToEndpoint of the tracked entity.
HasAccess(q) ==
  /\ q.environment # NoEnvironment => q.environment \in q.row.environments
  /\ q.endpoint # NoEndpoint => q.endpoint \in q.row.scopes

CheckAccess(r) ==
  /\ pc[r] = "access"
  /\ \/ /\ HasAccess(req[r])
        /\ Goto(r, "next")
        /\ UNCHANGED req
     \/ /\ ~HasAccess(req[r])
        /\ Respond(r)
  /\ UNCHANGED <<svars, professional>>

\* The rest of the pipeline answers.
Complete(r) ==
  /\ pc[r] = "next"
  /\ Respond(r)
  /\ UNCHANGED <<svars, professional>>

\* The license is activated, lapses or is removed.
LicenseChanges ==
  /\ professional' = ~professional
  /\ UNCHANGED <<svars, pc, req>>

Handle(r) ==
  \/ \E id \in DOMAIN tokens \cup {0}, path \in Paths : Arrive(r, id, path)
  \/ LimiterVerify(r) \/ Verify(r) \/ GetDetails(r)
  \/ CheckLicense(r) \/ CheckAccess(r) \/ Complete(r)

AuthNext ==
  \/ StoreNext /\ UNCHANGED <<professional, pc, req>>
  \/ \E r \in Requests : Handle(r)
  \/ LicenseChanges

AuthSpec == AuthInit /\ [][AuthNext]_avars
================================================================================
