\* One request, since requests share nothing they write, against a console
\* that changes the token it presents between its queries.
CONSTANTS
  Users = {srv}
  ServerName = srv
  Admins = {a1}
  Servers = {}
  ScopeSets <- MCScopeSets
  EnvironmentSets <- MCEnvironmentSets
  AllScopes <- MCAllScopes
  AllEnvironments <- MCAllEnvironments
  Lifetimes = {1}
  Never = Never
  NoFile = NoFile
  Failures = FALSE
  MaxTokens = 2
  MaxClock = 1
  Requests = {r1}
  Endpoints = {"Products"}
  Environments = {"600"}
  NoEndpoint = NoEndpoint
  NoEnvironment = NoEnvironment
  NoRow = NoRow
  LimiterEnabled = TRUE
SPECIFICATION ChecksSpec
INVARIANTS RevokedStaysOut ChecksHeld ChecksInv
