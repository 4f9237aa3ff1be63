\* Two consoles that overlap and fail, and a starting server.
CONSTANTS
  Users = {srv, usr}
  ServerName = srv
  Admins = {a1, a2}
  Servers = {s1}
  ScopeSets <- MCScopeSets
  EnvironmentSets <- MCEnvironmentSets
  AllScopes <- MCAllScopes
  AllEnvironments <- MCAllEnvironments
  Lifetimes = {}
  Never = Never
  NoFile = NoFile
  Failures = TRUE
  MaxTokens = 2
  MaxClock = 1
SYMMETRY Symmetry
SPECIFICATION FilesSpec
INVARIANTS FilesOwned RevokedFileGone
PROPERTIES RevocationFinal
CHECK_DEADLOCK FALSE
