SPECIFICATION ChecksSpec
CONSTANTS
  e1 = e1
  n1 = n1
  n2 = n2
  r1 = r1
  t1 = t1
  Envs = {e1}
  Names = {n1, n2}
  Requests = {r1}
  Timers = {t1}
  Providers = {"memory", "redis", "disabled"}
  None = None
SYMMETRY Symmetry
INVARIANTS
  FileIndexTypeOK
  ListedExist
  UploadsListed
  HolderMoves
