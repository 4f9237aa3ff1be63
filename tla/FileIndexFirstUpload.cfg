SPECIFICATION FairSpec
CONSTANTS
  Envs = {e1}
  Names = {n1}
  Requests = {r1, r2}
  Timers = {t1}
  Providers = {"memory"}
  None = None
PROPERTY
  UpdatesEnd
