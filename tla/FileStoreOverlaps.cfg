\* A request and the timer overlap, on a disk that may fail at any write.
CONSTANTS
  Files = {f1, f2}
  Requests = {r1}
  Timers = {t1}
  Limit = 1
  DiskFails = TRUE
  Absent = Absent
  Truncated = Truncated
  Disposed = Disposed
  MaxUploads = 2
  MaxUsage = 1
SPECIFICATION ChecksSpec
INVARIANTS ServiceInv UploadsKept DeletesFinal CleanUnlessCrossed CacheLimit
CONSTRAINT OneUncrossed
