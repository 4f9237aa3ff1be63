SPECIFICATION Spec
CONSTANTS
  QueueCapacity = 2
  BatchSize = 2
  MaxFileSize = 3
  MaxFileCount = 1
  MaxRequests = 5
  MaxTime = 2
INVARIANTS
  TrafficTypeOK
  InOrder
  Accounted
  FilesBounded
PROPERTIES
  Journaled
  Logged
