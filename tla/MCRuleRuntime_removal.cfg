\* A version is paused and removed while an episode waits for its retry.
SPECIFICATION BoundedSpec
CONSTANTS
  k1 = k1
  k2 = k2
  w1 = w1
  w2 = w2
  c1 = c1
  Absent = Absent
  NoConflict = NoConflict
  NoWorker = NoWorker
  Watched <- WatchedColumn
  ConflictKeys = {c1}
  Keys = {k1}
  Values <- OneRow
  ConflictKey <- AllConflict
  Workers = {w1}
  Bound = {"ACTIVATE"}
  EmissionModes = {}
  Procedures = {"VERSION"}
  MaxAttempts = 2
  MaxPending = 2
  GroupLimit = 2
  MaxGeneration = 2
  MaxRevision = 1
  MaxClaims = 2
INVARIANTS RemovedIsDrained
CHECK_DEADLOCK FALSE
