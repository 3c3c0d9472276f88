\* Restores and reconciliations of one key with an unwatched column.
SPECIFICATION BoundedSpec
CONSTANTS
  k1 = k1
  k2 = k2
  w1 = w1
  w2 = w2
  c1 = c1
  Absent = Absent
  NoConflict = NoConflict
  NoWorker = NoWorker
  Watched <- WatchedColumn
  ConflictKeys = {c1}
  Keys = {k1}
  Values <- ThreeRows
  ConflictKey <- AllConflict
  Workers = {w1}
  Bound = {}
  EmissionModes = {"STATE_ONLY"}
  Procedures = {"RECOVERY"}
  MaxAttempts = 2
  MaxPending = 2
  GroupLimit = 2
  MaxGeneration = 2
  MaxRevision = 1
  MaxClaims = 2
INVARIANTS LatestBindings
CHECK_DEADLOCK FALSE
