\* A logical restore while one of two episodes that share a conflict key is leased.
SPECIFICATION BoundedSpec
CONSTANTS
  k1 = k1
  k2 = k2
  w1 = w1
  w2 = w2
  c1 = c1
  Absent = Absent
  NoConflict = NoConflict
  NoWorker = NoWorker
  Watched <- WatchedColumn
  ConflictKeys = {c1}
  Keys = {k1, k2}
  Values <- OneRow
  ConflictKey <- AllConflict
  Workers = {w1}
  Bound = {"ACTIVATE"}
  EmissionModes = {"STATE_ONLY"}
  Procedures = {"RECOVERY"}
  MaxAttempts = 2
  MaxPending = 2
  GroupLimit = 2
  MaxGeneration = 1
  MaxRevision = 1
  MaxClaims = 2
INVARIANTS OneLeasePerConflictKey
CHECK_DEADLOCK FALSE
