\* A version is replaced under CANCEL_OLD while an episode is leased.
SPECIFICATION CutoverSpec
CONSTANTS
  k1 = k1
  k2 = k2
  w1 = w1
  w2 = w2
  c1 = c1
  Absent = Absent
  NoConflict = NoConflict
  NoWorker = NoWorker
  Watched <- WatchedColumn
  ConflictKeys = {c1}
  Keys = {k1}
  Values <- OneRow
  ConflictKey <- AllConflict
  Workers = {w1}
  Bound = {"ACTIVATE"}
  EmissionModes = {}
  Procedures = {"VERSION"}
  MaxAttempts = 2
  MaxPending = 2
  GroupLimit = 2
  MaxGeneration = 2
  MaxRevision = 1
  MaxClaims = 2
PROPERTIES NoClaimsAfterCancel
CHECK_DEADLOCK FALSE
