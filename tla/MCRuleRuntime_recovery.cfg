\* One key with two watched values, refreshed, restored and reconciled in either
\* mode while its episodes are claimed and executed.
SPECIFICATION BoundedSpec
CONSTANTS
  k1 = k1
  k2 = k2
  w1 = w1
  w2 = w2
  c1 = c1
  Absent = Absent
  NoConflict = NoConflict
  NoWorker = NoWorker
  Watched <- WatchedColumn
  ConflictKeys = {c1}
  Keys = {k1}
  Values <- TwoRows
  ConflictKey <- NoneConflict
  Workers = {w1}
  Bound = {"ACTIVATE", "CHANGE"}
  EmissionModes = {"STATE_ONLY", "EMIT_MISSING_EVENTS"}
  Procedures = {"REFRESH", "RECOVERY"}
  MaxAttempts = 1
  MaxPending = 1
  GroupLimit = 2
  MaxGeneration = 2
  MaxRevision = 2
  MaxClaims = 1
INVARIANTS HistoryCoherent StateMirrorsMatch
PROPERTIES EffectsMatchRelation ImplementsLifecycle
CHECK_DEADLOCK FALSE
