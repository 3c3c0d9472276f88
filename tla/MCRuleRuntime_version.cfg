\* One key with two watched values, all three consequences bound and room for
\* two open episodes, while the version is paused, resumed, replaced and
\* removed, and restores and reconciliations emit what was missed.
SPECIFICATION BoundedSpec
CONSTANTS
  k1 = k1
  k2 = k2
  w1 = w1
  w2 = w2
  c1 = c1
  Absent = Absent
  NoConflict = NoConflict
  NoWorker = NoWorker
  Watched <- EachWatched
  ConflictKeys = {c1}
  Keys = {k1}
  Values = {r1, r2}
  ConflictKey <- NoneConflict
  Workers = {w1}
  Bound = {"ACTIVATE", "CHANGE", "DEACTIVATE"}
  EmissionModes = {"EMIT_MISSING_EVENTS"}
  Procedures = {"VERSION","RECOVERY"}
  MaxAttempts = 1
  MaxPending = 2
  GroupLimit = 2
  MaxGeneration = 2
  MaxRevision = 1
  MaxClaims = 1
SYMMETRY RowSymmetry
INVARIANTS HistoryComplete OnlyRetriesRemain
PROPERTIES EffectsInOrder
CHECK_DEADLOCK FALSE
