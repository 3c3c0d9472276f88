\* Two keys whose rows share one conflict key, coordinated refreshes, leases that
\* run out, attempts that fail, episodes cancelled and requeued; fair scheduling.
SPECIFICATION BoundedFairSpec
CONSTANTS
  k1 = k1
  k2 = k2
  w1 = w1
  w2 = w2
  c1 = c1
  Absent = Absent
  NoConflict = NoConflict
  NoWorker = NoWorker
  Watched <- WatchedColumn
  ConflictKeys = {c1}
  Keys = {k1, k2}
  Values <- OneRow
  ConflictKey <- AllConflict
  Workers = {w1, w2}
  Bound = {"ACTIVATE"}
  EmissionModes = {}
  Procedures = {"REPAIR", "REFRESH"}
  MaxAttempts = 2
  MaxPending = 2
  GroupLimit = 2
  MaxGeneration = 1
  MaxRevision = 1
  MaxClaims = 3
INVARIANTS TypeOK SettledOnce ConflictExclusion RefreshIsLoop
PROPERTIES LeasesRespected WorkSettles
CHECK_DEADLOCK FALSE
