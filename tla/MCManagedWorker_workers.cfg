\* The managed worker and one pg-reactd on two versions.
SPECIFICATION Spec
CONSTANTS
  m = m
  d = d
  hi = hi
  lo = lo
  h1 = h1
  h2 = h2
  l1 = l1
  l2 = l2
  k = k
  NoOne = NoOne
  NoConflict = NoConflict
  Callers = {m, d}
  Manager = m
  Versions = {hi, lo}
  Episodes = {h1, h2, l1, l2}
  VersionOf <- MCVersionOf
  ConflictKey <- MCConflictKey
  Salience <- MCSalience
  GroupOf <- MCGroupOf
  GroupLimit <- MCGroupLimit
  Database = "app"
  Settings <- MCSettings
  Trim <- MCTrim
  Blank = ""
  Listed <- MCListed
  MaxU32 = 25
  Texts <- MCTexts
  Worlds <- MCWorlds
  Configurations <- MCConfigurations
  MaxClaims = 2
  MaxCrashes = 1
INVARIANTS TypeOK VersionBudget HeldByOne VersionGateExact
PROPERTIES OrdersAgree ImplementsPool WorkDrains UrgentWorkDrains CoordinationResumes
