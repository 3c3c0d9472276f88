SPECIFICATION Spec
CONSTANTS
  s1 = s1
  s2 = s2
  Slots = {s1, s2}
  Null = Null
  Absent = Absent
  NoRun = NoRun
  MaxGeneration = 2
  Tuples <- MCTuples
  TypedKeys <- MCTypedKeys
  Version <- MCVersion
  Sha256 <- MCSha256
SYMMETRY SlotSymmetry
INVARIANTS
  TypeOK
  ActiveKeysMatch
  CanonicalKeysDistinct
PROPERTIES
  QuietRunsIdentify
  ImplementsOracle
