CONSTANTS
  Tables <- MCTables
  Derived <- MCDerived
  Content <- MCContent
  Views <- MCViews
  Conditions = {"v"}
  Texts <- MCTexts
  Trees <- MCTrees
  Columns <- MCColumns
  KeyColumn = 1
  FactTable = "derived_facts"
  MaxViewDepth = 3
SPECIFICATION BoundedSpec
INVARIANTS
  LineageExact
  DirectIsStored
  OperatorIsComputed
PROPERTIES
  SupportsKeepKeys
