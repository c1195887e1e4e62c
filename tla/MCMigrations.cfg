CONSTANTS
  m1 = m1
  m2 = m2
  Migrator = {m1, m2}
  NoMigrator = NoMigrator
  Trees <- MCTrees
  Statements <- MCStatements
SPECIFICATION Spec
SYMMETRY Symmetry
INVARIANTS
  SchemaIsLedger
PROPERTIES
  HistoryIsContinued
  ExitCodesAreTrue
