\* Two managers on one connection, three calls of two statements; bodies may fail.
SPECIFICATION Spec
CONSTANTS
  NULL = NULL
  Managers = {updater, deleter}
  Calls = {c1, c2, c3}
  Statements = 2
  FailingSteps = {"statement"}
INVARIANTS
  TypeOK
  TransactionalReadsAreCurrent
  LastReportDescribesLastCall
PROPERTIES
  ImplementsAtomicWrites
