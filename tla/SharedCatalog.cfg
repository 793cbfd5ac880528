\* Two processes, three calls among sixteen; they stop once the calls are made.
SPECIFICATION SharedSpec
CONSTANTS
  NULL = NULL  ABSENT = ABSENT
  k = k  c = c  l = l  p = p  v1 = v1  v2 = v2  v3 = v3
  Columns <- SharedColumns
  CellValues <- SharedValues
  KeyChoices = {{k}}
  SortKeyChoices = {{p}}
  ColumnTypes <- SharedTypes
  ParentChoices <- SharedParents
  LabelChoices <- SharedLabels
  CategoricalChoices <- SharedFlags
  check_duplicates_db = TRUE
  MaxBuiltRows = 0
  MaxRows = 4
  MaxBatch = 1
  Processes = {first, second}
  Calls <- MCCalls
  Built <- MCBuilt
  History <- MCHistory
  MaxCalls = 3
SYMMETRY Interchangeable
CHECK_DEADLOCK FALSE
INVARIANTS
  SharedTypeOK
  PairsSurviveWriters
  LinksSurviveWriters
  MembersSurviveWriters
  KeysSurviveWriters
  SortKeySurvivesWriters
  AuditDecidesInvariants
PROPERTIES
  CommitsAreCalls
