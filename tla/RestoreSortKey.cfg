\* One process, one call.
SPECIFICATION SharedSpec
CONSTANTS
  NULL = NULL  ABSENT = ABSENT
  k = k  c = c  l = l  p = p  v1 = v1  v2 = v2  v3 = v3
  Columns <- SharedColumns
  CellValues <- SharedValues
  KeyChoices = {{k}}
  SortKeyChoices = {{p}}
  ColumnTypes <- SharedTypes
  ParentChoices <- SharedParents
  LabelChoices <- SharedLabels
  CategoricalChoices <- SharedFlags
  check_duplicates_db = TRUE
  MaxBuiltRows = 0
  MaxRows = 4
  MaxBatch = 1
  Processes = {1}
  Calls <- MCCalls
  Built <- MCBuilt
  History <- MCHistory
  MaxCalls = 1
CHECK_DEADLOCK FALSE
INVARIANT SortKeyAgrees
