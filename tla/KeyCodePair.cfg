\* A pair whose code is one of two key columns: four columns, two rows.
SPECIFICATION Spec
CONSTANTS
  NULL = NULL  ABSENT = ABSENT
  k = k  c = c  l = l  d = d  p = p  v1 = v1  v2 = v2
  Columns <- KeyedColumns
  CellValues <- KeyedValues
  KeyChoices = {{k, c}}
  SortKeyChoices = {}
  ColumnTypes <- KeyedTypes
  ParentChoices <- KeyedNeverPassed
  CategoricalChoices <- KeyedNeverPassed
  LabelChoices <- KeyedLabels
  check_duplicates_db = FALSE
  MaxBuiltRows = 1
  MaxRows = 2
  MaxBatch = 1
INVARIANT PairsHold
