\* A label column declared as the parent of another column.
SPECIFICATION Spec
CONSTANTS
  NULL = NULL  ABSENT = ABSENT
  k = k  c = c  l = l  d = d  p = p  v1 = v1  v2 = v2
  Columns <- LinkColumns
  CellValues <- LinkValues
  KeyChoices = {{k}}
  SortKeyChoices = {{c}}
  ColumnTypes <- LinkTypes
  ParentChoices <- LinkParents
  LabelChoices <- LinkLabels
  CategoricalChoices <- LinkFlags
  check_duplicates_db = TRUE
  MaxBuiltRows = 0
  MaxRows = 1
  MaxBatch = 1
INVARIANT NoLabelColumnInHierarchy
