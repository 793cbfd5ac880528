\* Rows and pairs: three columns, two values, at most three rows.
SPECIFICATION Spec
CONSTANTS
  NULL = NULL  ABSENT = ABSENT
  k = k  c = c  l = l  d = d  p = p  v1 = v1  v2 = v2
  Columns <- DataColumns
  CellValues <- DataValues
  KeyChoices <- DataKeys
  SortKeyChoices = {}
  ColumnTypes <- DataTypes
  ParentChoices <- NeverPassed
  CategoricalChoices <- NeverPassed
  LabelChoices <- DataLabels
  check_duplicates_db = FALSE
  MaxBuiltRows = 1
  MaxRows = 3
  MaxBatch = 2
SYMMETRY DataSymmetry
INVARIANTS
  TypeOK
  PrimaryKeyUnique
  ValuePairsHold
