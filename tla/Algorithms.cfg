\* Four columns, two of which may declare a label; two values besides NULL.
SPECIFICATION Spec
CONSTANTS
  NULL = NULL
  Columns = {a, b, c, d}
  LabelColumns = {a, b}
  Values = {v1, v2}
INVARIANTS
  TypeOK
  WalkFindsEveryCycle
  ChainsAreTheHierarchies
  AcceptedPairsHaveOneLevel
  CleanupPassesDropLeastSet
  FullCheckIsDetermination
  RestrictedCheckSuffices
  RetryKeepsType
  OrderMattersOnlyIfSignsClash
PROPERTIES
  WidensUnlessUnsigned
