\* A signed integer column merged with a batch of unsigned integers.
SPECIFICATION Spec
CONSTANTS
  NULL = NULL
  Columns = {a, b, c, d}
  LabelColumns = {a, b}
  Values = {v1, v2}
PROPERTY WideningOnly
