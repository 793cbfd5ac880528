SPECIFICATION Spec
CONSTANTS
  NULL = NULL
  Rows = {1, 2, 3, 4}
  SortValue <- MCSortValue
  TargetFileSize = 2
  Policies <- MCPolicies
  PlannedPolicy <- MCPlanned
  Requests <- MCRequests
  MaxFailures = 1
INVARIANTS StorageTypeOK OnlySweptFilesAreMissing
PROPERTIES OptInOnly MaintenanceIsInvisible StorageSettles
