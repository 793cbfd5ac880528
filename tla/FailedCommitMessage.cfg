\* A commit message that json.dumps refuses, then another call.
SPECIFICATION Spec
CONSTANTS
  NULL = NULL
  Managers = {updater, deleter}
  Calls = {c1, c2}
  Statements = 2
  FailingSteps = {"payload"}
INVARIANT SuccessIsDurable
