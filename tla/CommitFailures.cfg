\* The same managers when any step of a commit may fail as well.
SPECIFICATION Spec
CONSTANTS
  NULL = NULL
  Managers = {updater, deleter}
  Calls = {c1, c2, c3}
  Statements = 2
  FailingSteps = {"statement", "payload", "commit_message", "commit"}
INVARIANTS
  OwnTransactionsAreWhole
  OnlyLeftOverReportsMislead
