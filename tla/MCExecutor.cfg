\* execute() returns, and Terminates finds every other way to stop.
CHECK_DEADLOCK FALSE
SPECIFICATION Spec
CONSTANTS
  Names = {"a", "b", "c", "d", "e", "pip"}
  Pip = "pip"
  Repos = {"none", "r1", "r2"}
  Plans <- AllPlans
  MaxWorkers = 2
  MaxInterrupts = 2
INVARIANTS
  PoolIsOrderly
  ReportIsTrue
PROPERTIES
  RefinesInstallPlan
