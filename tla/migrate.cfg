CONSTANTS
  Projects <- AllProjects
  CommandLines <- AllCommandLines
  MaxRuns = 2
SPECIFICATION Spec
CHECK_DEADLOCK FALSE
INVARIANT
  MigratedIsComplete
