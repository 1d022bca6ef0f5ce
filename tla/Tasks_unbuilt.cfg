SPECIFICATION Spec
CONSTANTS
  Task = {main, t1, t2, t3}
  main = main
  NULL = NULL
  MaxPid = 5
  MayKill = FALSE
INVARIANT OnlyBuiltTasksRun
SYMMETRY Symmetry
CHECK_DEADLOCK FALSE
