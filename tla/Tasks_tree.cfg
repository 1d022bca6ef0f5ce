SPECIFICATION FairSpec
CONSTANTS
  Task = {main, t1, t2, t3}
  main = main
  NULL = NULL
  MaxPid = 5
  MayKill = TRUE
INVARIANTS TypeOK SiblingRings NextChild NoTaskLost CurrentAlive
PROPERTY ReadyRuns
CHECK_DEADLOCK FALSE
