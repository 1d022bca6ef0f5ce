CONSTANTS
  MaxCluster = 6
  Slots = 2
  a = a
  Name = {a}
  Size = {2}
  Stray <- Strays
  MaxAfter = 0
SPECIFICATION Spec
INVARIANT GrownZeroed
CHECK_DEADLOCK FALSE
