CONSTANTS
  MaxCluster = 5
  Slots = 2
  a = a
  Name = {a}
  Size = {2}
  Stray <- Strays
  MaxAfter = 1
SPECIFICATION Spec
INVARIANTS TypeOK WalksEnd OneOwner NothingLeaks
PROPERTY OthersUntouched
CHECK_DEADLOCK FALSE
