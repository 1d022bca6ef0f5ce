SPECIFICATION FairSpec
CONSTANTS
  N = 3
  Paths <- MCPaths
INVARIANTS TypeOK NoCycle UnitConserved
PROPERTY Progress
CHECK_DEADLOCK FALSE
