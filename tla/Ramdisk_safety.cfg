CONSTANTS
  e1 = e1
  e2 = e2
  e3 = e3
  Node = {e1, e2, e3}
  NULL = NULL
  Name = {"a", "b", "c"}
  Bucket = {1, 2}
  hash <- MCHash
  Char = {"x", "y"}
  Texts <- MCTexts
  Path = {"p"}
  Trap <- MCTrap
SPECIFICATION RamSpec
SYMMETRY Symmetry
INVARIANTS ChainsIntact OnlyMidway
PROPERTY OthersKept
CHECK_DEADLOCK FALSE
