SPECIFICATION Spec
CONSTANTS
  Task = {main, t1, t2}
  main = main
  List = {l0, l1, l2}
  first = l0
  NULL = NULL
  Len = 2
  MaxPid = 5
  Creator = {sh, acpi}
  shell = sh
SYMMETRY Symmetry
INVARIANTS Findable SearchSafe NoNullEntry
CHECK_DEADLOCK FALSE
