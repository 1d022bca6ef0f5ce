SPECIFICATION Spec
CONSTANTS
  Prog = {p1, p2}
  Frames = 12
  Reserved = 2
  Direct = 10
  HeapBase = 8
  HeapInit = 1
  MaxHeap = 3
SYMMETRY Symmetry
INVARIANTS TypeOK FrameOwner
CHECK_DEADLOCK FALSE
