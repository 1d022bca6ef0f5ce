SPECIFICATION Spec
CONSTANTS
  Thread = {t1, t2}
  Sizes <- MCSizes
  InitPages = 1
  MaxPages = 5
  MaxHeld = 2
SYMMETRY Symmetry
INVARIANTS Tiling Coalesced OneOwner
CHECK_DEADLOCK FALSE
PROPERTY ImplementsAllocator
