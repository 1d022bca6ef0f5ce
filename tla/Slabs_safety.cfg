SPECIFICATION Spec
CONSTANTS
  Thread = {t1, t2, t3}
  Frames = 4
  Slots = 2
  Caps = {1, 2}
  MaxHeld = 2
SYMMETRY Symmetry
INVARIANTS ListIntact NoFrameLost WaitSafe
PROPERTY ImplementsAllocator
CHECK_DEADLOCK FALSE
