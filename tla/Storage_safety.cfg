SPECIFICATION FairSpec
CONSTANTS
  Caller = {c1, c2}
  Lba = {"boot", "l1"}
  Data = {d1, d2}
  Written <- MCWritten
  Protected <- MCProtected
  Slots = 2
  MaxTries = 2
  MaxPolls = 2
  Others = TRUE
  Blank = Blank
  None = None
INVARIANTS TypeOK AnsweredIsDone
PROPERTIES SlotIntact HolderReturns
