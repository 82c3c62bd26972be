CONSTANTS
  Elem = {0, 1}
  Zero = 0
  CQ_N = 4
  Word = 16
  Batch = 2
  Rewinds = "never"
SPECIFICATION FairSpec
CHECK_DEADLOCK FALSE
INVARIANTS TypeOK IInv NoSlotRace PushNeverPanics NoblkNeverWaits
PROPERTIES FifoSpec CallsReturn
