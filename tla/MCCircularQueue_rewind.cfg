CONSTANTS
  Elem = {0, 1}
  Zero = 0
  CQ_N = 3
  Word = 9
  Batch = 2
  Rewinds = "any"
SPECIFICATION Spec
CHECK_DEADLOCK FALSE
INVARIANT PeekNAssertHolds
