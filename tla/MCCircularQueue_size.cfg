CONSTANTS
  Elem = {0, 1}
  Zero = 0
  CQ_N = 3
  Word = 8
  Batch = 1
  Rewinds = "never"
SPECIFICATION Spec
CHECK_DEADLOCK FALSE
INVARIANT PushNeverPanics
