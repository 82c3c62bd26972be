CONSTANTS
  HEAP = 7
  Unit = 2
  Word = 32
  Requests = {1, 3, 4}
SPECIFICATION TestSpec
PROPERTY SameBase
