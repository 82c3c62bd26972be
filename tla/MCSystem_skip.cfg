CONSTANTS
  Programs = {"plain"}
  Heap = {b1}
  Returns = {0, 1}
  Block = {}
  word = b1
  MAXTHREADS = 2
  Lock = {}
  Crcs = {"crc"}
  Prints = {}
  MAXLINE = 16
  MAXFAULTS = 0
  MAXHOSTS = 1
  MAXPRINTS = 0
  b1 = b1
SPECIFICATION FairSysSpec
CHECK_DEADLOCK FALSE
PROPERTY TracedSafety
