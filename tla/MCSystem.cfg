CONSTANTS
  Programs = {"hello", "plain", "purify", "eraser"}
  Heap = {b1, b2, h}
  Returns = {1}
  Block = {b1, b2}
  word = b1
  MAXTHREADS = 3
  Lock = {l1, l2}
  Crcs = {"crc", "PRINT_STRING"}
  Prints <- MCPrints
  MAXLINE = 16
  MAXFAULTS = 2
  MAXHOSTS = 3
  MAXPRINTS = 2
  b1 = b1
  b2 = b2
  h = h
  l1 = l1
  l2 = l2
SPECIFICATION FairSysSpec
CHECK_DEADLOCK FALSE
INVARIANTS SysTypeOK NeverBroken MissesOnlyMixedLocks
PROPERTIES TracedSpec NoIllegalAccess OddExtrasFail SuccessMeansStarted ExitMeansEnded HostHearsOfEnd HostSettles
