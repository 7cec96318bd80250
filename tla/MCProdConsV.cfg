CONSTANTS
  MAX_BUF = 2
  NLOOPS = 20
  Settings = {"intended", "harsh"}
  MaxKills = 1
SPECIFICATION Spec
INVARIANTS MutexReturned AllConsumed
PROPERTIES FifoSafety CleanEnd
