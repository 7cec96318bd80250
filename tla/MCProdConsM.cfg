CONSTANTS
  MAX_BUF = 2
  NLOOPS = 20
  Free = Free
  MaxSpurious = 2
SPECIFICATION Spec
INVARIANTS MutexGuardsCounter NoLostWakeup
PROPERTY ImplementsFifo
