CONSTANTS
  MAX_BUF = 2
  NLOOPS = 20
SPECIFICATION Spec
INVARIANTS TypeOK TokensConserved CounterExact FinalReport NobodyLeftWaiting
PROPERTY ImplementsFifo
