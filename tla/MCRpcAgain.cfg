CONSTANTS
  Callers = {2, 4}
  Settings = {"sequence"}
  MaxStarts = 1
  MaxSignals = 0
SPECIFICATION Spec
INVARIANT Calculated
