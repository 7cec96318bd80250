CONSTANTS
  Callers = {2, 4}
  Settings = {"sequence", "crowd", "harsh"}
  MaxStarts = 2
  MaxSignals = 1
SPECIFICATION Spec
INVARIANTS RightWhenAlone OwnCall
PROPERTIES AllAnswered InterruptEnds
