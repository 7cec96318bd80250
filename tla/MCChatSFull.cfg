CONSTANTS
  Peers = {a, b, c}
  Nobody = Nobody
  MAX_CLIENT = 2
  Crowd = 3
  MaxTexts = 0
SPECIFICATION Spec
INVARIANT OwnEntry
