CONSTANTS
  Peers = {a, b, c}
  Nobody = Nobody
  MAX_CLIENT = 3
  Crowd = 3
  MaxTexts = 1
SPECIFICATION Spec
INVARIANTS OwnEntry NeverBlocks Faithful DiesOnlyOfReset
SYMMETRY Symmetry
