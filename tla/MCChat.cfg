CONSTANTS
  Peers = {a, b}
  Nobody = Nobody
  MAX_CLIENT = 2
  Crowd = 2
  MaxTexts = 2
  MaxUnread = 2
SPECIFICATION AnySpec
INVARIANT CrashesOnlyEarly
PROPERTIES Served Ends
CHECK_DEADLOCK FALSE
