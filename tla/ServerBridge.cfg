SPECIFICATION FairSpec
CONSTANTS
  Slots = {c1, c2}
  Messages = {m1}
  None = None
  LongDelay = 1
  MaxGlitches = 2
INVARIANTS
  ConnectedIsBacked
PROPERTIES
  Reconnects
  BrokenIsForgotten
CHECK_DEADLOCK FALSE
