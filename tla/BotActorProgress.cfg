SPECIFICATION FairSpec
CONSTANTS
  Jobs = {j1, j2}
  Reflexes = {x1}
  Controls = {}
  Replies = {r1}
  Login = login
  None = None
  InitialAuth = {"pending", "failed"}
  HasReflexExecutor = TRUE
INVARIANTS
  ChatIsSerial
PROPERTIES
  ExecutionsEnd
