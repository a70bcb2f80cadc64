SPECIFICATION Spec
CONSTANTS
  Jobs = {j1, j2}
  Reflexes = {x1, x2}
  Controls = {c1}
  Replies = {}
  Login = login
  None = None
  InitialAuth = {"not_required"}
  HasReflexExecutor = TRUE
SYMMETRY ActorSymmetry
INVARIANTS
  SingleWriter
  StatusMatchesExecution
  InterruptWins
  TaskEventsAlternate
PROPERTIES
  CauseReplacedOnlyByReflex
  ShutdownIsFinal
  ContractSpec
