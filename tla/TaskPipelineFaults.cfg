SPECIFICATION FairSpec
CONSTANTS
  Messages = {m1, m2}
  Controls = {}
  None = None
  SinkMayFail = TRUE
  MaxCrashes = 1
INVARIANTS
  RecordsAreTruthful
PROPERTIES
  JobsSettle
