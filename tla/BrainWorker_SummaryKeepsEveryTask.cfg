SPECIFICATION Spec
CONSTANTS
  Tasks = {t1, t2}
  Facts = {}
  Failed = {t1}
  Lines = {l1, l2}
  Digest = digest
  None = None
  Concurrency = 2
  SummaryThreshold = 2
  SummaryCompressed = 1
  MemoryLimit = 1
  MaxJobs = 2
  MaxCandidates = 0
  MaxCrashes = 0
SYMMETRY BrainSymmetry
INVARIANT SummaryKeepsEveryTask
