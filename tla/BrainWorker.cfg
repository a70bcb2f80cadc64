SPECIFICATION Spec
CONSTANTS
  Tasks = {t1, t2}
  Facts = {f1}
  Failed = {t1, t2}
  Lines = {l1, l2}
  Digest = digest
  None = None
  Concurrency = 2
  SummaryThreshold = 2
  SummaryCompressed = 1
  MemoryLimit = 1
  MaxJobs = 2
  MaxCandidates = 2
  MaxCrashes = 1
SYMMETRY BrainSymmetry
INVARIANTS
  SummaryMentionsOnce
  PromotionsChain
