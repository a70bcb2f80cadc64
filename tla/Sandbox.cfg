SPECIFICATION FairSpec
CONSTANTS
  Calls = {c1, c2, c3}
  None = None
INVARIANTS
  ReportedIsFirstClass
PROPERTIES
  ReturnIsClean
  NothingAfterTerminal
  Returns
  ContractSpec
