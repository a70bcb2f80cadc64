\* Ten ensures in four situations, with at most two mishaps and an interrupt at any await.
SPECIFICATION Spec
CONSTANTS
  Items <- MCItems
  Planks <- MCPlanks
  Recipes <- MCRecipes
  BlockOrder <- MCBlockOrder
  Drops <- MCDrops
  LogBlocks <- MCLogBlocks
  HarvestTools <- MCHarvestTools
  Minable <- MCMinable
  Requests <- MCRequests
  Starts <- MCStarts
  LogsPerTree = {1, 4}
  Candidates = 3
  MishapBound = 2
INVARIANTS
  TableAtHandIsEnough
  MinesWithTheTool
PROPERTIES
  AbortEndsTheChain
  EnsureEnds
CHECK_DEADLOCK FALSE
