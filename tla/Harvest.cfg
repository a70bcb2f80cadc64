SPECIFICATION HarvestSpec
CONSTANTS
  Worlds = {"overworld", "nether"}
  Keys = {"tree", "iron_ore"}
  Names <- MCNames
  Logs = {"oak_log", "birch_log"}
  Ores = {"iron_ore"}
  Home = 0
  Columns = {0, 2, 4}
  VerticalReach = 1
  MaxRadius = 6
  Room = 4
  MaxMishaps = 1
  Situations <- MCSituations
  Radii <- MCRadii
  ChainLimit = 8
  DigReach = 2
  DropRadius = 2
  MineDropRadius = 3
  CollectRadius = 3
  MineRounds = 2
INVARIANTS
  ClustersAreConnected
  CountsWhatItGained
  GivesUpOnlyWhenBare
PROPERTIES
  HarvestEnds
CHECK_DEADLOCK FALSE
