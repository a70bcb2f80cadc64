SPECIFICATION SkillSpec
CONSTANTS
  Profile = "mining"
  AllowDig = TRUE
  AllowPlaceUp = TRUE
  GoalHalfBlocks = 0
  GoalYRange = 0
  PhaseExpanded = 8
  TotalExpanded = 24
  NoProgressLimits <- MCNoProgressLimits
  TimeBudget = TRUE
  TimeCheck = 64
  MaxDepth = 80
  MaxPlannedAir = 48
  MaxPlannedSolid = 160
  MaxPlannedChanges = 192
  Worlds <- MCWorlds
  Routes <- MCRoutes
  PlaceAttempts = 2
  Items = 1
  MaxDisturbances = 1
  MineMaxExpanded = 3
  MineMaxDepth = 60
  Supplies <- MCSupplies
  Count = 1
  MaxAttempts = 3
  MaxStagnant = 2
  ApproachLimit = 2
INVARIANTS
  WayIsExecutable
  OneChangeAfterAbort
  MinePlanIsExecutable
  MinedIsDug
PROPERTIES
  FallsOneBlock
  MineEndsSometime
CHECK_DEADLOCK FALSE
