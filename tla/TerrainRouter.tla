--------------------------- MODULE TerrainRouter ---------------------------
(***************************************************************************)
(* planTerrainRoute (runtime/transport/terrain/router.ts): a best-first    *)
(* search for a way from one foot position to another, in up to four       *)
(* phases, each allowed to change more of the terrain than the one before. *)
(*                                                                         *)
(* A node of the search carries the cells its actions will have dug (air)  *)
(* and filled (solid), so an action is judged in the world the actions     *)
(* before it would leave.  One step expands one node.  The heap is the set *)
(* `open`, from which a node with the least priority and then the least    *)
(* cost is taken; which of several equal ones is open.  A position is a    *)
(* foot, the cell of the bot's feet.                                       *)
(***************************************************************************)
EXTENDS BlockFacts, FiniteSets, SequencesExt

CONSTANTS
  Profile,           \* "normal" or "mining"
  AllowDig, AllowPlaceUp,
  GoalHalfBlocks,    \* goalRange, in halves of a block: 3 is the 1.5 of goTo
  GoalYRange,
  PhaseExpanded,     \* routeBudget: nodes expanded in a phase, and in all phases
  TotalExpanded,
  NoProgressLimits,  \* routeBudget: limits set for some of the phases, by name
  TimeBudget,        \* routeBudget: whether it bounds the time
  TimeCheck,         \* expansions between two looks at the clock: 64 in the code
  MaxDepth, MaxPlannedAir, MaxPlannedSolid, MaxPlannedChanges   \* limits on a node

ASSUME RouterAssumption ==
  /\ Profile \in {"normal", "mining"} /\ {AllowDig, AllowPlaceUp, TimeBudget} \subseteq BOOLEAN
  /\ {GoalHalfBlocks, GoalYRange, TotalExpanded, MaxDepth, MaxPlannedAir,
      MaxPlannedSolid, MaxPlannedChanges} \subseteq Nat
  /\ {PhaseExpanded, TimeCheck} \subseteq Nat \ {0}

VARIABLES
  world,        \* the loaded blocks
  selfPlaced,   \* the positions remembered as filled by the bot itself
  targetFoot,
  search        \* the search under way, or what it ended with

COST_WALK == 6
COST_DROP1 == 7
COST_JUMP_UP == 7
COST_TERRAIN_CHANGE_BASE == 24
COST_TERRAIN_CHANGE_PER_BLOCK == 6
COST_PLACE_UP_ITEM_PENALTY == 6
COST_TURN_PENALTY == 2

Block(p) == ReadBlockAt(world, p)

(***************************************************************************)
(* The phases, from those that leave the terrain alone.                    *)
(***************************************************************************)
NoProgress(phase, fallback) ==
  IF phase \in DOMAIN NoProgressLimits THEN NoProgressLimits[phase] ELSE fallback

Natural ==
  [name |-> "natural", dig |-> FALSE, placeUp |-> FALSE, digs |-> 0, places |-> 0,
   drops |-> 5,
   noProgress |-> NoProgress("natural", IF Profile = "mining" THEN 6 ELSE 3)]
LightDig ==
  IF Profile = "mining"
  THEN [Natural EXCEPT !.name = "light_dig", !.dig = TRUE, !.digs = 8, !.drops = 16,
                       !.noProgress = NoProgress("light_dig", 10)]
  ELSE [Natural EXCEPT !.name = "light_dig", !.dig = TRUE, !.digs = 2, !.drops = 8,
                       !.noProgress = NoProgress("light_dig", 5)]
LightPlace ==
  [Natural EXCEPT !.name = "light_place", !.dig = AllowDig, !.placeUp = TRUE, !.places = 1,
                  !.digs  = IF Profile = "mining" THEN 12 ELSE 2,
                  !.drops = IF Profile = "mining" THEN 24 ELSE 8,
                  !.noProgress =
                    NoProgress("light_place", IF Profile = "mining" THEN 12 ELSE 5)]
Relaxed ==
  [Natural EXCEPT !.name = "relaxed", !.dig = AllowDig, !.placeUp = AllowPlaceUp,
                  !.digs   = IF ~ AllowDig THEN 0
                             ELSE IF Profile = "mining" THEN MaxPlannedAir ELSE 16,
                  !.places = IF AllowPlaceUp THEN MaxPlannedSolid ELSE 0,
                  !.drops  = IF Profile = "mining" THEN 64 ELSE 16,
                  !.noProgress =
                    NoProgress("relaxed", IF Profile = "mining" THEN 16 ELSE 8)]
CreateSearchPhases ==
  <<Natural>> \o (IF AllowDig THEN <<LightDig>> ELSE << >>)
    \o (IF AllowPlaceUp THEN <<LightPlace>> ELSE << >>) \o <<Relaxed>>

(***************************************************************************)
(* Distances.  Scores are in half blocks, a vertical miss weighing most.   *)
(***************************************************************************)
HorizontalMiss(foot) == MaxOf(0, 2 * HorizontalDistance(foot, targetFoot) - GoalHalfBlocks)
VerticalMiss(foot)   == MaxOf(0, AbsOf(foot[2] - targetFoot[2]) - GoalYRange)
GoalDistanceScore(foot) == VerticalMiss(foot) * 2000 + HorizontalMiss(foot)
IsGoal(foot) == HorizontalMiss(foot) = 0 /\ VerticalMiss(foot) = 0

RouteHeuristic(foot) ==
  LET placeUpCost == COST_TERRAIN_CHANGE_BASE + COST_PLACE_UP_ITEM_PENALTY
  IN  ((HorizontalMiss(foot) + 1) \div 2) * COST_WALK
        + VerticalMiss(foot) * (IF foot[2] < targetFoot[2] THEN placeUpCost ELSE COST_DROP1)

(***************************************************************************)
(* A cell in the world a node's actions would leave.                       *)
(***************************************************************************)
IsPassable(n, p) == p \notin n.solid /\ (p \in n.air \/ IsAirBlock(Block(p)))
IsWalkableSupport(n, p) == p \in n.solid \/ (p \notin n.air /\ IsSupportBlock(Block(p)))
\* mutant: the topmost cell is not looked at.
HasClearance_OneShort(n, foot, height) ==
  \A i \in 1..(height - 1) : IsPassable(n, ClearancePositions(foot, height)[i])
HasClearance(n, foot, height) ==
  \A i \in 1..height : IsPassable(n, ClearancePositions(foot, height)[i])
CanDigBlock(n, p) == p \notin n.air \cup n.solid /\ IsDiggableBlock(Block(p))

\* The cells to dig for all of these to be passable, and whether they can be.
When(condition, value) == IF condition THEN <<value>> ELSE << >>
ClearanceDigs(n, cells) ==
  FlattenSeq([i \in DOMAIN cells |-> When(~ IsPassable(n, cells[i]), cells[i])])
CanClear(n, cells) == \A p \in ToSet(ClearanceDigs(n, cells)) : CanDigBlock(n, p)

CanDigSelfPlacedSupport(n, p) ==
  CanDigBlock(n, p) /\ p \in selfPlaced /\ IsSupportBlock(Block(p))

LastAction(n) == Last(n.actions)
LastDir(n) == IF n.actions = << >> THEN "none" ELSE LastAction(n).dir
LastKind(n) == IF n.actions = << >> THEN "none" ELSE LastAction(n).kind
IsVerticalExcavation(kind) == kind \in {"digDropSelfPlaced", "digStepDown", "digStepUp"}
IsImmediateReverse(n, dir) ==
  IsVerticalExcavation(LastKind(n)) /\ IsOppositeDirection(LastDir(n), dir)

(***************************************************************************)
(* The actions a node can be extended with, each with its cost.            *)
(***************************************************************************)
Action(kind, to, dir, digs, cost) ==
  [kind |-> kind, toFoot |-> to, dir |-> dir, digs |-> digs, cost |-> cost]
Turn(n, dir) == IF LastDir(n) \in {"none", dir} THEN 0 ELSE COST_TURN_PENALTY
Change(digs) == COST_TERRAIN_CHANGE_BASE + COST_TERRAIN_CHANGE_PER_BLOCK * Len(digs)

\* mutant: nothing is asked of the block below the one dug.
DigDropSelfPlaced_NoFloor(n, phase) ==
  LET support == Above(n.foot, -1)
      dir == IF n.actions = << >> THEN "north" ELSE LastDir(n)
  IN  When(/\ phase.dig /\ CanDigSelfPlacedSupport(n, support)
           /\ n.digs + 1 <= phase.digs /\ n.drops + 1 <= phase.drops
           /\ HasClearance(n, n.foot, BODY_CLEARANCE)
           /\ ~ IsImmediateReverse(n, dir),
           Action("digDropSelfPlaced", support, dir, <<support>>,
                  COST_DROP1 + COST_TERRAIN_CHANGE_PER_BLOCK))
\* Dig the support the bot placed itself, and fall one block.
DigDropSelfPlaced(n, phase) ==
  LET support == Above(n.foot, -1)
      dir == IF n.actions = << >> THEN "north" ELSE LastDir(n)
  IN  When(/\ phase.dig /\ CanDigSelfPlacedSupport(n, support)
           /\ n.digs + 1 <= phase.digs /\ n.drops + 1 <= phase.drops
           /\ HasClearance(n, n.foot, BODY_CLEARANCE)
           /\ IsWalkableSupport(n, Above(n.foot, -2))
           /\ ~ IsImmediateReverse(n, dir),
           Action("digDropSelfPlaced", support, dir, <<support>>,
                  COST_DROP1 + COST_TERRAIN_CHANGE_PER_BLOCK))

Walk(n, to, dir) ==
  When(IsWalkableSupport(n, Above(to, -1)) /\ HasClearance(n, to, BODY_CLEARANCE),
       Action("walk", to, dir, << >>, COST_WALK + Turn(n, dir)))

Drop1(n, to, dir, phase) ==
  When(/\ HasClearance(n, n.foot, JUMP_CLEARANCE) /\ HasClearance(n, to, JUMP_CLEARANCE)
       /\ IsWalkableSupport(n, Above(to, -1)) /\ n.drops + 1 <= phase.drops,
       Action("drop1", to, dir, << >>, COST_DROP1 + Turn(n, dir)))

JumpUp(n, to, dir) ==
  When(/\ HasClearance(n, n.foot, JUMP_CLEARANCE) /\ HasClearance(n, to, JUMP_CLEARANCE)
       /\ IsWalkableSupport(n, Above(to, -1)),
       Action("jumpUp", to, dir, << >>, COST_JUMP_UP + Turn(n, dir)))

\* Jump, and fill the cell the feet were in.
PlaceUp1(n, dir, phase) ==
  LET column == ClearancePositions(n.foot, JUMP_CLEARANCE + 1)
      digs   == ClearanceDigs(n, column)
  IN  When(/\ phase.placeUp /\ n.places + 1 <= phase.places
           /\ IsWalkableSupport(n, Above(n.foot, -1))
           /\ CanClear(n, column) /\ (phase.dig \/ digs = << >>)
           /\ n.digs + Len(digs) <= phase.digs
           /\ HasClearance(n, n.foot, BODY_CLEARANCE),
           Action("placeUp1", Above(n.foot, 1), dir, digs,
                  Change(digs) + COST_PLACE_UP_ITEM_PENALTY + Turn(n, dir)))

DigWalk(n, to, dir, phase) ==
  LET body == ClearancePositions(to, BODY_CLEARANCE)
      digs == ClearanceDigs(n, body)
  IN  When(/\ phase.dig /\ IsWalkableSupport(n, Above(to, -1))
           /\ CanClear(n, body) /\ digs # << >> /\ n.digs + Len(digs) <= phase.digs,
           Action("digWalk", to, dir, digs, Change(digs) + Turn(n, dir)))

\* digStepDown and digStepUp: a step to the side and one down or up.
DigStep(n, kind, to, dir, phase, price) ==
  LET cells == <<Above(n.foot, 2)>> \o ClearancePositions(to, JUMP_CLEARANCE)
      digs  == ClearanceDigs(n, cells)
  IN  When(/\ phase.dig /\ CanClear(n, cells) /\ digs # << >>
           /\ n.digs + Len(digs) <= phase.digs
           /\ HasClearance(n, n.foot, BODY_CLEARANCE)
           /\ IsWalkableSupport(n, Above(to, -1))
           /\ ~ IsImmediateReverse(n, dir),
           Action(kind, to, dir, digs, Change(digs) + price + Turn(n, dir)))

SuccessorsTowards(n, dir, phase) ==
  LET level == Beside(n.foot, DIR_VEC[dir])
  IN  Walk(n, level, dir) \o Drop1(n, Above(level, -1), dir, phase)
        \o JumpUp(n, Above(level, 1), dir) \o PlaceUp1(n, dir, phase)
        \o DigWalk(n, level, dir, phase)
        \o DigStep(n, "digStepDown", Above(level, -1), dir, phase, COST_DROP1)
        \o DigStep(n, "digStepUp", Above(level, 1), dir, phase, COST_JUMP_UP)

ExpandSuccessors(n, phase) ==
  DigDropSelfPlaced(n, phase)
    \o FlattenSeq([i \in 1..Len(DIRECTIONS) |-> SuccessorsTowards(n, DIRECTIONS[i], phase)])

(***************************************************************************)
(* Nodes.                                                                  *)
(***************************************************************************)
StartNode(foot) ==
  [foot |-> foot, air |-> {}, solid |-> {}, cost |-> 0, actions |-> << >>,
   digs |-> 0, places |-> 0, drops |-> 0, noProgress |-> 0]

NoProgressSteps(n, action) ==
  IF GoalDistanceScore(action.toFoot) < GoalDistanceScore(n.foot) THEN 0 ELSE n.noProgress + 1

Successor(n, action) ==
  LET filled == IF action.kind = "placeUp1" THEN {n.foot} ELSE {}
  IN  [foot    |-> action.toFoot,
       air     |-> (n.air \cup ToSet(action.digs)) \ filled,
       solid   |-> n.solid \cup filled,
       cost    |-> n.cost + action.cost,
       actions |-> Append(n.actions, action),
       digs    |-> n.digs + Len(action.digs),
       places  |-> n.places + Cardinality(filled),
       drops   |-> n.drops + (IF action.kind \in {"drop1", "digDropSelfPlaced"} THEN 1 ELSE 0),
       noProgress |-> NoProgressSteps(n, action)]

\* What two nodes must share for the dearer one to be dropped: not the direction.
StateKey(n) ==
  <<n.foot, n.air, n.solid, LastKind(n), n.digs, n.places, n.drops, n.noProgress>>

Priority(n) == n.cost + RouteHeuristic(n.foot)
IsLeast(n) ==
  \A m \in search.open :
    Priority(n) < Priority(m) \/ (Priority(n) = Priority(m) /\ n.cost <= m.cost)

CurrentPhase == CreateSearchPhases[search.phase]

\* visited.get and visited.set: a node is open unless one with its key was as cheap.
Keyed(key, n) == [key |-> key, node |-> n]
Push(found, new) ==
  IF \E v \in found.visited : v[1] = new.key /\ v[2] <= new.node.cost THEN found
  ELSE [open |-> found.open \cup {new.node},
        visited |-> {v \in found.visited : v[1] # new.key} \cup {<<new.key, new.node.cost>>}]

(***************************************************************************)
(* The search.                                                             *)
(***************************************************************************)
NoPlan == [actions |-> << >>, finalFoot |-> << >>, cost |-> 0]

SearchFrom(foot, phase, total) ==
  [status |-> "searching", phase |-> phase, start |-> foot, open |-> {StartNode(foot)},
   visited |-> {<<StateKey(StartNode(foot)), 0>>}, expanded |-> 0, total |-> total,
   budgetExhausted |-> FALSE, plan |-> NoPlan]

PlanTerrainRoute(foot) ==
  IF IsGoal(foot)
  THEN [SearchFrom(foot, 1, 0) EXCEPT !.status = "solved", !.open = {}, !.visited = {},
                                      !.plan.finalFoot = foot]
  ELSE SearchFrom(foot, 1, 0)

\* What is left of the budget of the whole search bounds the phase as well.
PhaseBudget == MinOf(PhaseExpanded, TotalExpanded - search.total)

TakesNode == search.open # {} /\ search.expanded < PhaseBudget

\* The clock is looked at before some of the expansions, and may be past the budget.
LooksAtClock == TimeBudget /\ search.expanded > 0 /\ search.expanded % TimeCheck = 0

MayGrow(n) ==
  /\ Len(n.actions) < MaxDepth
  /\ Cardinality(n.air) < MaxPlannedAir /\ Cardinality(n.solid) < MaxPlannedSolid
  /\ Cardinality(n.air) + Cardinality(n.solid) < MaxPlannedChanges

\* A successor that has not come nearer for too many steps is not pushed.
PushSuccessors(n) ==
  LET next == ExpandSuccessors(n, CurrentPhase)
  IN  FlattenSeq([i \in DOMAIN next |->
        When(NoProgressSteps(n, next[i]) <= CurrentPhase.noProgress, Successor(n, next[i]))])

Grown(n) ==
  LET rest == [open |-> search.open \ {n}, visited |-> search.visited]
      next == PushSuccessors(n)
  IN  IF ~ MayGrow(n) THEN rest
      ELSE FoldLeft(Push, rest, [i \in DOMAIN next |-> Keyed(StateKey(next[i]), next[i])])

ExpandNode ==
  /\ search.status = "searching" /\ TakesNode
  /\ \E n \in search.open :
       /\ IsLeast(n)
       /\ search' =
            IF IsGoal(n.foot)
            THEN [search EXCEPT !.status = "solved", !.open = {}, !.visited = {},
                                !.expanded = @ + 1, !.total = @ + search.expanded + 1,
                                !.plan = [actions |-> n.actions, finalFoot |-> n.foot,
                                          cost |-> n.cost]]
            ELSE [search EXCEPT !.expanded = @ + 1,
                                !.open = Grown(n).open, !.visited = Grown(n).visited]
  /\ UNCHANGED <<world, selfPlaced, targetFoot>>

\* A phase ends without a plan: no node is left, or a budget is used up.
EndPhase(late, overdue) ==
  LET total == search.total + search.expanded
      cut   == late \/ search.open # {}
      last  == search.phase = Len(CreateSearchPhases)
      spent == total >= TotalExpanded
  IN  /\ search.status = "searching"
      /\ IF late THEN TakesNode /\ LooksAtClock /\ overdue ELSE ~ TakesNode
      /\ overdue => TimeBudget
      /\ search' =
           IF last \/ overdue \/ spent
           THEN [search EXCEPT !.status = "failed", !.open = {}, !.visited = {}, !.total = total,
                   !.budgetExhausted = @ \/ cut \/ (spent /\ ~ last /\ ~ overdue)]
           ELSE [SearchFrom(search.start, search.phase + 1, total)
                   EXCEPT !.budgetExhausted = search.budgetExhausted \/ cut]
      /\ UNCHANGED <<world, selfPlaced, targetFoot>>

SearchStep == ExpandNode \/ \E late, overdue \in BOOLEAN : EndPhase(late, overdue)
=============================================================================
