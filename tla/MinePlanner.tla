----------------------------- MODULE MinePlanner -----------------------------
(***************************************************************************)
(* planMineRoute (runtime/transport/mining/planner.ts): the search for a   *)
(* place from which one of the targets can be dug, over the same moves as  *)
(* the terrain router but for placing blocks, with the miner's costs.      *)
(*                                                                         *)
(* It runs in the `search` of TerrainRouter, one node per step, and judges *)
(* cells as that module does, for nodes that fill none.  Costs are in      *)
(* hundredths, since the heuristic of the code is fractional.              *)
(***************************************************************************)
EXTENDS TerrainRouter

CONSTANT MineMaxExpanded, MineMaxDepth   \* 24000 nodes and 60 actions in the code

ASSUME MinePlannerAssumption == MineMaxExpanded \in Nat \ {0} /\ MineMaxDepth \in Nat

MINE_COST ==
  [walk |-> 1000, drop1 |-> 1200, jumpUp |-> 1400, digWalk |-> 2200,
   digStepDown |-> 1200, digStepUp |-> 1200 + 1400]
MINE_DIG_PER_BLOCK == 400
MINE_TURN == 200
MAX_REACH == 350
EYE_OFFSET_Y == 162

(***************************************************************************)
(* Reach: from the eyes to the middle of the target, in hundredths.        *)
(***************************************************************************)
EyeDelta(foot, target) ==
  <<100 * (target[1] - foot[1]), 100 * (target[2] - foot[2]) + 50 - EYE_OFFSET_Y,
    100 * (target[3] - foot[3])>>
SquareOf(v) == v[1] * v[1] + v[2] * v[2] + v[3] * v[3]
InReach(foot, target) == SquareOf(EyeDelta(foot, target)) <= MAX_REACH * MAX_REACH

\* ceil(4 * distance), at least 2.
RaySteps(d) == CHOOSE s \in 2..15 :
  /\ (100 * s) * (100 * s) >= 16 * SquareOf(d)
  /\ s = 2 \/ (100 * (s - 1)) * (100 * (s - 1)) < 16 * SquareOf(d)

RayCell(foot, d, i, steps) ==
  [k \in 1..3 |->
     ((100 * foot[k] + (IF k = 2 THEN EYE_OFFSET_Y ELSE 50)) * steps + d[k] * i) \div (100 * steps)]

\* What is not loaded does not hide the target.
RayClearTo(n, target) ==
  LET d == EyeDelta(n.foot, target)
      steps == RaySteps(d)
  IN  \A i \in 1..(steps - 1) :
        LET cell == RayCell(n.foot, d, i, steps)
        IN  cell = target \/ cell \in n.air \/ Block(cell) = "unknown" \/ IsAirBlock(Block(cell))

Reachable(n, targets) == {t \in targets : InReach(n.foot, t) /\ RayClearTo(n, t)}
Nearest(foot, cells) ==
  {c \in cells : \A e \in cells : SquareOf(EyeDelta(foot, c)) <= SquareOf(EyeDelta(foot, e))}

\* The first target that the last action of a node digs, if it digs one.
DugTarget(n, targets) ==
  IF n.actions = << >> THEN 0 ELSE SelectInSeq(LastAction(n).digs, LAMBDA p : p \in targets)

\* Where the plan of this node ends, if it is one: the dug target goes first.
PlannedTargets(n, targets) ==
  IF DugTarget(n, targets) # 0 THEN {LastAction(n).digs[DugTarget(n, targets)]}
  ELSE Nearest(n.foot, Reachable(n, targets))

(***************************************************************************)
(* The search.                                                             *)
(***************************************************************************)
MineRouteHeuristic(foot, targets) ==
  LET score(t) == MaxOf(0, 100 * HorizontalDistance(foot, t) - MAX_REACH) * 10
                    + MaxOf(0, AbsOf(EyeDelta(foot, t)[2]) - MAX_REACH) * 12
                    + (IF t[2] < foot[2] THEN (foot[2] - t[2]) * 1200 ELSE (t[2] - foot[2]) * 1400)
  IN  CHOOSE h \in {score(t) : t \in targets} : \A t \in targets : h <= score(t)

\* deriveMineMaxPlannedAir: four blocks for every level to go down.
MineMaxPlannedAir(foot, targets) ==
  LET drop == CHOOSE d \in {MaxOf(0, foot[2] - t[2]) : t \in targets} :
                \A t \in targets : foot[2] - t[2] <= d
  IN  MinOf(96, MaxOf(16, drop * (JUMP_CLEARANCE + 1) + 8))

\* A step to a cell beside the node's, one up, level or one down.
MineMove(n, kind, to, dir, digs) ==
  Action(kind, to, dir, digs,
         MINE_COST[kind] + MINE_DIG_PER_BLOCK * Len(digs)
           + (IF LastDir(n) \in {"none", dir} THEN 0 ELSE MINE_TURN))

MineNatural(n, kind, to, dir) ==
  When(/\ IsWalkableSupport(n, Above(to, -1))
       /\ IF kind = "walk" THEN HasClearance(n, to, BODY_CLEARANCE)
          ELSE HasClearance(n, n.foot, JUMP_CLEARANCE) /\ HasClearance(n, to, JUMP_CLEARANCE),
       MineMove(n, kind, to, dir, << >>))

\* mutant: what holds the bot where it goes is not looked at.
MineDig_NoFloor(n, kind, to, dir) ==
  LET cells == IF kind = "digWalk" THEN ClearancePositions(to, BODY_CLEARANCE)
               ELSE <<Above(n.foot, 2)>> \o ClearancePositions(to, JUMP_CLEARANCE)
      digs  == ClearanceDigs(n, cells)
  IN  When(/\ CanClear(n, cells) /\ digs # << >>
           /\ kind = "digWalk" \/ (HasClearance(n, n.foot, BODY_CLEARANCE)
                                   /\ ~ IsImmediateReverse(n, dir)),
           MineMove(n, kind, to, dir, digs))

MineDig(n, kind, to, dir) ==
  LET cells == IF kind = "digWalk" THEN ClearancePositions(to, BODY_CLEARANCE)
               ELSE <<Above(n.foot, 2)>> \o ClearancePositions(to, JUMP_CLEARANCE)
      digs  == ClearanceDigs(n, cells)
  IN  When(/\ IsWalkableSupport(n, Above(to, -1)) /\ CanClear(n, cells) /\ digs # << >>
           /\ kind = "digWalk" \/ (HasClearance(n, n.foot, BODY_CLEARANCE)
                                   /\ ~ IsImmediateReverse(n, dir)),
           MineMove(n, kind, to, dir, digs))

MineSuccessors(n) ==
  FlattenSeq([i \in 1..Len(DIRECTIONS) |->
    LET dir == DIRECTIONS[i]
        level == Beside(n.foot, DIR_VEC[dir])
    IN  MineNatural(n, "walk", level, dir)
          \o MineNatural(n, "drop1", Above(level, -1), dir)
          \o MineNatural(n, "jumpUp", Above(level, 1), dir)
          \o MineDig(n, "digWalk", level, dir)
          \o MineDig(n, "digStepDown", Above(level, -1), dir)
          \o MineDig(n, "digStepUp", Above(level, 1), dir)])

MineStateKey(n) ==
  <<n.foot, LastDir(n)>> \o (IF n.air = {} THEN << >> ELSE <<LastKind(n), n.air>>)

MineGrown(n, targets) ==
  LET rest == [open |-> search.open \ {n}, visited |-> search.visited]
      found == MineSuccessors(n)
      next == [i \in DOMAIN found |-> Successor(n, found[i])]
  IN  IF \/ Len(n.actions) >= MineMaxDepth
         \/ Cardinality(n.air) >= MineMaxPlannedAir(search.start, targets)
      THEN rest
      ELSE FoldLeft(Push, rest, [i \in DOMAIN next |-> Keyed(MineStateKey(next[i]), next[i])])

MinePlan(n, target) ==
  [actions |-> n.actions, finalFoot |-> n.foot, cost |-> n.cost, target |-> target]

MineSearchFrom(at) ==
  [SearchFrom(at, 1, 0) EXCEPT !.visited = {<<MineStateKey(StartNode(at)), 0>>}]

MineLeast(n, targets) ==
  \A m \in search.open :
    LET p(x) == x.cost + MineRouteHeuristic(x.foot, targets)
    IN  p(n) < p(m) \/ (p(n) = p(m) /\ n.cost <= m.cost)

\* One node more, or the end of the search.
MineExpandNode(targets) ==
  /\ search.status = "searching" /\ search.open # {} /\ search.expanded < MineMaxExpanded
  /\ \E n \in search.open :
       /\ MineLeast(n, targets)
       /\ \/ \E t \in PlannedTargets(n, targets) :
               search' = [search EXCEPT !.status = "solved", !.open = {}, !.visited = {},
                                        !.plan = MinePlan(n, t)]
          \/ /\ PlannedTargets(n, targets) = {}
             /\ search' = [search EXCEPT !.expanded = @ + 1,
                                         !.open = MineGrown(n, targets).open,
                                         !.visited = MineGrown(n, targets).visited]

MineNoPath ==
  /\ search.status = "searching"
  /\ search.open = {} \/ search.expanded = MineMaxExpanded
  /\ search' = [search EXCEPT !.status = "failed", !.open = {}, !.visited = {}]
=============================================================================
