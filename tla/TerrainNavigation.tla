------------------------- MODULE TerrainNavigation -------------------------
(***************************************************************************)
(* goTo: navigateTerrainToFoot plans a way (TerrainRouter) and executes    *)
(* its actions one by one (terrain/action-executor.ts) with the movement   *)
(* primitives of terrain/foot-step.ts and local-move-actuator.ts.          *)
(*                                                                         *)
(* The world and the bot's position are the server's: a dig or a placement *)
(* is asked for and lands later, or never, whether or not its caller still *)
(* waits; others place and dig blocks and push the bot.  An abort may come *)
(* at any time and is seen where the code calls throwIfAborted.  Pulses of *)
(* the control keys are abstracted to the cell the bot is in: it may reach *)
(* the cell it heads for, or not and be stuck until the watchdog's idle    *)
(* time (15 s, 1.5 s for the pathfinder) is over, which a bot that moves   *)
(* without getting there puts off for ever.                                *)
(***************************************************************************)
EXTENDS TerrainRouter

CONSTANTS
  Worlds,           \* the worlds and the routes to try
  Routes,
  PlaceAttempts,    \* rounds times delays of a placement: 6 in the code
  Items,            \* blocks in the inventory that can be placed
  MaxDisturbances   \* bound: blocks changed and pushes by others

ASSUME NavigationAssumption ==
  /\ {PlaceAttempts, Items, MaxDisturbances} \subseteq Nat
  /\ Routes \subseteq Positions \X Positions
  /\ \A w \in Worlds : DOMAIN w \subseteq Positions

VARIABLES
  foot,          \* the cell of the bot's feet, floor of its position
  items,
  nav,           \* the navigation under way
  pending,       \* a dig or placement the server was asked for
  aborted,       \* control.signal
  disturbances,
  late           \* ghost: digs and placements asked for after the abort

routeVars == <<world, selfPlaced, targetFoot, search>>
navVars == <<foot, items, nav, pending, aborted, disturbances, late>>
vars == <<routeVars, navVars>>

Nothing == [kind |-> "none", at |-> << >>]
\* `alone` is a ghost: nothing asked for earlier was still to land when it began.
Idle == [status |-> "planning", ops |-> << >>, pc |-> "start", seen |-> "air",
         at |-> << >>, tries |-> 0, alone |-> TRUE]

Init ==
  /\ world \in Worlds
  /\ \E route \in Routes :
       /\ IsSupportBlock(ReadBlockAt(world, Above(route[1], -1)))
       /\ \A h \in 0..1 : IsAirBlock(ReadBlockAt(world, Above(route[1], h)))
       /\ selfPlaced \in {{}, {Above(route[1], -1)}}   \* it may stand on its own block
       /\ foot = route[1] /\ targetFoot = route[2]
       /\ search = PlanTerrainRoute(foot)
  /\ items = Items /\ nav = Idle /\ pending = Nothing
  /\ aborted = FALSE /\ disturbances = 0 /\ late = 0

(***************************************************************************)
(* executeTerrainRouteAction: what each kind of action does in order.      *)
(***************************************************************************)
Op(kind, to) == [kind |-> kind, to |-> to]
Script(action) ==
  LET digs == [i \in DOMAIN action.digs |-> Op("dig", action.digs[i])]
      last == CASE action.kind \in {"walk", "jumpUp", "digWalk", "digStepUp"} -> "move"
                [] action.kind \in {"drop1", "digStepDown"} -> "drop"
                [] action.kind = "placeUp1" -> "place"
                [] action.kind = "digDropSelfPlaced" -> "settle"
      first == IF action.kind = "digDropSelfPlaced" THEN <<Op("centre", foot)>> ELSE << >>
  IN  first \o digs \o <<Op(last, action.toFoot)>>

StartActing ==
  /\ nav.status = "planning" /\ search.status = "solved"
  /\ nav' = [nav EXCEPT !.status = "acting",
               !.ops = FlattenSeq([i \in DOMAIN search.plan.actions |->
                                     Script(search.plan.actions[i])])]
  /\ UNCHANGED <<routeVars, foot, items, pending, aborted, disturbances, late>>

RouteNotFound ==
  /\ nav.status = "planning" /\ search.status = "failed"
  /\ nav' = [nav EXCEPT !.status = "failed"]
  /\ UNCHANGED <<routeVars, foot, items, pending, aborted, disturbances, late>>

Acting == nav.status = "acting"
CurrentOp == Head(nav.ops)
In(kind, pc) == Acting /\ nav.ops # << >> /\ CurrentOp.kind = kind /\ nav.pc = pc

\* Ways to leave the operation; an error ends the navigation.
OpDone(n) == [n EXCEPT !.ops = Tail(@), !.pc = "start", !.tries = 0]
Throw(n)  == [n EXCEPT !.status = "failed", !.ops = << >>]

Ask(kind, at) == /\ pending' = [kind |-> kind, at |-> at]
                 /\ late' = IF aborted THEN late + 1 ELSE late
AsksNothing == UNCHANGED <<pending, late>>

\* What an abort is seen by: throwIfAborted before each operation and at the end.
SeesAbort ==
  /\ Acting /\ aborted /\ nav.pc = "start"
  /\ nav' = Throw(nav)
  /\ AsksNothing /\ UNCHANGED <<routeVars, foot, items, aborted, disturbances>>

\* The final check of navigateTerrainToFoot.
Finish ==
  /\ Acting /\ ~ aborted /\ nav.ops = << >>
  /\ nav' = IF foot = search.plan.finalFoot THEN [nav EXCEPT !.status = "completed"]
            ELSE Throw(nav)
  /\ AsksNothing /\ UNCHANGED <<routeVars, foot, items, aborted, disturbances>>

(***************************************************************************)
(* digSingleBlock.                                                         *)
(***************************************************************************)
IsBlockChanged(p, original) == Block(p) \in {"unknown", "air"} \/ Block(p) # original

\* Air is not dug; a block out of reach is an error; else the hand is prepared.
DigReads ==
  /\ In("dig", "start") /\ ~ aborted
  /\ \/ Block(CurrentOp.to) \in {"unknown", "air"} /\ nav' = OpDone(nav)
     \/ /\ Block(CurrentOp.to) \notin {"unknown", "air"}
        /\ nav' \in {Throw(nav), [nav EXCEPT !.pc = "aim", !.seen = Block(CurrentOp.to)]}
  /\ AsksNothing /\ UNCHANGED <<routeVars, foot, items, aborted, disturbances>>

\* The digs of a miner (MineSkill) start in the same way.
DIGS == {"dig", "mineDig", "finalDig"}

\* After the tool is equipped and the look is over: no look at the abort here.
DigStarts ==
  /\ \E kind \in DIGS : In(kind, "aim")
  /\ \/ nav' = [nav EXCEPT !.pc = "watch"] /\ Ask("dig", CurrentOp.to)
     \/ nav' = Throw(nav) /\ AsksNothing
  /\ UNCHANGED <<routeVars, foot, items, aborted, disturbances>>

\* waitForPromiseOrCondition: an abort, then the changed block, then the failures.
DigWatches ==
  /\ In("dig", "watch")
  /\ IF ~ aborted /\ IsBlockChanged(CurrentOp.to, nav.seen)
     THEN nav' = OpDone(nav) /\ selfPlaced' = selfPlaced \ {CurrentOp.to}
     ELSE nav' = Throw(nav) /\ UNCHANGED selfPlaced
  /\ AsksNothing
  /\ UNCHANGED <<world, targetFoot, search, foot, items, aborted, disturbances>>

(***************************************************************************)
(* stepForward: the pathfinder without digging or placing, which gives up  *)
(* when it is stuck, then the control keys, which do not look at the abort.*)
(***************************************************************************)
MoveStarts ==
  /\ In("move", "start") /\ ~ aborted
  /\ nav' \in {[nav EXCEPT !.pc = "path"], [nav EXCEPT !.pc = "keys"]}
  /\ AsksNothing /\ UNCHANGED <<routeVars, foot, items, aborted, disturbances>>

\* tryLocalPathfinderMoveToFoot; the centring at the end may run out of time.
PathfinderEnds ==
  /\ In("move", "path")
  /\ nav' \in {IF aborted THEN Throw(nav) ELSE [nav EXCEPT !.pc = "keys"]}
               \cup (IF foot = CurrentOp.to THEN {OpDone(nav)} ELSE {})
  /\ AsksNothing /\ UNCHANGED <<routeVars, foot, items, aborted, disturbances>>

\* stepToFoot, for a move and to recover the cell after a fall or a placement.
StepToFoot ==
  /\ Acting /\ nav.ops # << >> /\ nav.pc = "keys"
  /\ nav' \in {Throw(nav)} \cup (IF foot = CurrentOp.to THEN {OpDone(nav)} ELSE {})
  /\ AsksNothing /\ UNCHANGED <<routeVars, foot, items, aborted, disturbances>>

(***************************************************************************)
(* dropToFoot and waitUntilFootYReachedThenRecover: the height first.      *)
(***************************************************************************)
DropStarts ==
  /\ Acting /\ ~ aborted /\ nav.ops # << >> /\ CurrentOp.kind \in {"drop", "settle"}
  /\ nav.pc = "start"
  /\ nav' = IF foot = CurrentOp.to THEN OpDone(nav) ELSE [nav EXCEPT !.pc = "height"]
  /\ AsksNothing /\ UNCHANGED <<routeVars, foot, items, aborted, disturbances>>

HeightReached ==
  /\ Acting /\ nav.ops # << >> /\ CurrentOp.kind \in {"drop", "settle"} /\ nav.pc = "height"
  /\ nav' \in {Throw(nav)} \cup
       (IF foot[2] # CurrentOp.to[2] THEN {}
        ELSE {IF foot = CurrentOp.to THEN OpDone(nav) ELSE [nav EXCEPT !.pc = "keys"]})
  /\ AsksNothing /\ UNCHANGED <<routeVars, foot, items, aborted, disturbances>>

\* centerOnFoot on the cell the bot is in, for 1.5 s at most.
Centre ==
  /\ In("centre", "start") /\ ~ aborted
  /\ nav' \in {OpDone(nav), Throw(nav)}
  /\ AsksNothing /\ UNCHANGED <<routeVars, foot, items, aborted, disturbances>>

(***************************************************************************)
(* placeUpOneBlock: on the cell the bot is in after centring on it.        *)
(***************************************************************************)
IsEmptyBlock(b) == b = "air"
IsReplaceable(b) == b \in {"plant", "liquid"}

PlaceStarts ==
  /\ In("place", "start") /\ ~ aborted
  /\ nav' \in {Throw(nav)} \cup
       (IF Block(Above(foot, -1)) = "unknown" \/ Block(foot) = "unknown" THEN {}
        ELSE {[nav EXCEPT !.pc = "try", !.at = foot, !.seen = Block(foot), !.tries = 0]})
  /\ AsksNothing /\ UNCHANGED <<routeVars, foot, items, aborted, disturbances>>

\* mutant: an attempt does not look at the abort.
PlaceTries_Deaf ==
  /\ In("place", "try")
  /\ IF nav.tries = PlaceAttempts
     THEN nav' = Throw(nav) /\ AsksNothing
     ELSE \/ /\ items > 0
             /\ nav' = [nav EXCEPT !.pc = "placing", !.tries = @ + 1] /\ AsksNothing
          \/ /\ nav' = [nav EXCEPT !.pc = "missed", !.tries = @ + 1] /\ AsksNothing
  /\ UNCHANGED <<routeVars, foot, items, aborted, disturbances>>
\* One attempt: an item is equipped, the bot jumps and the block is asked for.
PlaceTries ==
  /\ In("place", "try")
  /\ IF aborted \/ nav.tries = PlaceAttempts
     THEN nav' = Throw(nav) /\ AsksNothing
     ELSE \/ /\ items > 0
             /\ nav' = [nav EXCEPT !.pc = "placing", !.tries = @ + 1] /\ AsksNothing
          \/ /\ nav' = [nav EXCEPT !.pc = "missed", !.tries = @ + 1] /\ AsksNothing
  /\ UNCHANGED <<routeVars, foot, items, aborted, disturbances>>

\* After the jump and the second look: no look at the abort here.
PlaceAsks ==
  /\ In("place", "placing")
  /\ \/ nav' = [nav EXCEPT !.pc = "placed"] /\ Ask("place", nav.at)
     \/ nav' = [nav EXCEPT !.pc = "missed"] /\ AsksNothing
  /\ UNCHANGED <<routeVars, foot, items, aborted, disturbances>>

Placed(b) == ~ IsEmptyBlock(b) /\ ~ IsReplaceable(b) /\ b # "unknown"

\* The block is there and the bot is lifted: it is remembered as its own.
PlaceSucceeds ==
  /\ In("place", "placed")
  /\ Placed(Block(nav.at)) /\ foot = Above(nav.at, 1)
  /\ nav' = OpDone(nav) /\ selfPlaced' = selfPlaced \cup {nav.at}
  /\ AsksNothing
  /\ UNCHANGED <<world, targetFoot, search, foot, items, aborted, disturbances>>

\* Any error of the attempt is caught, the abort's included.
PlaceFails ==
  /\ In("place", "placed") /\ nav' = [nav EXCEPT !.pc = "missed"]
  /\ AsksNothing /\ UNCHANGED <<routeVars, foot, items, aborted, disturbances>>

\* isPlacedAfterFailedAttempt: something else than before is in the cell.
FoundPlaced == ~ IsEmptyBlock(Block(nav.at)) /\ Block(nav.at) \notin {nav.seen, "unknown"}

PlaceMissed ==
  /\ In("place", "missed")
  /\ \/ /\ FoundPlaced
        /\ \/ /\ foot = Above(nav.at, 1)
              /\ nav' = OpDone(nav) /\ selfPlaced' = selfPlaced \cup {nav.at}
           \/ nav' = Throw(nav) /\ UNCHANGED selfPlaced
     \/ /\ ~ FoundPlaced /\ Block(nav.at) \in {"air", "unknown"}
        /\ nav' = [nav EXCEPT !.pc = "try"] /\ UNCHANGED selfPlaced
     \/ /\ ~ FoundPlaced /\ Block(nav.at) \notin {"air", "unknown"}
        /\ nav' = IF aborted \/ ~ IsDiggableBlock(Block(nav.at)) THEN Throw(nav)
                  ELSE [nav EXCEPT !.pc = "clear"]
        /\ UNCHANGED selfPlaced
  /\ AsksNothing
  /\ UNCHANGED <<world, targetFoot, search, foot, items, aborted, disturbances>>

\* clearPlaceUpTargetBlock digs what is in the cell before the next attempt.
PlaceClears ==
  /\ In("place", "clear")
  /\ \/ nav' = [nav EXCEPT !.pc = "clearing"] /\ Ask("dig", nav.at)
     \/ nav' = Throw(nav) /\ AsksNothing
  /\ UNCHANGED <<routeVars, foot, items, aborted, disturbances>>

PlaceCleared ==
  /\ In("place", "clearing")
  /\ IF ~ aborted /\ IsEmptyBlock(Block(nav.at))
     THEN nav' = [nav EXCEPT !.pc = "try"] /\ selfPlaced' = selfPlaced \ {nav.at}
     ELSE nav' = Throw(nav) /\ UNCHANGED selfPlaced
  /\ AsksNothing
  /\ UNCHANGED <<world, targetFoot, search, foot, items, aborted, disturbances>>

(***************************************************************************)
(* The server, the others, and the abort.                                  *)
(***************************************************************************)
Enterable(p) == \A h \in 0..1 : IsAirBlock(Block(Above(p, h)))
Near(p, q) == HorizontalDistance(p, q) <= 1 /\ AbsOf(p[2] - q[2]) <= 1

\* The cell the bot heads for: after a placement, the one above the block.
Heading == IF CurrentOp.kind = "place" THEN Above(nav.at, 1) ELSE CurrentOp.to
HeadsSomewhere ==
  \/ nav.pc \in {"path", "keys"}
  \/ nav.pc = "height" /\ CurrentOp.kind = "drop"
  \/ nav.pc \in {"placed", "missed"} /\ foot[2] = Heading[2]

BotMoves ==
  /\ Acting /\ nav.ops # << >> /\ HeadsSomewhere
  /\ foot # Heading /\ Near(foot, Heading) /\ Enterable(Heading)
  /\ foot' = Heading
  /\ UNCHANGED <<routeVars, items, nav, pending, aborted, disturbances, late>>

Unsupported == IsAirBlock(Block(Above(foot, -1)))
Falls ==
  /\ Unsupported /\ foot' = Above(foot, -1)
  /\ UNCHANGED <<routeVars, items, nav, pending, aborted, disturbances, late>>

DigLands ==
  /\ pending.kind = "dig" /\ IsDiggableBlock(Block(pending.at))
  /\ world' = [world EXCEPT ![pending.at] = "air"] /\ pending' = Nothing
  /\ UNCHANGED <<selfPlaced, targetFoot, search, foot, items, nav, aborted, disturbances, late>>

PlaceLands ==
  /\ pending.kind = "place" /\ items > 0
  /\ IsEmptyBlock(Block(pending.at)) \/ IsReplaceable(Block(pending.at))
  /\ world' = [world EXCEPT ![pending.at] = "rock"] /\ pending' = Nothing
  /\ items' = items - 1
  /\ foot' = IF foot = pending.at THEN Above(foot, 1) ELSE foot
  /\ UNCHANGED <<selfPlaced, targetFoot, search, nav, aborted, disturbances, late>>

\* The server refuses, or the control is stopped; a waiting caller is told or runs late.
PendingLost ==
  /\ pending # Nothing /\ pending' = Nothing
  /\ UNCHANGED <<routeVars, foot, items, nav, aborted, disturbances, late>>

OthersChangeBlock ==
  /\ disturbances < MaxDisturbances /\ disturbances' = disturbances + 1
  /\ \E p \in DOMAIN world, b \in {"air", "rock"} :
       /\ world[p] \notin {"bedrock", b} /\ p \notin {foot, Above(foot, 1)}
       /\ world' = [world EXCEPT ![p] = b]
  /\ UNCHANGED <<selfPlaced, targetFoot, search, foot, items, nav, pending, aborted, late>>

OthersPush ==
  /\ disturbances < MaxDisturbances /\ disturbances' = disturbances + 1
  /\ \E i \in DOMAIN DIRECTIONS :
       LET to == Beside(foot, DIR_VEC[DIRECTIONS[i]])
       IN  Enterable(to) /\ foot' = to
  /\ UNCHANGED <<routeVars, items, nav, pending, aborted, late>>

Abort ==
  /\ ~ aborted /\ aborted' = TRUE
  /\ UNCHANGED <<routeVars, foot, items, nav, pending, disturbances, late>>

\* Planning is one synchronous call: nothing else happens during it.
Planning == nav.status = "planning"
Plan == Planning /\ SearchStep /\ UNCHANGED navVars
Execute ==
  \/ StartActing \/ RouteNotFound \/ SeesAbort \/ Finish
  \/ DigReads \/ DigStarts \/ DigWatches
  \/ MoveStarts \/ PathfinderEnds \/ StepToFoot
  \/ DropStarts \/ HeightReached \/ Centre
  \/ PlaceStarts \/ PlaceTries \/ PlaceAsks \/ PlaceSucceeds \/ PlaceFails \/ PlaceMissed
  \/ PlaceClears \/ PlaceCleared
Server == BotMoves \/ Falls \/ DigLands \/ PlaceLands
Around == ~ Planning /\ (Server \/ PendingLost \/ OthersChangeBlock \/ OthersPush \/ (Acting /\ Abort))

Next == Plan \/ Execute \/ Around
Spec == Init /\ [][Next]_vars

(***************************************************************************)
(* Properties.                                                             *)
(***************************************************************************)
Stands(w, p) ==
  /\ IsSupportBlock(ReadBlockAt(w, Above(p, -1)))
  /\ \A h \in 0..1 : IsAirBlock(ReadBlockAt(w, Above(p, h)))

\* Actions replayed in the world they were planned for: where the bot stands
\* after the first i of them, and what a cell holds.
FootAfter(steps, i) == IF i = 0 THEN search.start ELSE steps[i].toFoot
Fills(steps, i, p) == steps[i].kind = "placeUp1" /\ FootAfter(steps, i - 1) = p
Touching(steps, i, p) == {j \in 1..i : Fills(steps, j, p) \/ p \in ToSet(steps[j].digs)}
CellAfter(steps, i, p) ==
  LET touching == Touching(steps, i, p)
  IN  IF touching = {} THEN Block(p)
      ELSE IF \E j \in touching : Fills(steps, j, p) /\ \A k \in touching : k <= j
      THEN "rock" ELSE "air"
StandsAfter(steps, i, p) ==
  /\ IsSupportBlock(CellAfter(steps, i, Above(p, -1)))
  /\ \A h \in 0..1 : IsAirBlock(CellAfter(steps, i, Above(p, h)))

IsUnder(p, q) == p[1] = q[1] /\ p[3] = q[3] /\ p[2] < q[2]

\* Each action is one step; it digs what is there and can be dug, and ends on a
\* solid block with room for the body.  It digs nothing from under the bot, but for
\* the bot's own block to fall by one; then, and to place one, the bot stands.
StepIsExecutable(steps, i) ==
  LET from == FootAfter(steps, i - 1)
      to   == FootAfter(steps, i)
  IN  /\ Near(from, to) /\ StandsAfter(steps, i, to)
      /\ \A p \in ToSet(steps[i].digs) : IsDiggableBlock(CellAfter(steps, i - 1, p))
      /\ steps[i].kind = "placeUp1" =>
           to = Above(from, 1) /\ from \notin ToSet(steps[i].digs)
      /\ steps[i].kind = "digDropSelfPlaced" => to = Above(from, -1)
      /\ steps[i].kind \in {"placeUp1", "digDropSelfPlaced"} => StandsAfter(steps, i - 1, from)
      /\ steps[i].kind # "digDropSelfPlaced" => \A p \in ToSet(steps[i].digs) : ~ IsUnder(p, from)
StepsAreExecutable(steps) == \A i \in DOMAIN steps : StepIsExecutable(steps, i)

\* A way of goTo, or of a miner that goes nearer to its target, can be carried out
\* when it is planned, and leads to the goal.  (A plan with a target is a miner's
\* own, see MinePlanIsExecutable.)
WayIsExecutable ==
  Planning /\ search.status = "solved" /\ "target" \notin DOMAIN search.plan =>
    /\ StepsAreExecutable(search.plan.actions)
    /\ FootAfter(search.plan.actions, Len(search.plan.actions)) = search.plan.finalFoot
    /\ IsGoal(search.plan.finalFoot)

\* After an abort at most one more dig or placement is asked of the server:
\* the one whose tool or look was awaited when the abort came.
OneChangeAfterAbort == late <= 1

\* Unless others interfere, a bot that loses its footing, by a dig or by the way it
\* goes, stands again one block further down: wherever a navigation is cut short.
\* Two exceptions.  The target of a miner is dug from under the miner's own feet if it
\* is there, whatever is below (findReachableTarget looks at distance only).  And a
\* miner's way is planned while a dig of one that failed may still land (nothing stops
\* it): the block it takes is one the new way may count on.
LosesFooting == ~ Unsupported /\ Unsupported'
DigsTarget == "target" \in DOMAIN search.plan /\ pending.at = search.plan.target
FallsOneBlock ==
  [][disturbances' = 0 /\ nav.alone /\ LosesFooting =>
       Stands(world', Above(foot', -1)) \/ DigsTarget]_vars
=============================================================================
