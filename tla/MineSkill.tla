------------------------------ MODULE MineSkill ------------------------------
(***************************************************************************)
(* The mine skill of the transport (runtime/transport/mining/mine.ts):     *)
(* look for the blocks asked for, plan a way to dig one (MinePlanner), walk *)
(* and dig it (mining/executor.ts), count what came into the bag, and look *)
(* again; where no plan is found, go nearer to a target first              *)
(* (TerrainNavigation).  The server, the others and the abort are those of *)
(* TerrainNavigation.                                                      *)
(***************************************************************************)
EXTENDS MinePlanner, TerrainNavigation

CONSTANTS
  Supplies,        \* the sets of targets the skill may be called with; {} to look for them
  Count,           \* how many items are wanted
  MaxAttempts,     \* rounds: min(max(Count + 4, 4), 64), with targets Count + their number
  MaxStagnant,     \* rounds without a new item before a search of its own ends: 2
  ApproachLimit    \* feet tried when no plan is found: 8 or 16

ASSUME MineAssumption == {Count, MaxAttempts, MaxStagnant, ApproachLimit} \subseteq Nat

VARIABLES
  mine,      \* the call of the skill
  bag,       \* items of the wanted kind in the inventory, over those at the start
  drops,     \* such items lying about
  dugOres    \* ghost: ores the server dug for the bot

mineVars == <<mine, bag, drops, dugOres>>
allVars == <<vars, mineVars>>

MineInit ==
  /\ Init
  /\ \E supplied \in Supplies : mine =
       [pc |-> "scan", supplied |-> supplied, attempts |-> 0, minedCount |-> 0,
        lastCollected |-> 0, stagnant |-> 0, targets |-> {}, planned |-> 0, feet |-> {}, left |-> 0,
        from |-> foot, error |-> "none"]
  /\ bag = 0 /\ drops = 0 /\ dugOres = 0

IsTarget(p) == Block(p) = "ore"
Fails(m, error) == [m EXCEPT !.pc = "failed", !.error = error]
Running == mine.pc \notin {"failed", "completed"}

(***************************************************************************)
(* Looking for targets, and planning.                                      *)
(***************************************************************************)
\* scanNearbyTargets or readRemainingSuppliedTargets, read from the world.
Candidates ==
  {p \in (IF mine.supplied = {} THEN DOMAIN world ELSE mine.supplied) :
     IsTarget(p) /\ IsDiggableBlock(Block(p))}

MineScan ==
  /\ mine.pc = "scan"
  /\ \/ aborted /\ mine' = Fails(mine, "aborted") /\ UNCHANGED <<search, nav>>
     \/ /\ ~ aborted /\ mine.supplied = {}   \* the search of the client fails
        /\ mine' = Fails(mine, "runtime_adapter_error") /\ UNCHANGED <<search, nav>>
     \/ /\ ~ aborted
        /\ mine' = IF Candidates = {} THEN Fails(mine, "unsafe_path")
                   ELSE [mine EXCEPT !.pc = "plan", !.attempts = @ + 1, !.targets = Candidates]
        /\ search' = MineSearchFrom(foot) /\ UNCHANGED nav
  /\ UNCHANGED <<world, selfPlaced, targetFoot, foot, items, pending, aborted, disturbances,
                 late, bag, drops, dugOres>>

MinePlans ==
  /\ mine.pc = "plan" /\ (MineExpandNode(mine.targets) \/ MineNoPath)
  /\ UNCHANGED <<world, selfPlaced, targetFoot, navVars, mineVars>>

(***************************************************************************)
(* Walking the plan.  "begin" and "end" enclose an action: the ores it is  *)
(* about to dig are counted when it is over.                               *)
(***************************************************************************)
MineScript(action) ==
  LET last == IF action.kind \in {"drop1", "digStepDown"} THEN "drop" ELSE "move"
  IN  <<Op("begin", action.digs)>>
        \o [i \in DOMAIN action.digs |-> Op("mineDig", action.digs[i])]
        \o <<Op(last, action.toFoot), Op("end", << >>)>>

\* What the miner does next begins alone, or while something may still land.
Begun == [Idle EXCEPT !.alone = (pending = Nothing)]

MineStarts ==
  /\ mine.pc = "plan" /\ search.status = "solved"
  /\ mine' = [mine EXCEPT !.pc = "act"]
  /\ nav' = [Begun EXCEPT !.status = "acting",
               !.ops = FlattenSeq([i \in DOMAIN search.plan.actions |->
                                     MineScript(search.plan.actions[i])])
                         \o <<Op("check", search.plan.finalFoot),
                              Op("finalDig", search.plan.target)>>]
  /\ UNCHANGED <<routeVars, foot, items, pending, aborted, disturbances, late, bag, drops, dugOres>>

\* countTargetDigsInAction, and the count when the action is done.
MineBegins ==
  /\ In("begin", "start") /\ ~ aborted
  /\ mine' = [mine EXCEPT !.planned = Cardinality({p \in ToSet(CurrentOp.to) : IsTarget(p)})]
  /\ nav' = OpDone(nav)
  /\ AsksNothing /\ UNCHANGED <<routeVars, foot, items, aborted, disturbances, bag, drops, dugOres>>

MineEnds ==
  /\ In("end", "start") /\ ~ aborted
  /\ mine' = [mine EXCEPT !.minedCount = @ + mine.planned] /\ nav' = OpDone(nav)
  /\ AsksNothing /\ UNCHANGED <<routeVars, foot, items, aborted, disturbances, bag, drops, dugOres>>

MineChecks ==
  /\ In("check", "start") /\ ~ aborted
  /\ nav' = IF foot = CurrentOp.to THEN OpDone(nav) ELSE Throw(nav)
  /\ AsksNothing /\ UNCHANGED <<routeVars, foot, items, aborted, disturbances, mineVars>>

\* digSingleBlock of the miner: a plant is left to the walk.
MineDigReads ==
  /\ In("mineDig", "start") /\ ~ aborted
  /\ LET b == Block(CurrentOp.to)
     IN  IF b = "unknown" \/ IsAirBlock(b) THEN nav' = OpDone(nav)
         ELSE nav' \in {Throw(nav), [nav EXCEPT !.pc = "aim", !.seen = b]}
  /\ AsksNothing /\ UNCHANGED <<routeVars, foot, items, aborted, disturbances, mineVars>>

\* mutant: a target the walk already dug is counted once more.
FinalReads_CountsGone ==
  /\ In("finalDig", "start") /\ ~ aborted
  /\ IF ~ IsTarget(CurrentOp.to)
     THEN nav' = OpDone(nav) /\ mine' = [mine EXCEPT !.minedCount = @ + 1]
     ELSE nav' \in {Throw(nav), [nav EXCEPT !.pc = "aim", !.seen = "ore"]} /\ UNCHANGED mine
  /\ AsksNothing
  /\ UNCHANGED <<routeVars, foot, items, aborted, disturbances, bag, drops, dugOres>>

\* digFinalTarget: a target that is gone is no error and is not counted.
FinalReads ==
  /\ In("finalDig", "start") /\ ~ aborted
  /\ IF ~ IsTarget(CurrentOp.to) THEN nav' = OpDone(nav)
     ELSE nav' \in {Throw(nav), [nav EXCEPT !.pc = "aim", !.seen = "ore"]}
  /\ AsksNothing /\ UNCHANGED <<routeVars, foot, items, aborted, disturbances, mineVars>>

Changed(kind, p) ==
  \/ IsBlockChanged(p, nav.seen)
  \/ kind = "mineDig" /\ IsAirBlock(Block(p))

\* mutant: the time of the watchdog is never up.
MineWatches_Patient ==
  \E kind \in {"mineDig", "finalDig"} :
    /\ In(kind, "watch")
    /\ \/ /\ ~ aborted /\ Changed(kind, CurrentOp.to) /\ nav' = OpDone(nav)
          /\ mine' = IF kind = "finalDig" THEN [mine EXCEPT !.minedCount = @ + 1] ELSE mine
       \/ /\ aborted
          /\ nav' = Throw(nav) /\ UNCHANGED mine
    /\ AsksNothing
    /\ UNCHANGED <<routeVars, foot, items, aborted, disturbances, bag, drops, dugOres>>

MineWatches ==
  \E kind \in {"mineDig", "finalDig"} :
    /\ In(kind, "watch")
    /\ \/ /\ ~ aborted /\ Changed(kind, CurrentOp.to) /\ nav' = OpDone(nav)
          /\ mine' = IF kind = "finalDig" THEN [mine EXCEPT !.minedCount = @ + 1] ELSE mine
       \/ /\ aborted \/ ~ Changed(kind, CurrentOp.to)
          /\ nav' = Throw(nav) /\ UNCHANGED mine
    /\ AsksNothing
    /\ UNCHANGED <<routeVars, foot, items, aborted, disturbances, bag, drops, dugOres>>

\* createMineExecutionStepError: whatever it was, also an abort, is an error of a step.
MineStepFails ==
  /\ mine.pc = "act" /\ nav.status = "failed"
  /\ mine' = Fails(mine, "mine_step") /\ UNCHANGED <<vars, bag, drops, dugOres>>

(***************************************************************************)
(* The end of a round: count the items, and see whether to go on.          *)
(***************************************************************************)
GoesOn(collected, attempts) == collected < Count /\ attempts < MaxAttempts

MineRoundEnds ==
  /\ mine.pc = "act" /\ Acting /\ nav.ops = << >>
  /\ LET stuck == IF mine.supplied = {} /\ bag = mine.lastCollected THEN mine.stagnant + 1 ELSE 0
         stops == ~ GoesOn(bag, mine.attempts) \/ (mine.supplied = {} /\ stuck >= MaxStagnant)
     IN  mine' = [mine EXCEPT !.lastCollected = bag, !.stagnant = stuck,
                              !.pc = IF stops THEN "settle" ELSE "scan"]
  /\ nav' = Begun
  /\ UNCHANGED <<routeVars, foot, items, pending, aborted, disturbances, late, bag, drops, dugOres>>

\* After the settling delay the bag is read once more.
MineSettles ==
  /\ mine.pc = "settle"
  /\ mine' = IF bag < Count THEN Fails(mine, "drop_not_obtained")
             ELSE [mine EXCEPT !.pc = "completed"]
  /\ UNCHANGED <<vars, bag, drops, dugOres>>

(***************************************************************************)
(* navigateTowardMineTargets: the feet beside and under the targets, the   *)
(* nearest first, until a navigation succeeds; every error is swallowed,   *)
(* and so is an abort.                                                     *)
(***************************************************************************)
ApproachFeet(targets) ==
  {Above(Beside(t, DIR_VEC[DIRECTIONS[i]]), h) : t \in targets, i \in DOMAIN DIRECTIONS,
                                                 h \in {-1, 0}}
SquareDistance(p, q) ==
  (p[1] - q[1]) * (p[1] - q[1]) + (p[2] - q[2]) * (p[2] - q[2]) + (p[3] - q[3]) * (p[3] - q[3])

ApproachBegins ==
  /\ mine.pc = "plan" /\ search.status = "failed"
  /\ mine' = [mine EXCEPT !.pc = "approach", !.feet = ApproachFeet(mine.targets),
                          !.left = ApproachLimit, !.from = foot]
  /\ UNCHANGED <<vars, bag, drops, dugOres>>

Approach ==
  /\ mine.pc = "approach" /\ mine.left > 0 /\ mine.feet # {}
  /\ \E to \in mine.feet :
       /\ \A f \in mine.feet : SquareDistance(mine.from, to) <= SquareDistance(mine.from, f)
       /\ mine' = [mine EXCEPT !.feet = @ \ {to}, !.left = @ - 1,
                               !.pc = IF to = mine.from THEN "approach" ELSE "navigate"]
       /\ targetFoot' = to
  /\ search' = SearchFrom(foot, 1, 0) /\ nav' = Begun
  /\ UNCHANGED <<world, selfPlaced, foot, items, pending, aborted, disturbances, late,
                 bag, drops, dugOres>>

\* The steps of planTerrainRoute and of the execution of its route.
RoutePlans == mine.pc = "navigate" /\ Plan /\ UNCHANGED mineVars
Navigates  == mine.pc = "navigate" /\ Execute /\ UNCHANGED mineVars

ApproachEnds ==
  /\ mine.pc = "navigate" /\ nav.status \in {"completed", "failed"}
  /\ mine' = IF nav.status = "failed" THEN [mine EXCEPT !.pc = "approach"]
             ELSE IF search.plan.actions = << >> THEN Fails(mine, "unsafe_path")
             ELSE [mine EXCEPT !.pc = IF GoesOn(mine.lastCollected, mine.attempts)
                                      THEN "scan" ELSE "settle"]
  /\ UNCHANGED <<vars, bag, drops, dugOres>>

NoApproach ==
  /\ mine.pc = "approach" /\ (mine.left = 0 \/ mine.feet = {})
  /\ mine' = Fails(mine, "unsafe_path") /\ UNCHANGED <<vars, bag, drops, dugOres>>
(***************************************************************************)
(* Planning and looking are synchronous: the world goes on in between.     *)
(***************************************************************************)
Waits == mine.pc \in {"act", "approach", "settle"} \/ (mine.pc = "navigate" /\ ~ Planning)

MineDigLands ==
  /\ DigLands
  /\ LET got == IF IsTarget(pending.at) THEN 1 ELSE 0
     IN  drops' = drops + got /\ dugOres' = dugOres + got
  /\ UNCHANGED <<mine, bag>>

\* The bot walks over an item, or one flies to it.
PicksUp ==
  /\ drops > 0 /\ drops' = drops - 1 /\ bag' = bag + 1
  /\ UNCHANGED <<vars, mine, dugOres>>

MineWalks ==
  /\ mine.pc = "act"
  /\ DigStarts \/ MoveStarts \/ PathfinderEnds \/ StepToFoot \/ DropStarts \/ HeightReached
       \/ (nav.ops # << >> /\ SeesAbort)
  /\ UNCHANGED mineVars

Searches == MinePlans \/ RoutePlans
MineActs ==
  \/ MineScan \/ MineStarts \/ MineBegins \/ MineEnds \/ MineChecks
  \/ MineDigReads \/ FinalReads \/ MineWatches \/ MineWalks \/ MineStepFails
  \/ MineRoundEnds \/ MineSettles
  \/ ApproachBegins \/ Approach \/ Navigates \/ ApproachEnds \/ NoApproach

MineAround ==
  /\ Waits
  /\ \/ MineDigLands \/ PicksUp
     \/ /\ \/ BotMoves \/ Falls \/ PlaceLands \/ PendingLost \/ Abort
           \/ OthersChangeBlock \/ OthersPush
        /\ UNCHANGED mineVars

MineNext == Searches \/ MineActs \/ MineAround

\* The waits without a limit of their own.  The watchdogs of a walk, of the control keys
\* and of a drop are set anew whenever the bot moves by 0.05 blocks, a hop on the spot
\* included, and stepToFoot does not look at the abort; centring and a placement
\* await stepToFoot when the bot is beside its cell.
Centring == nav.pc = "start" /\ CurrentOp.kind \in {"centre", "place"}
MoveUnderWay == Acting /\ nav.ops # << >> /\ (HeadsSomewhere \/ Centring)
HeldByMove == MoveUnderWay /\ (Centring \/ foot # Heading)

\* The call goes on: what it waits for comes or is given up after its time, but nothing
\* is said of a bot that is on the move and not where it heads for.  The second conjunct
\* is WF_allVars(Searches), with its ENABLED written out: a search under way can
\* always take a step.
SearchUnderWay == search.status = "searching" /\ mine.pc \in {"plan", "navigate"}
MineFairness ==
  /\ WF_allVars(MineActs /\ ~ HeldByMove)
  /\ []<>(~ SearchUnderWay) \/ []<><<Searches>>_allVars
MineSpec == MineInit /\ [][MineNext]_allVars /\ MineFairness

(***************************************************************************)
(* Properties.                                                             *)
(***************************************************************************)
\* The way to a target can be carried out when it is planned, and at its end the
\* target is dug or within reach.
MinePlanIsExecutable ==
  mine.pc = "plan" /\ search.status = "solved" =>
    LET steps  == search.plan.actions
        target == search.plan.target
    IN  /\ StepsAreExecutable(steps)
        /\ FootAfter(steps, Len(steps)) = search.plan.finalFoot
        /\ CellAfter(steps, Len(steps), target) = "air" \/ InReach(search.plan.finalFoot, target)

\* The miner never claims a block that was not dug for it, unless others dig.
MinedIsDug == disturbances = 0 => mine.minedCount <= dugOres

\* The call ends, or one of its movements never does: rounds without a new item, failed
\* approaches and walks that are pushed back do not go on and on.
MineEndsSometime == <>(~ Running) \/ <>[]MoveUnderWay
=============================================================================
