-------------------------- MODULE ToolchainEnsure ---------------------------
(***************************************************************************)
(* The script's ensure(action, until.condition) and the recovery behind it: *)
(* the loop in the isolate (sandbox/bootstrap.ts), the plan it asks for     *)
(* (skills/toolchain-ensure/recovery-planner.ts), the plan's execution      *)
(* (capability-executor.ts) and the capabilities that plan calls: craft,    *)
(* place, equip, mine, cutTree and collect (runtime/transport, skills).     *)
(*                                                                         *)
(* The calls nest and wait for one another, and an interrupt may come at   *)
(* any await: the chain of awaiting calls is the stack, its first element   *)
(* the call that runs.  A step runs from one await to the next.            *)
(***************************************************************************)
EXTENDS ToolchainFacts

CONSTANTS
  Requests,       \* the ensures a script may make
  Starts,         \* the situations it may make them in
  Minable,        \* the blocks the mine skill accepts
  LogsPerTree,    \* what felling one tree may bring
  Candidates,     \* places looked at for a table: 3
  MishapBound     \* bound on what may go wrong in the world

ASSUME ToolchainAssumption ==
  /\ Candidates \in Nat \ {0} /\ MishapBound \in Nat
  /\ LogsPerTree \subseteq Nat \ {0} /\ Minable \subseteq DOMAIN Drops
  /\ \A r \in Requests :
       /\ r.act \in {"craft", "mine", "equip", "place", "cut"}
       /\ r.until \in {"has", "gained", "gainedDropOf", "equipped", "placed"}
  /\ \A s \in Starts : s.inventory \in [Items -> Nat]

VARIABLES
  inventory, hand,
  table,          \* the crafting table: "none", "near" or out of "far" reach
  cachedTable,    \* the transport remembers where it is
  request, baseline, start,
  stack, ret,     \* the calls that wait, and the last answer
  aborted, outcome,
  mishaps

world == <<inventory, hand, table, cachedTable>>
script == <<request, start>>
vars == <<world, script, baseline, stack, ret, aborted, outcome, mishaps>>

EnsureAttempts == 3
RetryLimit == 3         \* DEPENDENCY_RETRY_LIMIT
CraftRecursionLimit == 5
PlaceAttempts == 3

-----------------------------------------------------------------------------
(* Answers and calls.                                                      *)

\* code: what a caller sees; says: what classifySkillFailure reads in the message.
Answer(code, says, demands) == [code |-> code, says |-> says, demands |-> demands]
Ok == Answer("ok", "ok", <<>>)
AlreadyEquipped == Answer("ok", "already_equipped", <<>>)
Failure(code) == Answer(code, code, <<>>)
Thrown(code, says) == Answer(code, says, <<>>)
Succeeded == ret.code = "ok"

Frame(fn, item, n) ==
  [fn |-> fn, pc |-> "enter", item |-> item, n |-> n, tries |-> 0, todo |-> <<>>,
   seen |-> {}, at |-> Nothing, err |-> Ok, late |-> FALSE]

top == Head(stack)
At(fn, pc) == stack # <<>> /\ top.fn = fn /\ top.pc = pc
Becomes(frame) == stack' = <<frame>> \o Tail(stack) /\ UNCHANGED ret
Goes(pc) == Becomes([top EXCEPT !.pc = pc])
Calls(frame, pc) == stack' = <<frame, [top EXCEPT !.pc = pc]>> \o Tail(stack) /\ UNCHANGED ret
Returns(answer) == stack' = Tail(stack) /\ ret' = answer
Computes == UNCHANGED <<world, script, baseline, aborted, outcome, mishaps>>
Acts == UNCHANGED <<script, baseline, aborted, outcome>>

\* A step of a world that may spend a mishap, or none.
Spends(k) == mishaps + k <= MishapBound /\ mishaps' = mishaps + k

\* A capability looks at the abort before it starts (runtime.ts).
MayBegin_Unasked == TRUE   \* with an error
MayBegin == ~ aborted
Refused(answer) == aborted /\ Returns(answer)
Begins(frame) == MayBegin /\ Becomes([frame EXCEPT !.late = aborted])

HandAfter(inv, item) == IF item # Nothing /\ inv[item] = 0 THEN Nothing ELSE item
Gains(item, k) == inventory' = [inventory EXCEPT ![item] = @ + k]

\* What is dug, on the way too, is dug with a tool it yields to, if it has any,
\* and else with the empty hand (dig-tool-policy.ts).
ToolsFor(block) == IF block \in DOMAIN HarvestTools THEN ToSet(HarvestTools[block]) ELSE {}
RightTool(block) == ToolsFor(block) = {} \/ \E tool \in ToolsFor(block) : inventory[tool] > 0
Digs == hand' \in {hand, Nothing} \cup
                  {tool \in UNION {ToolsFor(b) : b \in DOMAIN HarvestTools} : inventory[tool] > 0}

\* Digging may lead the bot away from its table: a mishap of one.
Walks(k) ==
  \/ k = 0 /\ UNCHANGED table
  \/ k = 1 /\ table = "near" /\ table' = "far"

-----------------------------------------------------------------------------
(* craft (runtime/transport/craft.ts): the ingredients are crafted first,   *)
(* and nothing in between looks at the abort.                              *)

CraftCall(item, n) == Frame("craftCall", item, n)
Craft(target, n, seen) == [Frame("craft", target, n) EXCEPT !.seen = seen]

CraftEnter ==
  /\ At("craftCall", "enter")
  /\ \/ Refused(Failure("aborted"))
     \/ /\ MayBegin /\ CraftTarget(top.item) \notin CraftAllowlist
        /\ Returns(Failure("unsupported_capability"))
     \/ /\ CraftTarget(top.item) \in CraftAllowlist
        /\ Begins(Craft(CraftTarget(top.item), top.n, {}))
  /\ Computes

NearbyTable == IF cachedTable /\ table # Nothing THEN table
               ELSE IF table = "near" THEN "near" ELSE Nothing

Planned(frame, plan) ==
  IF plan.code = "ready" THEN Becomes([frame EXCEPT !.pc = "run"])
  ELSE Returns(Answer(plan.code, plan.code, plan.demands))

CraftLooks ==
  LET plan   == SelectCraftPlan(inventory, top.item, top.n, NearbyTable)
      recipe == RepresentativeRecipe(inventory, top.item, top.n, NearbyTable)
      frame  == [top EXCEPT !.at = NearbyTable]
  IN  /\ At("craft", "enter")
      /\ IF Cardinality(top.seen) > CraftRecursionLimit \/ top.item \in top.seen
         THEN Returns(Failure("missing_materials")) /\ UNCHANGED cachedTable
         ELSE IF TargetCandidates(top.item) = <<>>
         THEN Returns(Failure("recipe_not_found")) /\ UNCHANGED cachedTable
         ELSE /\ cachedTable' = (cachedTable /\ table # Nothing)
              /\ IF plan.code = "missing_materials"
                 THEN Becomes([frame EXCEPT !.pc = "prepare",
                                 !.todo = MissingMaterials(inventory, recipe, top.n)])
                 ELSE Planned(frame, plan)
      /\ UNCHANGED <<inventory, hand, table, mishaps>> /\ Acts

CraftPrepares ==
  /\ At("craft", "prepare")
  /\ IF top.todo = <<>>
     THEN Planned(top, SelectCraftPlan(inventory, top.item, top.n, top.at))
     ELSE Calls([Craft(Head(top.todo).item, Head(top.todo).n, top.seen \cup {top.item})
                   EXCEPT !.late = top.late], "prepared")
  /\ Computes

\* An ingredient that cannot be made is what is missing.
Unprepared(answer) ==
  IF answer.code = "recipe_not_found"
  THEN Answer("missing_materials", "missing_materials", <<Head(top.todo)>>) ELSE answer

CraftPrepared ==
  /\ \/ /\ (At("craft", "prepared") \/ At("craft", "generic")) /\ Succeeded
        /\ Becomes([top EXCEPT !.pc = "prepare", !.todo = Tail(@)])
     \/ /\ At("craft", "prepared") /\ ~ Succeeded /\ Head(top.todo).item \in ToSet(Planks)
        /\ stack' = <<[Craft("planks", Head(top.todo).n, top.seen \cup {top.item})
                         EXCEPT !.late = top.late],
                      [top EXCEPT !.pc = "generic", !.err = ret]>> \o Tail(stack)
        /\ UNCHANGED ret
     \/ /\ At("craft", "prepared") /\ ~ Succeeded /\ Head(top.todo).item \notin ToSet(Planks)
        /\ Returns(Unprepared(ret))
     \/ At("craft", "generic") /\ ~ Succeeded /\ Returns(Unprepared(top.err))
  /\ Computes

UsesOf(recipe, item) ==
  MapThenSumSet(LAMBDA k : recipe.needs[k].n,
                {k \in DOMAIN recipe.needs : recipe.needs[k].item = item})
Crafted(inv, plan, runs) ==
  [i \in Items |-> inv[i]
     - (IF i \in Ingredients(plan.recipe) THEN runs * UsesOf(plan.recipe, i) ELSE 0)
     + (IF i = plan.item THEN runs * plan.recipe.yield ELSE 0)]

\* mineflayer walks nowhere: a table out of reach makes the craft fail.
CraftRun ==
  LET plan == SelectCraftPlan(inventory, top.item, top.n, top.at)
      made == Crafted(inventory, plan, CraftRuns(plan.recipe, top.n))
  IN  /\ At("craft", "run")
      /\ \/ /\ plan.recipe.table => table = "near"
            /\ inventory' = made /\ hand' = HandAfter(made, hand)
            /\ Returns(Ok) /\ UNCHANGED mishaps
         \/ /\ plan.recipe.table /\ table # "near"
            /\ Returns(Failure("runtime_craft_failed")) /\ UNCHANGED <<inventory, hand, mishaps>>
         \/ /\ Spends(1)
            /\ Returns(Failure("runtime_craft_failed")) /\ UNCHANGED <<inventory, hand>>
      /\ UNCHANGED <<table, cachedTable>> /\ Acts

-----------------------------------------------------------------------------
(* place (runtime/transport/placement.ts).  Inside a candidate an abort     *)
(* reads as that candidate's failure; before the next it is thrown.        *)

PlaceCall == Frame("place", "crafting_table", Candidates)

PlaceEnter ==
  /\ At("place", "enter")
  /\ \/ Refused(Failure("aborted")) /\ UNCHANGED <<cachedTable, mishaps>>
     \/ /\ MayBegin /\ cachedTable
        /\ Returns(IF table # Nothing THEN Ok ELSE Failure("cached_position_invalid"))
        /\ cachedTable' = (table # Nothing) /\ UNCHANGED mishaps
     \/ /\ MayBegin /\ ~ cachedTable /\ inventory["crafting_table"] = 0
        /\ Returns(Failure("missing_crafting_table_item")) /\ UNCHANGED <<cachedTable, mishaps>>
     \/ /\ MayBegin /\ ~ cachedTable /\ inventory["crafting_table"] > 0
        /\ Spends(1) /\ Returns(Failure("no_placeable_position")) /\ UNCHANGED cachedTable
     \/ /\ ~ cachedTable /\ inventory["crafting_table"] > 0
        /\ Begins([top EXCEPT !.pc = "candidate"]) /\ UNCHANGED <<cachedTable, mishaps>>
  /\ UNCHANGED <<inventory, hand, table>> /\ Acts

PlaceCandidate ==
  /\ At("place", "candidate")
  /\ \/ Refused(Failure("aborted"))
     \/ ~ aborted /\ Becomes([top EXCEPT !.pc = "approach", !.n = @ - 1])
  /\ Computes

NextCandidate == Becomes([top EXCEPT !.pc = IF top.n = 0 THEN "giveUp" ELSE "candidate",
                                     !.tries = 0])

\* The way there fails, or the place is taken or its support is gone.
PlaceApproach ==
  /\ At("place", "approach")
  /\ \/ aborted /\ NextCandidate /\ UNCHANGED mishaps
     \/ ~ aborted /\ Spends(1) /\ NextCandidate
     \/ ~ aborted /\ Goes("equip") /\ UNCHANGED mishaps
  /\ Digs /\ UNCHANGED <<inventory, table, cachedTable>> /\ Acts

PlaceEquips ==
  /\ At("place", "equip")
  /\ \/ aborted /\ NextCandidate /\ UNCHANGED hand
     \/ ~ aborted /\ hand' = "crafting_table" /\ Goes("click")
  /\ UNCHANGED <<inventory, table, cachedTable, mishaps>> /\ Acts

\* The block is looked at after the click, also when the click failed.
PlaceClicks ==
  LET left == [inventory EXCEPT !["crafting_table"] = @ - 1]
  IN  /\ At("place", "click")
      /\ \/ /\ inventory' = left /\ hand' = HandAfter(left, hand)
            /\ table' = "near" /\ cachedTable' = TRUE
            /\ Returns(Ok) /\ UNCHANGED mishaps
         \/ /\ Spends(1)
            /\ \/ NextCandidate                       \* not to be retried, or tried enough
               \/ /\ top.tries + 1 < PlaceAttempts
                  /\ Becomes([top EXCEPT !.pc = "equip", !.tries = @ + 1])
            /\ UNCHANGED <<inventory, hand, table, cachedTable>>
      /\ Acts

PlaceGivesUp == At("place", "giveUp") /\ Returns(Failure("place_failed")) /\ Computes

-----------------------------------------------------------------------------
(* equip (runtime/transport/equip.ts), mine (skills/mine.ts), cutTree       *)
(* (skills/cut-tree.ts) and collect.  The message of what they throw does   *)
(* not hold the code, but for mine's.                                      *)

EquipCall(item) == Frame("equip", item, 1)
MineCall(block, n) == Frame("mine", block, n)
CutCall(n) == Frame("cut", "log", n)
CollectCall == Frame("collect", "any", 1)

Unspoken(code) == Thrown(code, "unsupported_capability")

EquipEnter ==
  /\ At("equip", "enter")
  /\ \/ Refused(Unspoken("aborted"))
     \/ MayBegin /\ hand = top.item /\ Returns(AlreadyEquipped)
     \/ /\ MayBegin /\ hand # top.item /\ inventory[top.item] = 0
        /\ Returns(Unspoken("missing_item"))
     \/ /\ hand # top.item /\ inventory[top.item] > 0
        /\ Begins([top EXCEPT !.pc = "hold"])
  /\ Computes

EquipHolds ==
  /\ At("equip", "hold")
  /\ \/ hand' = top.item /\ Returns(Ok) /\ UNCHANGED mishaps
     \/ Spends(1) /\ Returns(Unspoken("runtime_equip_failed")) /\ UNCHANGED hand
  /\ UNCHANGED <<inventory, table, cachedTable>> /\ Acts

MineEnter ==
  /\ At("mine", "enter")
  /\ \/ Refused(Unspoken("aborted"))
     \/ /\ MayBegin /\ top.item \notin Minable
        /\ Returns(Failure("unsupported_capability"))
     \/ top.item \in Minable /\ Begins([top EXCEPT !.pc = "dig"])
  /\ Computes

\* Whatever the miner throws is a runtime_mine_failed to the script (see MineSkill).
MineDigs ==
  LET fails(says) == Returns(Thrown("runtime_mine_failed", says))
  IN  /\ At("mine", "dig")
      /\ \E drop \in Drops[top.item] :
           \/ /\ aborted                       \* what is being dug still falls
              /\ \E k \in 0 .. top.n : Gains(drop, k)
              /\ fails("unsupported_capability") /\ UNCHANGED <<table, mishaps>>
           \/ /\ ~ aborted /\ ~ RightTool(top.item)
              /\ fails("not_equipped") /\ UNCHANGED <<inventory, table, mishaps>>
           \/ /\ ~ aborted /\ RightTool(top.item)
              /\ \E walk \in {0, 1} : Walks(walk) /\ Spends(walk)
              /\ Gains(drop, top.n) /\ Returns(Ok)
           \/ /\ ~ aborted /\ RightTool(top.item) /\ Spends(1)
              /\ \E k \in 0 .. top.n - 1 :
                   /\ Gains(drop, k)
                   /\ \/ fails("drop_not_obtained")
                      \/ k > 0 /\ Becomes([top EXCEPT !.n = @ - k])
              /\ UNCHANGED table
      /\ Digs /\ UNCHANGED cachedTable /\ Acts

LogItems == UNION {Drops[b] : b \in LogBlocks}

CutEnter ==
  /\ At("cut", "enter")
  /\ Refused(Unspoken("aborted")) \/ Begins([top EXCEPT !.pc = "fell"])
  /\ Computes

\* A tree, whatever its wood, and the logs that are picked up under it.
CutFells ==
  /\ At("cut", "fell")
  /\ \/ /\ aborted /\ Returns(Unspoken("aborted")) /\ UNCHANGED <<inventory, table, mishaps>>
     \/ /\ ~ aborted /\ \E walk \in {0, 1} : Walks(walk) /\ Spends(walk)
        /\ \E log \in LogItems, k \in LogsPerTree :
             /\ Gains(log, k)
             /\ IF k >= top.n THEN Returns(Ok) ELSE Becomes([top EXCEPT !.n = @ - k])
     \/ /\ ~ aborted /\ Spends(1)              \* no tree in reach, or its logs are lost
        /\ Returns(Unspoken("resource_not_found")) \/ Goes("fell")
        /\ UNCHANGED <<inventory, table>>
  /\ Digs /\ UNCHANGED cachedTable /\ Acts

CollectEnter ==
  /\ At("collect", "enter")
  /\ Refused(Unspoken("aborted")) \/ Begins([top EXCEPT !.pc = "pick"])
  /\ Computes

CollectPicks ==
  /\ At("collect", "pick")
  /\ UNCHANGED inventory \/ \E log \in LogItems : Gains(log, 1)
  /\ Returns(Ok) /\ Digs
  /\ UNCHANGED <<table, cachedTable, mishaps>> /\ Acts

-----------------------------------------------------------------------------
(* The recovery (capability-executor.ts).                                  *)

EquipTool(item) == Frame("equipTool", item, 1)
Make(item) == Frame("make", item, 1)
PlaceTable == Frame("table", "crafting_table", 1)
Materials(demands) == [Frame("materials", "any", 1) EXCEPT !.todo = demands]
Missing(item, n) == Frame("missing", item, n)
Provide(item, n) == Frame("provide", item, n)
BlockDrop(block, n) == [Frame("drop", block, n) EXCEPT !.at = block]

\* callSkill asks a skill for its proof; an equip that had nothing to do has none.
Proven(answer) ==
  IF answer = AlreadyEquipped THEN Failure("unknown_completion")
  ELSE IF answer.code = "ok" THEN Ok ELSE Failure(answer.says)

EquipToolStep ==
  /\ \/ /\ At("equipTool", "enter") /\ inventory[top.item] = 0
        /\ Calls(Make(top.item), "made")
     \/ /\ \/ At("equipTool", "enter") /\ inventory[top.item] > 0
           \/ At("equipTool", "made") /\ Succeeded
        /\ Calls(EquipCall(top.item), "equipped")
     \/ At("equipTool", "made") /\ ~ Succeeded /\ Returns(ret)
     \/ At("equipTool", "equipped") /\ Returns(Proven(ret))
  /\ Computes

MakeCrafts ==
  /\ At("make", "enter")
  /\ IF top.tries < RetryLimit THEN Calls(CraftCall(top.item, 1), "crafted")
     ELSE Returns(Failure("missing_materials"))
  /\ Computes

MakeRecovers ==
  /\ \/ /\ At("make", "crafted") /\ ret.code = "missing_crafting_table"
        /\ Calls(PlaceTable, "recovered")
     \/ /\ At("make", "crafted") /\ ret.code = "missing_materials" /\ ret.demands # <<>>
        /\ Calls(Materials(ret.demands), "recovered")
     \/ /\ At("make", "crafted") /\ ret.code # "missing_crafting_table" /\ ret.demands = <<>>
        /\ Returns(ret)
     \/ /\ At("make", "recovered") /\ Succeeded
        /\ Becomes([top EXCEPT !.pc = "enter", !.tries = @ + 1])
     \/ At("make", "recovered") /\ ~ Succeeded /\ Returns(ret)
  /\ Computes

TableStep ==
  /\ \/ /\ At("table", "enter") /\ inventory["crafting_table"] = 0
        /\ Calls(CraftCall("crafting_table", 1), "crafted")
     \/ /\ \/ At("table", "enter") /\ inventory["crafting_table"] > 0
           \/ At("table", "crafted") /\ Succeeded
        /\ Calls(PlaceCall, "placed")
     \/ /\ At("table", "crafted") /\ ~ Succeeded
        /\ Returns(IF ret.code = "missing_crafting_table"
                   THEN Failure("crafting_table_required") ELSE ret)
     \/ At("table", "placed") /\ Returns(ret)
  /\ Computes

MaterialsStep ==
  /\ \/ At("materials", "enter") /\ top.todo = <<>> /\ Returns(Ok)
     \/ /\ At("materials", "enter") /\ top.todo # <<>>
        /\ Calls(Missing(Head(top.todo).item, Head(top.todo).n), "recovered")
     \/ /\ At("materials", "recovered") /\ Succeeded
        /\ Becomes([top EXCEPT !.pc = "enter", !.todo = Tail(@)])
     \/ At("materials", "recovered") /\ ~ Succeeded /\ Returns(ret)
  /\ Computes

FromSource(source, item, target, accept) ==
  [Frame(IF source.act = "cut" THEN "fell" ELSE "dig", item, target) EXCEPT !.seen = accept, !.at = source.block]

RecoverMissing ==
  /\ At("missing", "enter")
  /\ IF CanCraft(top.item) THEN Becomes(Make(top.item))
     ELSE IF MaterialSource(top.item).act = Nothing THEN Returns(Failure("missing_materials"))
     ELSE LET r == MaterialRequirement(inventory, top.item, top.n)
          IN  IF Held(inventory, r.accept) >= r.target THEN Returns(Ok)
              ELSE Becomes(FromSource(r.source, top.item, r.target, r.accept))
  /\ Computes

\* A material that can be crafted is crafted once, however many are asked for.
ProvideStep ==
  /\ At("provide", "enter")
  /\ IF inventory[top.item] >= top.n THEN Returns(Ok)
     ELSE IF CanCraft(top.item) THEN Becomes(Make(top.item))
     ELSE IF MaterialSource(top.item).act = Nothing THEN Returns(Failure("missing_materials"))
     ELSE Becomes(FromSource(MaterialSource(top.item), top.item, top.n, {top.item}))
  /\ Computes

\* What is missing is counted before the tool is made.
DigMissing == IF top.fn = "dig" THEN top.n - Held(inventory, top.seen) ELSE Positive(top.n)

DigStep ==
  LET tool == RequiredEquipment(inventory, top.at)
      counted == [top EXCEPT !.tries = DigMissing]
  IN  /\ \/ /\ At("dig", "enter") \/ At("drop", "enter")
            /\ IF tool = Nothing THEN Becomes([counted EXCEPT !.pc = "mine"])
               ELSE /\ stack' = <<EquipTool(tool), [counted EXCEPT !.pc = "equipped"]>> \o Tail(stack)
                    /\ UNCHANGED ret
         \/ /\ At("dig", "equipped") \/ At("drop", "equipped")
            /\ IF Succeeded THEN Goes("mine") ELSE Returns(ret)
         \/ /\ At("dig", "mine") \/ At("drop", "mine")
            /\ Calls(MineCall(top.at, top.tries), "mined")
         \/ At("drop", "mined") /\ Returns(Proven(ret))
         \/ /\ At("dig", "mined")
            /\ Returns(IF Succeeded /\ Held(inventory, top.seen) < top.n
                       THEN Failure("drop_not_obtained") ELSE Proven(ret))
      /\ Computes

FellStep ==
  LET enough == Held(inventory, top.seen) >= top.n
  IN  /\ \/ At("fell", "enter") /\ Calls(CutCall(top.n - Held(inventory, top.seen)), "cut")
         \/ /\ At("fell", "cut")
            /\ IF Succeeded /\ ~ enough THEN Calls(CollectCall, "collected")
               ELSE Returns(Proven(ret))
         \/ /\ At("fell", "collected")
            /\ Returns(IF Succeeded /\ ~ enough THEN Failure("resource_not_found")
                       ELSE Proven(ret))
      /\ Computes

-----------------------------------------------------------------------------
(* The ensure of the script.                                               *)

\* evaluateEnsureCondition (condition-checker.ts).
Completed ==
  LET gained(items) == Max({0, Held(inventory, items) - Held(baseline, items)})
  IN  CASE request.until = "has" -> inventory[request.name]
        [] request.until = "gained" -> gained({request.name})
        [] request.until = "gainedDropOf" -> gained(Drops[request.name])
        [] request.until = "equipped" -> IF hand = request.name THEN 1 ELSE 0
        [] request.until = "placed" -> IF table = "near" THEN 1 ELSE 0
Met == Completed >= request.count

\* planRecovery: what the failure of an attempt calls for, or nothing.
GapPlan ==
  LET missing == request.count - Completed
  IN  CASE request.until = "has" -> Provide(request.name, request.count)
        [] request.until = "gained" -> Provide(request.name, inventory[request.name] + missing)
        [] request.until = "gainedDropOf" -> BlockDrop(request.name, missing)
        [] request.until = "equipped" -> EquipTool(request.name)
        [] request.until = "placed" -> PlaceCall
Plan(failure) ==
  LET tool == RequiredEquipment(inventory, request.item)
  IN  IF failure.code = "not_equipped" /\ request.act = "mine" /\ tool # Nothing
      THEN <<EquipTool(tool)>>
      ELSE IF failure.code \in {"missing_crafting_table", "missing_crafting_table_item"}
      THEN <<PlaceTable>>
      ELSE IF failure.code = "missing_materials" /\ failure.demands # <<>>
      THEN <<Materials(failure.demands)>>
      ELSE IF failure.code = "condition_not_met" THEN <<GapPlan>>
      ELSE <<>>

Action ==
  CASE request.act = "craft" -> CraftCall(request.item, request.n)
    [] request.act = "mine" -> MineCall(request.item, request.n)
    [] request.act = "equip" -> EquipCall(request.item)
    [] request.act = "place" -> PlaceCall
    [] request.act = "cut" -> CutCall(request.n)

Ends(result) == outcome' = result /\ stack' = <<>> /\ ret' = Ok
Still == UNCHANGED outcome
InScript(pc) == ~ aborted /\ At("ensure", pc)

\* With an error: the tool is left to the attempts.
EnsurePreflight_Later ==
  /\ InScript("enter") /\ Goes("baseline")
  /\ UNCHANGED <<world, script, baseline, aborted, outcome, mishaps>>

EnsurePreflight ==
  LET tool == IF request.until = "gainedDropOf"
              THEN RequiredEquipment(inventory, request.name) ELSE Nothing
  IN  /\ \/ /\ InScript("enter")
            /\ IF tool = Nothing THEN Goes("baseline") ELSE Calls(EquipTool(tool), "preflighted")
            /\ Still
         \/ InScript("preflighted") /\ Succeeded /\ Goes("baseline") /\ Still
         \/ InScript("preflighted") /\ ~ Succeeded /\ Ends(ret.code)
      /\ UNCHANGED <<world, script, baseline, aborted, mishaps>>

EnsureBaseline ==
  /\ InScript("baseline") /\ baseline' = inventory /\ Goes("act")
  /\ UNCHANGED <<world, script, aborted, outcome, mishaps>>

EnsureActs ==
  /\ InScript("act")
  /\ IF top.tries < EnsureAttempts THEN Calls(Action, "acted") /\ Still
     ELSE Ends("condition_not_met")
  /\ UNCHANGED <<world, script, baseline, aborted, mishaps>>

Recovers(failure) ==
  IF Plan(failure) = <<>> THEN Ends(failure.code)
  ELSE Calls(Head(Plan(failure)), "recovered") /\ Still

EnsureActed ==
  /\ InScript("acted")
  /\ \/ Succeeded /\ Met /\ Ends("succeeded")
     \/ Succeeded /\ ~ Met /\ Recovers(Failure("condition_not_met"))
     \/ ~ Succeeded /\ Recovers(ret)
  /\ UNCHANGED <<world, script, baseline, aborted, mishaps>>

\* With an error: a recovery that leaves a gap is not counted as an attempt.
EnsureRecovered_Uncounted ==
  /\ InScript("recovered")
  /\ \/ ~ Succeeded /\ Ends(ret.code)
     \/ Succeeded /\ Met /\ Ends("succeeded")
     \/ Succeeded /\ ~ Met /\ Goes("act") /\ Still
  /\ UNCHANGED <<world, script, baseline, aborted, mishaps>>

EnsureRecovered ==
  /\ InScript("recovered")
  /\ \/ ~ Succeeded /\ Ends(ret.code)
     \/ Succeeded /\ Met /\ Ends("succeeded")
     \/ Succeeded /\ ~ Met /\ Becomes([top EXCEPT !.pc = "act", !.tries = @ + 1]) /\ Still
  /\ UNCHANGED <<world, script, baseline, aborted, mishaps>>

-----------------------------------------------------------------------------
(* The task is interrupted: the isolate goes at once, the host's calls run  *)
(* on until one of them looks.                                             *)

Abort ==
  /\ stack # <<>> /\ ~ aborted
  /\ aborted' = TRUE /\ outcome' = "interrupted"
  /\ UNCHANGED <<world, script, baseline, stack, ret, mishaps>>

ScriptGone ==
  /\ aborted /\ stack # <<>> /\ top.fn = "ensure" /\ stack' = <<>> /\ ret' = Ok
  /\ Computes

TableIsBroken ==
  /\ stack # <<>> /\ table # Nothing /\ Spends(1) /\ table' = Nothing
  /\ UNCHANGED <<inventory, hand, cachedTable, stack, ret>> /\ Acts

-----------------------------------------------------------------------------
Init ==
  /\ request \in Requests /\ start \in Starts
  /\ inventory = start.inventory /\ hand = start.hand
  /\ table = start.table /\ cachedTable = start.cachedTable
  /\ baseline = start.inventory
  /\ stack = <<Frame("ensure", "any", 1)>> /\ ret = Ok
  /\ aborted = FALSE /\ outcome = "running" /\ mishaps = 0

Capability ==
  \/ CraftEnter \/ CraftLooks \/ CraftPrepares \/ CraftPrepared \/ CraftRun
  \/ PlaceEnter \/ PlaceCandidate \/ PlaceApproach \/ PlaceEquips \/ PlaceClicks \/ PlaceGivesUp
  \/ EquipEnter \/ EquipHolds \/ MineEnter \/ MineDigs \/ CutEnter \/ CutFells
  \/ CollectEnter \/ CollectPicks

Recovery ==
  \/ EquipToolStep \/ MakeCrafts \/ MakeRecovers \/ TableStep \/ MaterialsStep
  \/ RecoverMissing \/ ProvideStep \/ DigStep \/ FellStep

Ensure ==
  \/ EnsurePreflight \/ EnsureBaseline \/ EnsureActs \/ EnsureActed \/ EnsureRecovered
  \/ ScriptGone

Proceed == Capability \/ Recovery \/ Ensure
Next == Proceed \/ Abort \/ TableIsBroken

\* Every awaited call settles: the client's calls have time limits of their own.
Spec == Init /\ [][Next]_vars /\ WF_vars(Proceed)

-----------------------------------------------------------------------------
(* Properties.                                                             *)

Failed == outcome \notin {"running", "succeeded", "interrupted"}
Untroubled == mishaps = 0 /\ ~ aborted

(***************************************************************************)
(* Beside a table and with nothing in hand, a craft up to the stone         *)
(* pickaxe and a mining of stone end well when nothing goes wrong: the      *)
(* three attempts of every level (bootstrap.ts, craftWithLocalRecovery) are *)
(* enough for the logs, the planks, the sticks and the tool on the way,     *)
(* whatever the wood and however many logs a tree brings.                  *)
(***************************************************************************)
Supported ==
  \/ request.act = "craft" /\ request.item \in CraftAllowlist
  \/ request.act = "mine" /\ request.item \in Minable /\ request.until = "gainedDropOf"
TableAtHandIsEnough ==
  (Untroubled /\ Supported /\ start.table = "near" /\ start.hand = Nothing) => ~ Failed

(***************************************************************************)
(* A block is only dug, in an ensure that asks for its drop, with a tool    *)
(* that it yields to: the preflight and the recoveries see to it, and no    *)
(* placing of a table or equip between them and the digging undoes it.      *)
(***************************************************************************)
AsksForItsDrop ==
  request.until = "gainedDropOf" /\ (request.act = "mine" => request.item = request.name)
MinesWithTheTool == (At("mine", "dig") /\ AsksForItsDrop) => RightTool(top.item)

(***************************************************************************)
(* After the interrupt the chain of calls that is left in the host changes  *)
(* the world only by the capability that was running when it came: none     *)
(* begins later, however its callers read the abort.                       *)
(***************************************************************************)
AbortEndsTheChain ==
  [][aborted /\ <<inventory, hand>> # <<inventory', hand'>> => ~ top.late]_vars

(***************************************************************************)
(* An ensure comes to an end, interrupted or not: the attempts of its       *)
(* levels run out, though each level starts those below it anew.           *)
(***************************************************************************)
EnsureEnds == <>(stack = <<>>)
=============================================================================
