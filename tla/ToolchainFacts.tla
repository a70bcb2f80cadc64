--------------------------- MODULE ToolchainFacts ---------------------------
(***************************************************************************)
(* What the tool chain knows about recipes, drops and tools, and the pure  *)
(* choices it makes with that knowledge: which recipe a craft takes, what  *)
(* it lacks, which tool a block asks for and where a material comes from.  *)
(*                                                                         *)
(* The tables are minecraft-data's, read through the bot's registry: they  *)
(* are constants here.  An inventory is a function from items to counts;   *)
(* a demand is a record [item, n].                                         *)
(***************************************************************************)
EXTENDS Integers, Sequences, SequencesExt, FiniteSetsExt

CONSTANTS
  Items,         \* the items of the instance
  Planks,        \* the planks among them, in the registry's order
  Recipes,       \* item -> set of [place, yield, table, needs], ordered by place
  BlockOrder,    \* the blocks that can be a source, ordered by id
  Drops,         \* block -> set of items
  LogBlocks,     \* the blocks that count as logs of a tree
  HarvestTools   \* block -> sequence of tools, ordered by id

Nothing == "none"

(* What is read in the registry: planks and tools are items; a recipe takes *)
(* items and yields some; no tool that a block yields to is dropped by a     *)
(* block, spent in a recipe, or a crafting table.                           *)
Ingredients(recipe) == {recipe.needs[k].item : k \in DOMAIN recipe.needs}
Tools == UNION {ToSet(HarvestTools[b]) : b \in DOMAIN HarvestTools}

ASSUME RegistryAssumption ==
  /\ Planks \in Seq(Items)
  /\ \A i \in Items : \A r \in Recipes[i] :
       r.place \in Nat /\ r.yield \in Nat \ {0} /\ Ingredients(r) \cap Tools = {}
  /\ \A b \in DOMAIN HarvestTools : HarvestTools[b] \in Seq(Items \ {Nothing, "crafting_table"})
  /\ LogBlocks \subseteq DOMAIN Drops
  /\ \A b \in DOMAIN Drops : Drops[b] \subseteq Items \ Tools

Held(inv, names) == MapThenSumSet(LAMBDA i : inv[i], names \cap Items)

Positive(k) == IF k \in Nat \ {0} THEN k ELSE 1

-----------------------------------------------------------------------------
(* Crafting.                                                               *)

CraftTarget(item) == IF item \in ToSet(Planks) THEN "planks" ELSE item

CraftAllowlist == {"planks", "stick", "crafting_table", "wooden_pickaxe", "stone_pickaxe"}

TargetCandidates(target) ==
  IF target = "planks" THEN Planks ELSE IF target \in Items THEN <<target>> ELSE <<>>

CraftRuns(recipe, n) == Positive((n + recipe.yield - 1) \div recipe.yield)

MissingMaterials(inv, recipe, n) ==
  SelectSeq([k \in DOMAIN recipe.needs |->
               [item |-> recipe.needs[k].item,
                n |-> recipe.needs[k].n * CraftRuns(recipe, n) - inv[recipe.needs[k].item]]],
            LAMBDA demand : demand.n > 0)

(* mineflayer: the recipes the inventory can pay for, given the table.      *)
RecipesFor(inv, item, n, table) ==
  {r \in Recipes[item] : (r.table => table # Nothing) /\ MissingMaterials(inv, r, n) = <<>>}

FirstOf(recipes) == CHOOSE r \in recipes : \A q \in recipes : r.place <= q.place

(* The demands of an answer, added up by item in the order they are found. *)
MergeDemands(demands) ==
  FoldLeft(LAMBDA done, d :
             IF \E k \in DOMAIN done : done[k].item = d.item
             THEN [k \in DOMAIN done |-> IF done[k].item = d.item
                                         THEN [done[k] EXCEPT !.n = @ + d.n] ELSE done[k]]
             ELSE Append(done, d),
           <<>>, demands)

WithRecipe(target) == SelectSeq(TargetCandidates(target), LAMBDA c : Recipes[c] # {})

SelectCraftPlan(inv, target, n, table) ==
  LET candidates == TargetCandidates(target)
      ready == {k \in DOMAIN candidates : RecipesFor(inv, candidates[k], n, table) # {}}
      found == candidates[Min(ready)]
      forTable == \E c \in ToSet(WithRecipe(target)) :
                    LET paid == RecipesFor(inv, c, n, "near")
                    IN  table = Nothing /\ paid # {} /\ FirstOf(paid).table
      lacks == [k \in DOMAIN WithRecipe(target) |->
                  MissingMaterials(inv, FirstOf(Recipes[WithRecipe(target)[k]]), n)]
      failed(code, demands) == [code |-> code, demands |-> demands]
  IN  IF ready # {}
      THEN [code |-> "ready", item |-> found,
            recipe |-> FirstOf(RecipesFor(inv, found, n, table))]
      ELSE IF WithRecipe(target) = <<>> THEN failed("recipe_not_found", <<>>)
      ELSE IF forTable THEN failed("missing_crafting_table", <<>>)
      ELSE failed("missing_materials", MergeDemands(FlattenSeq(lacks)))

(* The recipe whose ingredients are made first when no recipe can be paid. *)
RepresentativeRecipe(inv, target, n, table) ==
  LET item == Head(WithRecipe(target))
      paid == RecipesFor(inv, item, n, table)
      atTable == RecipesFor(inv, item, n, "near")
  IN  FirstOf(IF paid # {} THEN paid ELSE IF atTable # {} THEN atTable ELSE Recipes[item])

-----------------------------------------------------------------------------
(* Tools and sources.                                                      *)

CanCraft(item) == Recipes[item] # {}

FirstWith(seq, Test(_)) == SelectInSeq(seq, Test)

RequiredEquipment(inv, block) ==
  LET tools == IF block \in DOMAIN HarvestTools THEN HarvestTools[block] ELSE <<>>
      held  == FirstWith(tools, LAMBDA t : inv[t] > 0)
      made  == FirstWith(tools, CanCraft)
  IN  IF tools = <<>> THEN Nothing
      ELSE tools[IF held # 0 THEN held ELSE IF made # 0 THEN made ELSE 1]

(* The block of the item's own name is the last one to be tried.           *)
MaterialSource(item) ==
  LET dropping == SelectSeq(BlockOrder, LAMBDA b : item \in Drops[b])
      ordered  == SelectSeq(dropping, LAMBDA b : b # item)
                    \o SelectSeq(dropping, LAMBDA b : b = item)
      log      == FirstWith(ordered, LAMBDA b : b \in LogBlocks)
  IN  IF ordered = <<>> THEN [act |-> Nothing, block |-> Nothing]
      ELSE IF log # 0 THEN [act |-> "cut", block |-> ordered[log]]
      ELSE [act |-> "dig", block |-> Head(ordered)]

\* With an error: a log of the very wood of the recipe that was looked at.
MaterialRequirement_OneWood(inv, item, missing) ==
  [source |-> MaterialSource(item), accept |-> {item}, target |-> Positive(missing)]

(* Any log will do where a log is asked for, and those in hand count.      *)
MaterialRequirement(inv, item, missing) ==
  LET source == MaterialSource(item)
      accept == IF source.act = "cut" THEN {item} \cup UNION {Drops[b] : b \in LogBlocks}
                                      ELSE {item}
  IN  [source |-> source, accept |-> accept,
       target |-> IF source.act = "cut" THEN Positive(missing)
                                        ELSE Held(inv, accept) + Positive(missing)]
=============================================================================
