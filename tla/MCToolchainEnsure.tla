------------------------- MODULE MCToolchainEnsure -------------------------
(* A wood of oaks and birches with stone underfoot: the items up to the     *)
(* stone pickaxe, with the recipes and drops of minecraft-data.             *)
EXTENDS ToolchainEnsure

MCItems == {"oak_log", "birch_log", "oak_planks", "birch_planks", "stick", "crafting_table",
            "wooden_pickaxe", "stone_pickaxe", "cobblestone", "dirt"}
MCPlanks == <<"oak_planks", "birch_planks">>

Needs(item, n) == [item |-> item, n |-> n]
Recipe(place, yield, needsTable, needs) ==
  [place |-> place, yield |-> yield, table |-> needsTable, needs |-> needs]
OfPlanks(yield, needsTable, n, rest) ==
  {Recipe(k, yield, needsTable, <<Needs(MCPlanks[k], n)>> \o rest) : k \in 1 .. 2}

MCRecipes == [i \in MCItems |->
  CASE i = "oak_planks" -> {Recipe(1, 4, FALSE, <<Needs("oak_log", 1)>>)}
    [] i = "birch_planks" -> {Recipe(1, 4, FALSE, <<Needs("birch_log", 1)>>)}
    [] i = "stick" -> OfPlanks(4, FALSE, 2, <<>>)
    [] i = "crafting_table" -> OfPlanks(1, FALSE, 4, <<>>)
    [] i = "wooden_pickaxe" -> OfPlanks(1, TRUE, 3, <<Needs("stick", 2)>>)
    [] i = "stone_pickaxe" ->
         {Recipe(1, 1, TRUE, <<Needs("cobblestone", 3), Needs("stick", 2)>>)}
    [] OTHER -> {}]

MCBlockOrder == <<"stone", "dirt", "cobblestone", "oak_log", "birch_log", "crafting_table">>
MCDrops == [b \in ToSet(MCBlockOrder) |-> IF b = "stone" THEN {"cobblestone"} ELSE {b}]
MCLogBlocks == {"oak_log", "birch_log"}
MCHarvestTools == [b \in {"stone", "cobblestone"} |-> <<"wooden_pickaxe", "stone_pickaxe">>]
MCMinable == {"stone", "dirt"}

Bag(counts) == [i \in MCItems |-> IF i \in DOMAIN counts THEN counts[i] ELSE 0]
Start(counts, held, tableAt, cached) ==
  [inventory |-> Bag(counts), hand |-> held, table |-> tableAt, cachedTable |-> cached]

EmptyHanded == Start(<<>>, Nothing, Nothing, FALSE)
AtTheTable == Start(<<>>, Nothing, "near", TRUE)
FarFromTheTable == Start([planks \in {"oak_planks", "crafting_table"} |-> 3], Nothing, "far", TRUE)
WithPickaxe == Start([tool \in {"wooden_pickaxe"} |-> 1], "wooden_pickaxe", "near", FALSE)
MCStarts == {EmptyHanded, AtTheTable, FarFromTheTable, WithPickaxe}

Request(act, item, n, until, name, count) ==
  [act |-> act, item |-> item, n |-> n, until |-> until, name |-> name, count |-> count]
MCRequests ==
  {Request("craft", "stone_pickaxe", 1, "has", "stone_pickaxe", 1),
   Request("mine", "stone", 2, "gainedDropOf", "stone", 2),
   Request("equip", "wooden_pickaxe", 1, "equipped", "wooden_pickaxe", 1),
   Request("place", "crafting_table", 1, "placed", "crafting_table", 1),
   Request("cut", "log", 1, "gained", "oak_log", 2),
   Request("craft", "stick", 1, "has", "stick", 6),
   Request("craft", "cobblestone", 1, "has", "cobblestone", 1),
   Request("mine", "dirt", 1, "gainedDropOf", "dirt", 2),
   Request("mine", "stone", 1, "gained", "cobblestone", 1),
   Request("mine", "cobblestone", 1, "gained", "cobblestone", 1)}
=============================================================================
