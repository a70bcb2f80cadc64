------------------------------ MODULE MCHarvest ------------------------------
(***************************************************************************)
(* Small lands: a tree that touches itself at a corner only, with another   *)
(* beside it or far off; an ore; soil.                                      *)
(***************************************************************************)
EXTENDS Harvest

MCNames == <<"birch_log", "dirt", "iron_ore", "oak_log">>

Block(name, x, y) == [name |-> name, at |-> <<x, y>>]
Oak == {Block("oak_log", 1, 0), Block("oak_log", 1, 1), Block("oak_log", 2, 2)}
Far == {Block("oak_log", 5, 0)}
Beside == {Block("birch_log", 2, 0)}
Soil == {Block("dirt", 1, 0), Block("iron_ore", 2, 0), Block("iron_ore", 2, 1)}
Lying == {[name |-> "dirt", from |-> <<3, 3>>, at |-> <<3, 0>>],
          [name |-> "oak_log", from |-> <<5, 2>>, at |-> <<5, 2>>]}

Situation(here, there, lying, skill, name, count) ==
  [blocks |-> [w \in Worlds |-> IF w = "overworld" THEN here ELSE there], drops |-> lying,
   request |-> [skill |-> skill, name |-> name, count |-> count]]

MCSituations ==
  {Situation(Oak \cup Far, Beside, {}, "cutTree", "tree", 4),
   Situation(Oak \cup Beside, {}, {}, "cutTree", "tree", 2),
   Situation(Soil, {}, {}, "mine", "iron_ore", 2),
   Situation(Soil, {}, {}, "mine", "dirt", 1),
   Situation(Soil, {}, Lying, "collect", "any", 1)}

MCRadii == <<3, 6>>
==============================================================================
