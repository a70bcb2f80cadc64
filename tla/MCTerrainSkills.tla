--------------------------- MODULE MCTerrainSkills ---------------------------
(***************************************************************************)
(* The skills that walk the terrain, over small worlds: what the sandbox   *)
(* calls is goTo, with the normal profile of the router, or mine, with the *)
(* mining one.  The actor runs one of them at a time, so a behaviour is of *)
(* one or of the other, and their state spaces add up.                     *)
(***************************************************************************)
EXTENDS MineSkill

VARIABLE skill   \* what the sandbox called

(***************************************************************************)
(* goTo: one block thick, a few columns of rock on bedrock, with or        *)
(* without a block hanging over them.                                      *)
(***************************************************************************)
Cells == {<<x, y, 0>> : x \in 0..2, y \in 0..6}
Terrain(height, lid) ==
  [p \in Cells |-> IF p[2] = 0 THEN "bedrock"
                   ELSE IF p[2] <= height[p[1] + 1] \/ p = lid THEN "rock" ELSE "air"]

GoToWorlds ==
  {Terrain(<<h, i, j>>, lid) :
     h \in 1..2, i \in {1, 3}, j \in 1..3, lid \in {<<>>, <<1, 3, 0>>, <<1, 4, 0>>}}
  \cup {[Terrain(<<1, 3, 1>>, <<>>) EXCEPT ![<<0, 2, 0>>] = "plant"],
          Terrain(<<0, 3, 1>>, <<0, 2, 0>>)}   \* the start hangs over a hole
GoToRoutes == {<< <<0, 3, 0>>, <<2, y, 0>> >> : y \in 2..4} \cup {<< <<0, 2, 0>>, <<0, 4, 0>> >>, << <<0, 3, 0>>, <<0, 2, 0>> >>}

\* It sets no limits of its own to a search without progress.
GoTo == INSTANCE TerrainNavigation WITH
  Profile <- "normal", PhaseExpanded <- 25, TotalExpanded <- 60, NoProgressLimits <- << >>,
  TimeCheck <- 16, Worlds <- GoToWorlds, Routes <- GoToRoutes

(***************************************************************************)
(* mine: columns on bedrock with an ore or two in them; in the long world  *)
(* the ore is too far for the miner's search and has to be approached.     *)
(***************************************************************************)
\* Ground up to the height of each column; a cave is an air cell in it.
Ground(height, ores, caves, top) ==
  [p \in {<<x, y, 0>> : x \in 0..(Len(height) - 1), y \in 0..top} |->
     IF p[2] = 0 THEN "bedrock"
     ELSE IF p \in ores THEN "ore"
     ELSE IF p \notin caves /\ p[2] <= height[p[1] + 1] THEN "rock" ELSE "air"]

MCWorlds ==
  {Ground(<<2, 1, 1>>, {<<2, 2, 0>>, <<2, 1, 0>>}, {}, 6),
   Ground(<<2, 2, 1>>, {<<1, 1, 0>>}, {}, 6),
   Ground(<<2, 4, 1>>, {<<0, 2, 0>>, <<1, 4, 0>>}, {}, 6),
   Ground(<<2, 4, 1>>, {<<2, 1, 0>>}, {<<1, 1, 0>>}, 6),
   Ground(<<2, 4, 1>>, {<<0, 2, 0>>, <<1, 1, 0>>}, {<<0, 1, 0>>}, 6),
   Ground(<<2, 1, 1, 1, 1>>, {<<4, 1, 0>>}, {}, 4)}
MCRoutes == {<< <<0, 3, 0>>, <<0, 3, 0>> >>}
MCSupplies == {{}, {<<2, 1, 0>>, <<4, 1, 0>>}}
MCNoProgressLimits == [natural |-> 2, light_dig |-> 3, light_place |-> 3, relaxed |-> 4]

(***************************************************************************)
(* One of them.                                                            *)
(***************************************************************************)
\* No call of mine: one that is over and has no result.
NoCall == [pc |-> "completed", minedCount |-> 0, lastCollected |-> 0]
SkillInit ==
  \/ /\ skill = "goTo" /\ GoTo!Init
     /\ mine = NoCall /\ bag = 0 /\ drops = 0 /\ dugOres = 0
  \/ skill = "mine" /\ MineInit
SkillNext ==
  /\ \/ skill = "goTo" /\ GoTo!Next /\ UNCHANGED mineVars
     \/ skill = "mine" /\ MineNext
  /\ UNCHANGED skill
SkillSpec == SkillInit /\ [][SkillNext]_<<allVars, skill>> /\ MineFairness
=============================================================================
