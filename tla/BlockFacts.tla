----------------------------- MODULE BlockFacts -----------------------------
(***************************************************************************)
(* What the transport knows of a block                                     *)
(* (runtime/transport/facts/block-facts.ts).  A block is one of six kinds: *)
(*   "air"      literal air                                                *)
(*   "plant"    a block without a bounding box: passed through, and dug    *)
(*   "ore"      the solid block a miner looks for                          *)
(*   "rock"     any other solid block                                      *)
(*   "bedrock"  a solid block that cannot be dug                           *)
(*   "liquid"   a hazard; the registry gives it no bounding box            *)
(* and a position outside the loaded world reads as "unknown".             *)
(***************************************************************************)
EXTENDS Integers, Sequences

BlockKinds == {"air", "plant", "ore", "rock", "bedrock", "liquid"}

IsLiteralAirBlock(b) == b = "air"

\* A liquid has an empty bounding box and so counts as air here.
IsAirBlock(b)     == b \in {"air", "plant", "liquid"}
IsHazardBlock(b)  == b = "liquid"
IsSupportBlock(b) == b # "unknown" /\ ~ IsAirBlock(b) /\ ~ IsHazardBlock(b)
IsDiggableBlock(b) ==
  b # "unknown" /\ ~ IsLiteralAirBlock(b) /\ ~ IsHazardBlock(b) /\ b # "bedrock"

(***************************************************************************)
(* Positions are <<x, y, z>>, y upwards.                                   *)
(***************************************************************************)
Positions == Int \X Int \X Int
ReadBlockAt(world, p) == IF p \in DOMAIN world THEN world[p] ELSE "unknown"

Above(p, n) == <<p[1], p[2] + n, p[3]>>
Beside(p, v) == <<p[1] + v[1], p[2], p[3] + v[2]>>

DIRECTIONS == <<"north", "east", "south", "west">>
DIR_VEC ==
  [north |-> <<0, -1>>, east |-> <<1, 0>>, south |-> <<0, 1>>, west |-> <<-1, 0>>]
IsOppositeDirection(d, e) == {d, e} \in {{"north", "south"}, {"east", "west"}}

\* The cells a body of the given height fills over a foot, from below.
ClearancePositions(foot, height) == [i \in 1..height |-> Above(foot, i - 1)]
BODY_CLEARANCE == 2
JUMP_CLEARANCE == 3

AbsOf(n) == IF n < 0 THEN -n ELSE n
MaxOf(m, n) == IF m < n THEN n ELSE m
MinOf(m, n) == IF m < n THEN m ELSE n

\* Math.hypot over the ground; rounded up where it is not whole, off the line.
HorizontalDistance(p, q) ==
  LET dx == AbsOf(p[1] - q[1])
      dz == AbsOf(p[3] - q[3])
  IN  CHOOSE d \in 0..(dx + dz) :
        d * d >= dx * dx + dz * dz /\ (d = 0 \/ (d - 1) * (d - 1) < dx * dx + dz * dz)
=============================================================================
