------------------------------- MODULE Harvest -------------------------------
(***************************************************************************)
(* The skills that gather: cutTree (skills/cut-tree.ts) fells the trees the *)
(* cache of resources offers, one log of each, and collects what falls;     *)
(* mine (skills/mine.ts) hands the ores the cache offers to the miner of    *)
(* the transport (MineSkill, here a free choice) and collects what it left  *)
(* lying; collect may also be called by itself.  The mod on the server      *)
(* breaks what is connected to a log or an ore that is broken               *)
(* (ChainBreakHandler.java); the client hears of every block a while later. *)
(***************************************************************************)
EXTENDS Collect

CONSTANTS
  Situations,     \* the blocks [name, at] of every world, the items and the call
  Home,           \* where the bot is when it is called
  Ores,           \* the ores; the mine skill takes them from the cache
  Radii,          \* RESOURCE_REFRESH_RADIUS_STEPS
  ChainLimit,     \* maxBlocks of the mod
  DigReach,       \* how far the client digs
  DropRadius,     \* CUT_TREE_DROP_COLLECT_RADIUS
  MineDropRadius, \* MINE_DROP_COLLECT_RADIUS
  CollectRadius,  \* COLLECT_DEFAULT_RADIUS
  MineRounds      \* MINE_DROP_RECOVERY_MAX_ATTEMPTS

ASSUME HarvestAssumption ==
  /\ {ChainLimit, DigReach, DropRadius, MineDropRadius, CollectRadius, MineRounds}
       \subseteq Nat
  /\ "tree" \in Keys

Blocks == [name : NameSet, at : Int \X Int]

\* Every world is known to the client as far as its chunks are loaded.
ASSUME SituationsAssumption ==
  /\ Home \in Int
  /\ \A s \in Situations :
       /\ s.blocks \in [Worlds -> SUBSET Blocks]
       /\ \A w \in Worlds : IsFiniteSet(s.blocks[w])
       /\ \A d \in s.drops : d.name \in NameSet
       /\ s.request.skill \in {"cutTree", "mine", "collect"}
       /\ s.request.skill = "mine" => s.request.name \in NameSet

VARIABLES
  world,      \* the world the bot is in
  standing,   \* the blocks of every world
  unseen,     \* blocks of this world broken without the client knowing yet
  job         \* the call of the skill

groundVars == <<world, standing, unseen>>
harvestVars == <<cache, collectVars, groundVars, job>>

HarvestInit ==
  /\ world \in Worlds /\ unseen = {}
  /\ cache = [w \in Worlds |-> [k \in Keys |-> NoEntry]]
  /\ bot = <<Home, 0>> /\ ready = TRUE /\ carried = [n \in NameSet |-> 0]
  /\ aborted = FALSE /\ mishaps = 0 /\ col = Idle
  /\ \E s \in Situations :
       /\ standing = s.blocks /\ drops = s.drops
       /\ job = [pc |-> s.request.skill, request |-> s.request, attempted |-> {},
                 collected |-> 0, executed |-> FALSE, cluster |-> {}, before |-> 0,
                 step |-> 1, targets |-> {}, baseline |-> -1, rounds |-> 0, error |-> "none"]

Over == job.pc \in {"completed", "failed"}
Fails(j, error) == [j EXCEPT !.pc = "failed", !.error = error]
Remaining == job.request.count - job.collected
Wanted == job.request.name

-----------------------------------------------------------------------------
(* The server.                                                             *)

Break(blocks, caught) ==
  /\ standing' = [standing EXCEPT ![world] = @ \ blocks]
  /\ drops' = drops \cup {[name |-> b.name, from |-> b.at,
                           at |-> <<b.at[1], IF b \in caught THEN b.at[2] ELSE 0>>] : b \in blocks}

\* ChainBreakHandler: of a log or an ore, the blocks of the same kind that touch,
\* as many as it may.
ChainBreaks(origin) ==
  LET all == IF origin.name \in Logs \cup Ores THEN Connected(origin, standing[world])
             ELSE {origin}
      n   == IF Cardinality(all) <= ChainLimit THEN Cardinality(all) ELSE ChainLimit + 1
  IN  {part \in SUBSET all : /\ origin \in part /\ Cardinality(part) = n
                             /\ Connected(origin, part) = part}

\* The client digs at a place: what stands there is broken, with what hangs on
\* it; some of it may be caught in the leaves.  The client sees the block it
\* dug gone at once.
Digs(at) ==
  LET there == {b \in standing[world] : b.at = at}
  IN  IF there = {} THEN UNCHANGED <<standing, unseen, drops>>
      ELSE \E b \in there : \E broken \in ChainBreaks(b) :
             \E caught \in SUBSET {c \in broken : c.at[2] > VerticalReach} :
               /\ Break(broken, caught)
               /\ unseen' = unseen \cup (broken \ {b})

\* refreshAroundBot: what the client sees around the bot.
Scan(key, radius) ==
  {Candidate(b, bot) : b \in {c \in standing[world] \cup unseen :
     MatchesKey(c.name, key) /\ SquareDistance(c.at, bot) <= Square(radius)}}

Rescans(key, step) ==
  Refreshed(world, key, Radii[step], IF ready THEN Scan(key, Radii[step]) ELSE {})

-----------------------------------------------------------------------------
(* cutTree.                                                                *)

\* mutant: what the bag held when the call began is what it is compared with.
BeforeDig_FirstOnly(j, name) == IF j.executed THEN j.before ELSE carried[name]
BeforeDig(j, name) == carried[name]

\* The first of the trees not tried before; or the end of the call (where a tree
\* was felled its code is drop_not_obtained and its status insufficient).
Takes(j, trees) ==
  LET untried == {i \in DOMAIN trees : trees[i].id \notin j.attempted}
      tree    == trees[CHOOSE i \in untried : \A k \in untried : i <= k]
  IN  IF untried = {}
      THEN Fails(j, IF j.executed THEN "logs_insufficient" ELSE "resource_not_found")
      ELSE [j EXCEPT !.pc = "dig", !.attempted = @ \cup {tree.id}, !.cluster = tree.candidates,
                     !.before = BeforeDig(j, tree.name)]

TreeName == Target(job.cluster).name
TargetAt == Target(job.cluster).at

\* The cache is asked first; it may be older than a minute by then.
CutSelects ==
  /\ job.pc = "cutTree"
  /\ LET trees == SelectTrees(cache[world]["tree"], Remaining)
     IN  \/ Remaining <= 0 /\ job' = [job EXCEPT !.pc = "completed"]
         \/ Remaining > 0 /\ aborted /\ job' = Fails(job, "aborted")
         \/ /\ Remaining > 0 /\ ~ aborted
            /\ \/ job' = [job EXCEPT !.pc = "refresh", !.step = 1]
               \/ LogsIn(trees) >= Remaining /\ job' = Takes(job, trees)
  /\ UNCHANGED <<cache, collectVars, groundVars>>

\* mutant: the nearest surroundings are all that is looked at.
LastStep_First(step) == TRUE
LastStep(step) == step = Len(Radii)

\* One scan after the other, until there is enough or they reach no farther.
\* Whatever the scans brought, cutTree goes on with the trees selected.
CutRefreshes ==
  /\ job.pc = "refresh"
  /\ Rescans("tree", job.step)
  /\ LET trees == SelectTrees(cache'[world]["tree"], Remaining)
     IN  job' = IF LogsIn(trees) >= Remaining \/ ~ ready \/ LastStep(job.step)
                THEN Takes(job, trees)
                ELSE [job EXCEPT !.step = @ + 1]
  /\ UNCHANGED <<collectVars, groundVars>>

InReach(from) == SquareDistance(TargetAt, from) <= Square(DigReach)

\* digBlockAt; every error becomes one of cutTree, also an abort's.  The chunk
\* of the block may be unloaded.
CutDigs ==
  /\ job.pc = "dig"
  /\ \/ job' = Fails(job, "unreachable_target")
     \/ /\ ~ aborted /\ ready
        /\ job' = [job EXCEPT !.pc = IF InReach(bot) THEN "strike" ELSE "approach"]
  /\ UNCHANGED <<cache, collectVars, groundVars>>

CutApproaches ==
  /\ job.pc = "approach"
  /\ \E x \in Columns :
       /\ bot' = <<x, 0>>
       /\ \/ job' = Fails(job, "unreachable_target")
          \/ /\ ~ aborted /\ Abs(x - TargetAt[1]) <= 1 /\ InReach(<<x, 0>>)
             /\ job' = [job EXCEPT !.pc = "strike"]
  /\ UNCHANGED <<cache, ready, bagVars, aborted, mishaps, col, groundVars>>

\* The dig ends, with or without an effect; then the whole tree leaves the
\* cache of the world the bot is in, unless the call was aborted meanwhile.
CutStrikes ==
  /\ job.pc = "strike"
  /\ \/ ready /\ Digs(TargetAt) /\ UNCHANGED mishaps
     \/ ~ ready /\ UNCHANGED <<standing, unseen, drops, mishaps>>
     \/ MayGoWrong /\ UNCHANGED <<standing, unseen, drops>>
  /\ \/ job' = Fails(job, "unreachable_target") /\ UNCHANGED cache
     \/ /\ ~ aborted
        /\ job' = [job EXCEPT !.pc = "fallen"]
        /\ BlockChangesApplied(world, {[at |-> c.at, name |-> "air"] : c \in job.cluster})
  /\ UNCHANGED <<botVars, carried, aborted, col, world>>

\* A second later; as a rule the client has heard of all that fell by then.
CutCollects ==
  /\ job.pc = "fallen" /\ IF unseen = {} THEN UNCHANGED mishaps ELSE MayGoWrong
  /\ IF aborted THEN job' = Fails(job, "aborted") /\ UNCHANGED col
     ELSE /\ job' = [job EXCEPT !.pc = "gather"]
          /\ col' = CallOf("any", TargetAt, FALSE, DropRadius)
  /\ UNCHANGED <<cache, botVars, bagVars, aborted, groundVars>>

CutCounts ==
  /\ job.pc = "gather" /\ col.pc \in {"ok", "failed", "aborted"} /\ col' = Idle
  /\ job' = IF col.pc # "ok" THEN Fails(job, "drop_not_obtained")
            ELSE [job EXCEPT !.pc = "cutTree", !.executed = TRUE,
                    !.collected = @ + (carried[TreeName] - job.before)]
  /\ UNCHANGED <<cache, botVars, bagVars, aborted, mishaps, groundVars>>

-----------------------------------------------------------------------------
(* mine.                                                                   *)

\* selectOreResourceTargets: as many as are wanted, also of an entry grown old.
OreTargets(entries, count) ==
  LET found == CandidatesOf(entries[world][Wanted])
  IN  {part \in SUBSET found : Cardinality(part) = count}

Mines(j, targets) ==
  [j EXCEPT !.pc = "mining", !.targets = {c.at : c \in targets}, !.before = carried[Wanted]]

MineRound ==
  /\ job.pc = "mine"
  /\ LET j      == [job EXCEPT !.rounds = @ + 1]
         cached == OreTargets(cache, Remaining)
     IN  \/ Remaining <= 0 /\ job' = [job EXCEPT !.pc = "completed"]
         \/ /\ Remaining > 0 /\ (job.rounds = MineRounds \/ aborted)
            /\ job' = Fails(job, IF job.rounds = MineRounds THEN "drop_not_obtained"
                                 ELSE "aborted")
         \/ /\ Remaining > 0 /\ job.rounds < MineRounds /\ ~ aborted
            /\ \/ Wanted \notin Ores /\ job' = Mines(j, {})
               \/ /\ Wanted \in Ores
                  /\ \/ \E targets \in cached : job' = Mines(j, targets)
                     \/ cached = {} /\ job' = [j EXCEPT !.pc = "survey", !.step = 1]
  /\ UNCHANGED <<cache, collectVars, groundVars>>

MineSurveys ==
  /\ job.pc = "survey"
  /\ Rescans(Wanted, job.step)
  /\ LET found == OreTargets(cache', Remaining)
     IN  \/ ~ ready /\ job' = Fails(job, "runtime_unavailable")
         \/ ready /\ \E targets \in found : job' = Mines(job, targets)
         \/ /\ ready /\ found = {}
            /\ job' = IF LastStep(job.step) THEN Fails(job, "resource_not_found")
                      ELSE [job EXCEPT !.step = @ + 1]
  /\ UNCHANGED <<collectVars, groundVars>>

\* The miner walks about and digs targets, or what it finds of the kind.
MinerDigs ==
  /\ job.pc = "mining" /\ ~ aborted /\ ready
  /\ \E b \in standing[world] :
       /\ b.name = Wanted /\ (job.targets = {} \/ b.at \in job.targets) /\ Digs(b.at)
       /\ bot' = <<b.at[1], 0>>
  /\ UNCHANGED <<cache, ready, carried, aborted, mishaps, col, world, job>>

Known == carried[Wanted] - job.before
Baseline == IF job.baseline >= 0 THEN job.baseline ELSE carried[Wanted] - Known
\* recordKnownCollected, and readCollected: what the bag has more than at first.
Recorded == [job EXCEPT !.baseline = Baseline,
                        !.collected = Max({@, Known, carried[Wanted] - Baseline})]

\* It ends with enough; without, and then what lies about is collected; or
\* otherwise, and that is the end.
MinerEnds ==
  /\ job.pc = "mining"
  /\ \/ /\ Known >= Remaining /\ job' = [Recorded EXCEPT !.pc = "mine"] /\ UNCHANGED col
     \/ /\ Known < Remaining /\ ~ aborted
        /\ job' = [Recorded EXCEPT !.pc = "recover"]
        /\ col' = CallOf(Wanted, bot, FALSE, MineDropRadius)
     \/ job' = Fails(job, "runtime_mine_failed") /\ UNCHANGED col
  /\ UNCHANGED <<cache, botVars, bagVars, aborted, mishaps, groundVars>>

\* An error of the collection, and an abort of it, only mean that there is no
\* gain.
MineRecovers ==
  /\ job.pc = "recover" /\ col.pc \in {"ok", "failed", "aborted"} /\ col' = Idle
  /\ job' = IF col.pc = "ok" /\ carried[Wanted] - Baseline > job.collected
            THEN [job EXCEPT !.pc = "mine", !.collected = carried[Wanted] - Baseline]
            ELSE Fails(job, "runtime_mine_failed")
  /\ UNCHANGED <<cache, botVars, bagVars, aborted, mishaps, groundVars>>

-----------------------------------------------------------------------------
(* collect, called by itself, around the bot.                              *)
Collects ==
  /\ job.pc = "collect" /\ col.pc = "idle"
  /\ col' = CallOf("any", bot, TRUE, CollectRadius)
  /\ UNCHANGED <<cache, botVars, bagVars, aborted, mishaps, groundVars, job>>

Collected ==
  /\ job.pc = "collect" /\ col.pc \in {"ok", "failed", "aborted"} /\ col' = Idle
  /\ job' = IF col.pc = "ok" THEN [job EXCEPT !.pc = "completed"] ELSE Fails(job, col.pc)
  /\ UNCHANGED <<cache, botVars, bagVars, aborted, mishaps, groundVars>>

-----------------------------------------------------------------------------
(* Around the skills.                                                      *)

\* bindOnlineResourceServiceBlockUpdates
BlockUpdate ==
  \E b \in unseen :
    /\ unseen' = unseen \ {b}
    /\ BlockChangesApplied(world, {[at |-> b.at, name |-> "air"]})
    /\ UNCHANGED <<collectVars, world, standing, job>>

\* An explosion.
OthersBreak ==
  /\ MayGoWrong
  /\ \E b \in standing[world] :
       /\ standing' = [standing EXCEPT ![world] = @ \ {b}]
       /\ unseen' = unseen \cup {b}
  /\ UNCHANGED <<cache, botVars, bagVars, aborted, col, world, job>>

WorldChanges ==
  /\ MayGoWrong
  /\ \E w \in Worlds \ {world}, x \in Columns : world' = w /\ bot' = <<x, 0>>
  /\ unseen' = {} /\ drops' = {}
  /\ UNCHANGED <<cache, ready, carried, aborted, col, standing, job>>

SkillActs ==
  \/ CutSelects \/ CutRefreshes \/ CutDigs \/ CutApproaches \/ CutStrikes
  \/ CutCollects \/ CutCounts
  \/ MineRound \/ MineSurveys \/ MinerEnds \/ MineRecovers
  \/ Collects \/ Collected
  \/ CollectActs /\ UNCHANGED <<cache, groundVars, job>>

Around ==
  \/ BlockUpdate \/ OthersBreak \/ WorldChanges
  \/ (PicksUp \/ DropTaken \/ Abort \/ ConnectionLost) /\ UNCHANGED <<cache, groundVars, job>>

Passes == TimeIsUp /\ UNCHANGED <<cache, groundVars, job>>

HarvestNext == ~ Over /\ (SkillActs \/ MinerDigs \/ Passes \/ Around)

\* Awaited calls settle, time passes, and the client hears of what happened.
HarvestSpec ==
  HarvestInit /\ [][HarvestNext]_harvestVars /\ WF_harvestVars(SkillActs) /\ WF_harvestVars(Passes)
    /\ WF_harvestVars(BlockUpdate)

-----------------------------------------------------------------------------
(* Properties.                                                             *)

\* A skill never counts more than has come into the bag since it was called,
\* over any number of trees or rounds.
CountsWhatItGained ==
  job.request.skill # "collect" => job.collected <= CarriedInAll

\* cutTree says that there is no wood, or not enough, only when no log stands as
\* far as its widest scan reaches, unless a mishap came between: it never takes
\* a tree that still stands for one it has tried already, and never stops
\* looking early.
GivesUpOnlyWhenBare ==
  /\ job.request.skill = "cutTree" /\ mishaps = 0
  /\ job.error \in {"resource_not_found", "logs_insufficient"}
  => \A b \in standing[world] :
       b.name \in Logs => SquareDistance(b.at, bot) > Square(Radii[Len(Radii)])

\* Every call comes to its end, whatever lies out of reach, is taken by others or
\* is broken without the client knowing: collect by its time limit, cutTree since
\* it tries no tree twice, mine by the number of its rounds.
HarvestEnds == <>Over
=============================================================================
