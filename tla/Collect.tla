------------------------------- MODULE Collect -------------------------------
(***************************************************************************)
(* The collect skill of the transport (runtime/transport/collect.ts): go to *)
(* the centre, look for what lies about it, walk to one item after the      *)
(* other and count what came into the bag, until nothing is left or the     *)
(* time is up.  The server picks an item up for a bot that is beside it;    *)
(* others may take it first, and a call may be aborted.  The walks are free *)
(* choices here: TerrainNavigation checks them.  A step runs from one await *)
(* to the next.                                                             *)
(***************************************************************************)
EXTENDS ResourceService

CONSTANTS
  Columns,        \* where the bot can stand: <<x, 0>>
  VerticalReach,  \* COLLECT_MAX_VERTICAL_DELTA_FROM_BOT
  MaxRadius,      \* COLLECT_MAX_RADIUS
  Room,           \* items the bag can hold
  MaxMishaps      \* bound on what goes wrong in the world

ASSUME CollectAssumption ==
  {VerticalReach, MaxRadius, Room, MaxMishaps} \subseteq Nat /\ Columns \subseteq Int

VARIABLES
  bot,       \* where it stands
  ready,     \* connected and spawned
  drops,     \* the items that lie about, with the block each comes from
  carried,   \* how many items of each name the bag holds
  aborted,
  mishaps,
  col        \* the call of collect

botVars == <<bot, ready>>
bagVars == <<drops, carried>>
collectVars == <<botVars, bagVars, aborted, mishaps, col>>

Idle == [pc |-> "idle", item |-> "any", center |-> <<0, 0>>, live |-> FALSE, radius |-> 0,
         before |-> [n \in NameSet |-> 0], saw |-> FALSE, skipped |-> FALSE, queue |-> << >>,
         pickBefore |-> [n \in NameSet |-> 0], late |-> FALSE]
CallOf(item, center, live, radius) ==
  [Idle EXCEPT !.pc = "enter", !.item = item, !.center = center, !.live = live,
               !.radius = radius]

CarriedInAll == FoldFunction(+, 0, carried)
Full == CarriedInAll >= Room

\* createCollectedDiff: more of some item asked for than before.
MoreThan(before, item) ==
  \E n \in NameSet : item \in {"any", n} /\ carried[n] > before[n]

Center(call) == IF call.live THEN bot ELSE call.center
Targets(call) ==
  {d \in drops : /\ call.item \in {"any", d.name}
                 /\ SquareDistance(d.at, Center(call)) <= Square(call.radius)
                 /\ Abs(d.at[2] - bot[2]) <= VerticalReach}
NearestFirst(items) ==
  SetToSortSeq(items, LAMBDA c, d :
    \/ SquareDistance(c.at, bot) < SquareDistance(d.at, bot)
    \/ SquareDistance(c.at, bot) = SquareDistance(d.at, bot) /\ Rank(c.name) < Rank(d.name)
    \/ /\ SquareDistance(c.at, bot) = SquareDistance(d.at, bot) /\ c.name = d.name
       /\ c.from[1] < d.from[1] \/ (c.from[1] = d.from[1] /\ c.from[2] < d.from[2]))

Ends(call, pc) == [call EXCEPT !.pc = pc]
Acts == UNCHANGED <<ready, bagVars, aborted, mishaps>>
Computes == UNCHANGED bot /\ Acts

\* A walk comes to the place or to some other one; an abort ends it too.
Walks(near, arrived, failed) ==
  \E x \in Columns :
    /\ bot' = <<x, 0>>
    /\ \/ Abs(x - near[1]) <= 1 /\ col' = arrived
       \/ col' = IF aborted THEN Ends(col, "aborted") ELSE failed

-----------------------------------------------------------------------------
CollectEnter ==
  /\ col.pc = "enter"
  /\ col' = IF aborted THEN Ends(col, "aborted")
            ELSE IF ~ ready THEN Ends(col, "failed")
            ELSE [col EXCEPT !.before = carried, !.saw = Targets(col) # {},
                    !.pc = IF SquareDistance(bot, Center(col)) <= Square(col.radius)
                           THEN "settle" ELSE "center"]
  /\ Computes

\* moveToCollectCenterIfNeeded
CollectCenters ==
  /\ col.pc = "center"
  /\ Walks(col.center, Ends(col, "settle"), Ends(col, "failed")) /\ Acts

\* After a short delay; where nothing was seen at all, look farther.
CollectSettles ==
  /\ col.pc = "settle"
  /\ LET saw    == col.saw \/ Targets(col) # {}
         call   == IF saw THEN col ELSE [col EXCEPT !.radius = MaxRadius]
         seen   == saw \/ Targets(call) # {}
     IN  col' = IF aborted THEN Ends(col, "aborted")
                ELSE IF seen /\ MoreThan(col.before, col.item) /\ Targets(call) = {}
                THEN Ends(call, "ok")
                ELSE [call EXCEPT !.saw = seen, !.pc = "look"]
  /\ Computes

\* mutant: the search has no time limit.
CollectLooks_Patient ==
  /\ col.pc = "look"
  /\ LET targets == Targets(col)
     IN  \/ aborted /\ col' = Ends(col, "aborted")
         \/ /\ ~ aborted /\ targets = {} /\ col.saw
            /\ MoreThan(col.before, col.item) \/ col.skipped
            /\ col' = Ends(col, "end")
         \/ /\ ~ aborted /\ targets # {}
            /\ col' = [col EXCEPT !.saw = TRUE, !.pc = "next",
                                  !.queue = NearestFirst(targets)]
  /\ Computes

\* One round of the search.  With nothing in sight it waits: for an item to
\* come into sight, or for its time to be up.
CollectLooks ==
  /\ col.pc = "look"
  /\ LET targets == Targets(col)
     IN  \/ col.late /\ col' = Ends(col, "end")
         \/ ~ col.late /\ aborted /\ col' = Ends(col, "aborted")
         \/ /\ ~ col.late /\ ~ aborted /\ targets = {} /\ col.saw
            /\ MoreThan(col.before, col.item) \/ col.skipped
            /\ col' = Ends(col, "end")
         \/ /\ ~ col.late /\ ~ aborted /\ targets # {}
            /\ col' = [col EXCEPT !.saw = TRUE, !.pc = "next",
                                  !.queue = NearestFirst(targets)]
  /\ Computes

\* What lies in reach of the walk is gone, or was not to be had: skip it, unless
\* the bag has grown meanwhile.
Skips(call) ==
  [call EXCEPT !.pc = "next", !.queue = Tail(@),
               !.skipped = @ \/ ~ MoreThan(call.pickBefore, call.item)]

PickBegins ==
  /\ col.pc = "next"
  /\ LET call == [col EXCEPT !.pickBefore = carried]
     IN  col' = IF col.queue = << >> THEN Ends(col, "look")
                ELSE IF col.late THEN Skips(call)
                ELSE IF aborted THEN Ends(col, "aborted")
                ELSE IF Head(col.queue) \notin drops THEN Skips(call)
                ELSE Ends(call, "go")
  /\ Computes

\* goToPickupTarget swallows every error of the walk, an abort included.
PickGoes ==
  /\ col.pc = "go"
  /\ \E x \in Columns :
       /\ bot' = <<x, 0>>
       /\ \/ Abs(x - Head(col.queue).at[1]) <= 1 /\ col' = Ends(col, "wait")
          \/ col' = Skips(col)
  /\ Acts

\* Beside the item: until the bag has grown, the item is gone, the bag is full
\* or the time is up.
PickWaits ==
  /\ col.pc = "wait"
  /\ \/ col.late /\ col' = Skips(col)
     \/ ~ col.late /\ aborted /\ col' = Ends(col, "aborted")
     \/ /\ ~ col.late /\ ~ aborted
        /\ MoreThan(col.pickBefore, col.item) \/ Head(col.queue) \notin drops \/ Full
        /\ col' = Skips(col)
  /\ Computes

CollectEnds ==
  /\ col.pc = "end"
  /\ col' = Ends(col, IF col.saw /\ MoreThan(col.before, col.item) /\ Targets(col) = {}
                      THEN "ok" ELSE "failed")
  /\ Computes

CollectActs ==
  \/ CollectEnter \/ CollectCenters \/ CollectSettles \/ CollectLooks
  \/ PickBegins \/ PickGoes \/ PickWaits \/ CollectEnds

TimeIsUp ==
  /\ col.pc \in {"center", "settle", "look", "next", "go", "wait"} /\ ~ col.late
  /\ col' = [col EXCEPT !.late = TRUE] /\ Computes

-----------------------------------------------------------------------------
(* Around the call.                                                        *)

MayGoWrong == mishaps < MaxMishaps /\ mishaps' = mishaps + 1

PicksUp ==
  /\ ~ Full
  /\ \E d \in drops :
       /\ Abs(d.at[1] - bot[1]) <= 1 /\ Abs(d.at[2] - bot[2]) <= 1
       /\ drops' = drops \ {d} /\ carried' = [carried EXCEPT ![d.name] = @ + 1]
  /\ UNCHANGED <<botVars, aborted, mishaps, col>>

\* Another takes an item, or it despawns.
DropTaken ==
  /\ MayGoWrong /\ \E d \in drops : drops' = drops \ {d}
  /\ UNCHANGED <<botVars, carried, aborted, col>>

Abort ==
  /\ ~ aborted /\ aborted' = TRUE
  /\ UNCHANGED <<botVars, bagVars, mishaps, col>>

ConnectionLost ==
  /\ ready /\ MayGoWrong /\ ready' = FALSE
  /\ UNCHANGED <<bot, bagVars, aborted, col>>
=============================================================================
