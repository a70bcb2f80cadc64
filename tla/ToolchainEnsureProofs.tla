------------------------ MODULE ToolchainEnsureProofs ------------------------
(***************************************************************************)
(* A theorem about the digging of an ensure and one about its end by an     *)
(* interrupt, for every request, situation, recipe table, drop table, tool  *)
(* table and number of mishaps.                                            *)
(*                                                                         *)
(* What must be carried along is what each waiting call may expect of the   *)
(* call above it: an equip is awaited by the equipTool of the same item, an *)
(* equipTool by a digging whose block yields to that item, and so on down   *)
(* the chain; and what each frame has been promised, which stays true since *)
(* no step of any capability spends a tool.                                *)
(***************************************************************************)
EXTENDS ToolchainEnsure, FiniteSetTheorems, WellFoundedInduction, TLAPS

Fields == {"fn", "pc", "item", "n", "tries", "todo", "seen", "at", "err", "late"}
IsFrame(f) == f = [field \in Fields |-> f[field]]

Waits == {"prepared", "generic", "equipped", "made", "crafted", "recovered", "placed",
          "mined", "cut", "collected", "preflighted", "acted"}
Digging(f) == f.fn \in {"dig", "drop"}
ToolIn(inv, block) == ToolsFor(block) = {} \/ \E tool \in ToolsFor(block) : inv[tool] > 0
Prepared(req, inv) == req.until = "gainedDropOf" => ToolIn(inv, req.name)
Asks(req) == req.until = "gainedDropOf" /\ (req.act = "mine" => req.item = req.name)

\* What a call has been promised, wherever it is in the chain.
Sound(f, req, inv) ==
  /\ IsFrame(f) /\ f.late = FALSE
  /\ (f.fn = "ensure" /\ f.pc \notin {"enter", "preflighted"}) => Prepared(req, inv)
  /\ (Digging(f) /\ f.pc = "mine") => ToolIn(inv, f.at)
  /\ (f.fn = "mine" /\ Asks(req)) => ToolIn(inv, f.item)
  /\ (f.fn = "mine" /\ f.pc = "dig") => f.item \in Minable

\* Which call a waiting call waits for.
Below(f, callee, req) ==
  /\ f.pc \in Waits
  /\ (f.fn = "equipTool" /\ f.pc = "equipped") => callee.fn = "equip" /\ callee.item = f.item
  /\ (Digging(f) /\ f.pc = "equipped") =>
       callee.fn = "equipTool" /\ callee.item \in ToolsFor(f.at)
  /\ (f.fn = "ensure" /\ f.pc = "preflighted") =>
       callee.fn = "equipTool" /\ callee.item \in ToolsFor(req.name)

\* What the call that runs knows besides, of the world and of its last answer.
TopSound(f, req, inv, answer) ==
  /\ (f.fn = "equip" /\ f.pc = "hold") => inv[f.item] > 0
  /\ (f.fn = "equipTool" /\ f.pc = "equipped" /\ Proven(answer).code = "ok") => inv[f.item] > 0
  /\ (Digging(f) /\ f.pc = "equipped" /\ answer.code = "ok") => ToolIn(inv, f.at)
  /\ (f.fn = "ensure" /\ f.pc = "preflighted" /\ answer.code = "ok") => Prepared(req, inv)
  /\ (f.fn = "craft" /\ f.pc = "run") =>
       SelectCraftPlan(inv, f.item, f.n, f.at).code = "ready"

Chain(s, req, inv, answer) ==
  /\ \E S : s \in Seq(S)
  /\ \A k \in 1 .. Len(s) : Sound(s[k], req, inv)
  /\ \A k \in 2 .. Len(s) : Below(s[k], s[k - 1], req)
  /\ s # <<>> => TopSound(s[1], req, inv, answer)

\* The counts of the tools are numbers; of what else is held nothing is needed.
Counts(inv) ==
  /\ inv = [i \in Items |-> inv[i]]
  /\ \A t \in Tools : inv[t] \in Int

ScriptInv == request \in Requests /\ aborted \in BOOLEAN
ChainInv == Chain(stack, request, inventory, ret)
IInv == ScriptInv /\ Counts(inventory) /\ ChainInv

-----------------------------------------------------------------------------
(* The choices that are made with the tables.                              *)

(* A set of natural numbers has a least element: finite sets are well       *)
(* founded, and so are the intervals below the members.                    *)
LEMMA LeastNatural ==
  ASSUME NEW T \in SUBSET Nat, T # {}
  PROVE  \E x \in T : \A y \in T : x <= y
<1> DEFINE R == StrictSubsetOrdering(Nat)
           U == {1 .. x : x \in T}
<1>1. IsWellFoundedOn(R, FiniteSubsetsOf(Nat))
  BY FS_StrictSubsetOrderingWellFounded
<1>2. U \subseteq FiniteSubsetsOf(Nat) /\ U # {}
  <2>1. \A x \in T : IsFiniteSet(1 .. x)
    BY FS_Interval
  <2>2. \A x \in T : 1 .. x \in SUBSET Nat
    OBVIOUS
  <2>3. \A x \in T : 1 .. x \in FiniteSubsetsOf(Nat)
    BY <2>1, <2>2 DEF FiniteSubsetsOf
  <2>4. PICK x \in T : TRUE
    OBVIOUS
  <2>5. 1 .. x \in U
    OBVIOUS
  <2>6. U \subseteq FiniteSubsetsOf(Nat)
    BY <2>3
  <2> QED BY <2>5, <2>6
<1>3. PICK u \in U : \A v \in U : ~ (<<v, u>> \in R)
  <2> HIDE DEF R, U
  <2> QED BY <1>1, <1>2, WFMin
<1>4. PICK x \in T : u = 1 .. x
  OBVIOUS
<1>5. ASSUME NEW y \in T, y < x PROVE FALSE
  <2>1. x \in 1 .. x /\ x \notin 1 .. y
    BY <1>5
  <2>2. 1 .. y \subseteq 1 .. x /\ 1 .. y # 1 .. x
    BY <1>5, <2>1
  <2>3. <<1 .. y, u>> \in R
    BY <1>4, <2>2 DEF StrictSubsetOrdering
  <2> QED BY <1>3, <2>3
<1> QED BY <1>5

(* A choice among recipes, and among indices, is one of them.              *)
LEMMA FirstIsOne ==
  ASSUME NEW R, R # {}, \A r \in R : r.place \in Nat
  PROVE  FirstOf(R) \in R
<1> DEFINE T == {r.place : r \in R}
<1>1. T \in SUBSET Nat /\ T # {}
  OBVIOUS
<1>2. PICK x \in T : \A y \in T : x <= y
  BY <1>1, LeastNatural
<1>3. \E r \in R : \A q \in R : r.place <= q.place
  BY <1>2
<1> QED BY <1>3 DEF FirstOf

LEMMA LeastIsOne ==
  ASSUME NEW T \in SUBSET Nat, T # {}
  PROVE  Min(T) \in T
BY LeastNatural DEF Min

(* A plan that is ready takes a recipe of an item of the instance.         *)
LEMMA ReadyPlan ==
  ASSUME NEW inv, NEW target, NEW n, NEW at,
         SelectCraftPlan(inv, target, n, at).code = "ready"
  PROVE  LET plan == SelectCraftPlan(inv, target, n, at)
         IN  plan.item \in Items /\ plan.recipe \in Recipes[plan.item]
<1> DEFINE c == TargetCandidates(target)
           ready == {k \in DOMAIN c : RecipesFor(inv, c[k], n, at) # {}}
           found == c[Min(ready)]
           taken == [code |-> "ready", item |-> found,
                     recipe |-> FirstOf(RecipesFor(inv, found, n, at))]
<1> USE RegistryAssumption
<1>1. c \in Seq(Items)
  BY DEF TargetCandidates
<1>2. ready # {} /\ SelectCraftPlan(inv, target, n, at) = taken
  BY ZenonT(30) DEF SelectCraftPlan
<1>3. Min(ready) \in ready
  <2>1. ready \in SUBSET Nat
    BY <1>1
  <2> HIDE DEF ready
  <2> QED BY <1>2, <2>1, LeastIsOne
<1>4. found \in Items /\ RecipesFor(inv, found, n, at) # {}
  <2>1. \A k \in ready : k \in DOMAIN c /\ RecipesFor(inv, c[k], n, at) # {}
    OBVIOUS
  <2>2. \A k \in DOMAIN c : c[k] \in Items
    BY <1>1
  <2> HIDE DEF c, ready
  <2> QED BY <1>3, <2>1, <2>2
<1> HIDE DEF found
<1>5. RecipesFor(inv, found, n, at) \subseteq Recipes[found]
  BY DEF RecipesFor
<1>6. \A r \in RecipesFor(inv, found, n, at) : r.place \in Nat
  BY <1>4, <1>5
<1>7. FirstOf(RecipesFor(inv, found, n, at)) \in RecipesFor(inv, found, n, at)
  BY <1>4, <1>6, FirstIsOne
<1> QED BY <1>2, <1>4, <1>5, <1>7

(* A craft spends no tool.                                                 *)
LEMMA CraftSpendsNoTool ==
  ASSUME NEW inv, NEW plan, NEW n, NEW t \in Tools, inv[t] \in Int,
         plan.item \in Items, plan.recipe \in Recipes[plan.item]
  PROVE  LET made == Crafted(inv, plan, CraftRuns(plan.recipe, n))
         IN  made[t] \in Int /\ made[t] >= inv[t]
<1> DEFINE runs == CraftRuns(plan.recipe, n)
           yield == plan.recipe.yield
<1> USE RegistryAssumption
<1>1. t \in Items
  BY DEF Tools, ToSet
<1>2. runs \in Nat
  BY DEF CraftRuns, Positive
<1>3. yield \in Nat /\ t \notin Ingredients(plan.recipe)
  OBVIOUS
<1> HIDE DEF runs, yield
<1>4. runs * yield \in Nat
  BY <1>2, <1>3
<1>5. Crafted(inv, plan, runs)[t] = inv[t] - 0 + (IF t = plan.item THEN runs * yield ELSE 0)
  BY <1>1, <1>3 DEF Crafted, yield
<1>6. Crafted(inv, plan, runs)[t] \in Int /\ Crafted(inv, plan, runs)[t] >= inv[t]
  BY <1>4, <1>5
<1> QED BY <1>6 DEF runs

(* The tool a block asks for is one that it yields to.                     *)
LEMMA AskedForTool ==
  ASSUME NEW inv, NEW block
  PROVE  LET tool == RequiredEquipment(inv, block)
         IN  \/ tool = Nothing /\ ToolsFor(block) = {}
             \/ tool # Nothing /\ tool \in ToolsFor(block)
<1> DEFINE tools == IF block \in DOMAIN HarvestTools THEN HarvestTools[block] ELSE <<>>
           Held0 == {i \in 1 .. Len(tools) : inv[tools[i]] > 0}
           Made0 == {i \in 1 .. Len(tools) : CanCraft(tools[i])}
           held == IF Held0 # {} THEN Min(Held0) ELSE 0
           made == IF Made0 # {} THEN Min(Made0) ELSE 0
           index == IF held # 0 THEN held ELSE IF made # 0 THEN made ELSE 1
<1> USE RegistryAssumption
<1>1. tools \in Seq(Items \ {Nothing, "crafting_table"}) /\ ToolsFor(block) = ToSet(tools)
  BY DEF ToolsFor, ToSet
<1>2. RequiredEquipment(inv, block) = IF tools = <<>> THEN Nothing ELSE tools[index]
  BY DEF RequiredEquipment, FirstWith, SelectInSeq
<1> HIDE DEF tools
<1>3. held = 0 \/ held \in 1 .. Len(tools)
  <2>1. Held0 \in SUBSET Nat /\ Held0 \subseteq 1 .. Len(tools)
    BY <1>1
  <2> HIDE DEF Held0
  <2> QED BY <2>1, LeastIsOne
<1>4. made = 0 \/ made \in 1 .. Len(tools)
  <2>1. Made0 \in SUBSET Nat /\ Made0 \subseteq 1 .. Len(tools)
    BY <1>1
  <2> HIDE DEF Made0
  <2> QED BY <2>1, LeastIsOne
<1> HIDE DEF held, made
<1>5. CASE tools = <<>>
  BY <1>1, <1>2, <1>5 DEF ToSet
<1>6. CASE tools # <<>>
  <2>1. 1 \in 1 .. Len(tools)
    BY <1>1, <1>6
  <2>2. index \in 1 .. Len(tools)
    BY <1>3, <1>4, <2>1
  <2> HIDE DEF index
  <2>3. tools[index] \in ToSet(tools) /\ tools[index] # Nothing
    BY <1>1, <2>2 DEF ToSet
  <2> QED BY <1>1, <1>2, <1>6, <2>3
<1> QED BY <1>5, <1>6

-----------------------------------------------------------------------------
(* What becomes of the chain.  The world it is in may gain tools.          *)

Keeps(inv, next) == Counts(next) /\ \A t \in Tools : next[t] >= inv[t]

LEMMA ToolsStay ==
  ASSUME NEW inv, NEW next, Counts(inv), Keeps(inv, next), NEW block, ToolIn(inv, block)
  PROVE  ToolIn(next, block)
<1>1. \A t \in ToolsFor(block) : t \in Tools
  BY DEF ToolsFor, Tools
<1> QED BY <1>1 DEF ToolIn, Keeps, Counts

LEMMA SoundStays ==
  ASSUME NEW inv, NEW next, Counts(inv), Keeps(inv, next), NEW req
  PROVE  /\ \A f : Sound(f, req, inv) => Sound(f, req, next)
         /\ Prepared(req, inv) => Prepared(req, next)
<1>1. \A block : ToolIn(inv, block) => ToolIn(next, block)
  BY ToolsStay
<1> QED BY <1>1 DEF Sound, Prepared

(* The running call may give way to another, unless it is an equip.        *)
KeepsPlace(f, g) ==
  (g.fn = f.fn /\ g.item = f.item) \/ f.fn \notin {"equip", "equipTool"}

LEMMA PlaceKept ==
  ASSUME NEW w, NEW f, NEW g, NEW req, Below(w, f, req), KeepsPlace(f, g)
  PROVE  Below(w, g, req)
BY DEF Below, KeepsPlace

LEMMA ReplacedHead ==
  ASSUME NEW S, NEW s \in Seq(S), s # <<>>, NEW f
  PROVE  LET t == <<f>> \o Tail(s)
         IN  /\ t \in Seq(S \cup {f}) /\ t # <<>> /\ Len(t) = Len(s) /\ t[1] = f
             /\ \A k \in 2 .. Len(s) : t[k] = s[k]
OBVIOUS

LEMMA ReplacedByTwo ==
  ASSUME NEW S, NEW s \in Seq(S), s # <<>>, NEW f, NEW g
  PROVE  LET t == <<f, g>> \o Tail(s)
         IN  /\ t \in Seq(S \cup {f, g}) /\ t # <<>> /\ Len(t) = Len(s) + 1
             /\ t[1] = f /\ t[2] = g
             /\ \A k \in 3 .. Len(t) : t[k] = s[k - 1]
OBVIOUS

LEMMA ChainBecomes ==
  ASSUME NEW s, NEW req, NEW inv, NEW next, NEW answer, NEW f,
         Counts(inv), Keeps(inv, next), Chain(s, req, inv, answer), s # <<>>,
         KeepsPlace(Head(s), f), Sound(f, req, next), TopSound(f, req, next, answer)
  PROVE  Chain(<<f>> \o Tail(s), req, next, answer)
<1> DEFINE t == <<f>> \o Tail(s)
<1>1. PICK S : s \in Seq(S)
  BY DEF Chain
<1>2. /\ t \in Seq(S \cup {f}) /\ t # <<>> /\ Len(t) = Len(s) /\ t[1] = f
      /\ \A k \in 2 .. Len(s) : t[k] = s[k]
  BY <1>1, ReplacedHead
<1>3. Head(s) = s[1] /\ Len(s) \in Nat
  BY <1>1
<1> HIDE DEF t
<1>4. ASSUME NEW k \in 1 .. Len(t) PROVE Sound(t[k], req, next)
  <2>1. CASE k = 1
    BY <1>2, <2>1
  <2>2. CASE k # 1
    <3>1. k \in 1 .. Len(s) /\ t[k] = s[k]
      BY <1>2, <1>3, <2>2
    <3> QED BY <3>1, SoundStays DEF Chain
  <2> QED BY <2>1, <2>2
<1>5. ASSUME NEW k \in 2 .. Len(t) PROVE Below(t[k], t[k - 1], req)
  <2>1. Below(s[k], s[k - 1], req) /\ t[k] = s[k]
    BY <1>2 DEF Chain
  <2>2. CASE k = 2
    BY <1>2, <1>3, <2>1, <2>2, PlaceKept
  <2>3. CASE k # 2
    <3>1. k - 1 \in 2 .. Len(s)
      BY <1>2, <1>3, <2>3
    <3>2. t[k - 1] = s[k - 1]
      BY <1>2, <3>1
    <3> QED BY <2>1, <3>2
  <2> QED BY <2>2, <2>3
<1>6. Chain(t, req, next, answer)
  BY <1>2, <1>4, <1>5 DEF Chain
<1> QED BY <1>6 DEF t

LEMMA ChainCalls ==
  ASSUME NEW s, NEW req, NEW inv, NEW next, NEW answer, NEW f, NEW g,
         Counts(inv), Keeps(inv, next), Chain(s, req, inv, answer), s # <<>>,
         KeepsPlace(Head(s), g), Sound(g, req, next), Below(g, f, req),
         Sound(f, req, next), TopSound(f, req, next, answer)
  PROVE  Chain(<<f, g>> \o Tail(s), req, next, answer)
<1> DEFINE t == <<f, g>> \o Tail(s)
<1>1. PICK S : s \in Seq(S)
  BY DEF Chain
<1>2. /\ t \in Seq(S \cup {f, g}) /\ t # <<>> /\ Len(t) = Len(s) + 1
      /\ t[1] = f /\ t[2] = g
      /\ \A k \in 3 .. Len(t) : t[k] = s[k - 1]
  BY <1>1, ReplacedByTwo
<1>3. Head(s) = s[1] /\ Len(s) \in Nat
  BY <1>1
<1> HIDE DEF t
<1>4. ASSUME NEW k \in 1 .. Len(t) PROVE Sound(t[k], req, next)
  <2>1. CASE k \in 3 .. Len(t)
    <3>1. k - 1 \in 1 .. Len(s) /\ t[k] = s[k - 1]
      BY <1>2, <1>3, <2>1
    <3> QED BY <3>1, SoundStays DEF Chain
  <2> QED BY <1>2, <1>3, <2>1
<1>5. ASSUME NEW k \in 2 .. Len(t) PROVE Below(t[k], t[k - 1], req)
  <2>1. CASE k = 2
    BY <1>2, <2>1
  <2>2. CASE k = 3
    <3>1. Below(s[2], s[1], req) /\ t[3] = s[2]
      BY <1>2, <1>3, <2>2 DEF Chain
    <3> QED BY <1>2, <1>3, <2>2, <3>1, PlaceKept
  <2>3. CASE k > 3
    <3>1. k - 1 \in 2 .. Len(s) /\ k - 1 \in 3 .. Len(t) /\ k \in 3 .. Len(t)
      BY <1>2, <1>3, <2>3
    <3>2. t[k - 1] = s[(k - 1) - 1] /\ t[k] = s[k - 1]
      BY <1>2, <3>1
    <3>3. Below(s[k - 1], s[(k - 1) - 1], req)
      BY <3>1 DEF Chain
    <3> QED BY <3>2, <3>3
  <2> QED BY <1>2, <1>3, <2>1, <2>2, <2>3
<1>6. Chain(t, req, next, answer)
  BY <1>2, <1>4, <1>5 DEF Chain
<1> QED BY <1>6 DEF t

(* A call returns to the one that waits for it: an equip with the item at   *)
(* hand, if its answer proves it; an equipTool with the tool.              *)
Returning(f, next, answer) ==
  /\ (f.fn = "equip" /\ Proven(answer).code = "ok") => next[f.item] > 0
  /\ (f.fn = "equipTool" /\ answer.code = "ok") => next[f.item] > 0

LEMMA ChainReturns ==
  ASSUME NEW s, NEW req, NEW inv, NEW next, NEW last, NEW answer,
         Counts(inv), Keeps(inv, next), Chain(s, req, inv, last), s # <<>>,
         Returning(Head(s), next, answer)
  PROVE  Chain(Tail(s), req, next, answer)
<1> DEFINE t == Tail(s)
<1>1. PICK S : s \in Seq(S)
  BY DEF Chain
<1>2. /\ t \in Seq(S) /\ Len(t) = Len(s) - 1 /\ Len(s) \in Nat \ {0}
      /\ \A k \in 1 .. Len(t) : t[k] = s[k + 1]
  BY <1>1
<1>3. Head(s) = s[1]
  BY <1>1
<1> HIDE DEF t
<1>4. ASSUME NEW k \in 1 .. Len(t) PROVE Sound(t[k], req, next)
  <2>1. k + 1 \in 1 .. Len(s) /\ t[k] = s[k + 1]
    BY <1>2
  <2> QED BY <2>1, SoundStays DEF Chain
<1>5. ASSUME NEW k \in 2 .. Len(t) PROVE Below(t[k], t[k - 1], req)
  <2>1. k + 1 \in 2 .. Len(s) /\ t[k] = s[k + 1] /\ t[k - 1] = s[(k + 1) - 1]
    BY <1>2
  <2> QED BY <2>1 DEF Chain
<1>6. ASSUME t # <<>> PROVE TopSound(t[1], req, next, answer)
  <2>1. 2 \in 2 .. Len(s) /\ t[1] = s[2]
    BY <1>2, <1>6
  <2>2. Below(s[2], s[1], req)
    BY <2>1 DEF Chain
  <2>3. \A tool : tool \in ToolsFor(s[2].at) /\ next[tool] > 0 => ToolIn(next, s[2].at)
    BY DEF ToolIn
  <2>4. \A tool : tool \in ToolsFor(req.name) /\ next[tool] > 0 => ToolIn(next, req.name)
    BY DEF ToolIn
  <2> QED BY <1>3, <2>1, <2>2, <2>3, <2>4 DEF Below, Waits, TopSound, Prepared, Returning
<1>7. Chain(t, req, next, answer)
  BY <1>2, <1>4, <1>5, <1>6 DEF Chain
<1> QED BY <1>7 DEF t

-----------------------------------------------------------------------------
(* The steps of a call.                                                    *)

LEMMA CountsKept ==
  ASSUME NEW inv, Counts(inv)
  PROVE  Keeps(inv, inv)
BY DEF Counts, Keeps

(* What is gained or given away is no tool.                                *)
LEMMA NoToolMoves ==
  ASSUME NEW inv, Counts(inv), NEW i, i \notin Tools, NEW k
  PROVE  Keeps(inv, [inv EXCEPT ![i] = k])
<1>1. Tools \subseteq Items
  BY RegistryAssumption DEF Tools, ToSet
<1> QED BY <1>1 DEF Counts, Keeps

LEMMA TopIsSound ==
  ASSUME IInv, stack # <<>>
  PROVE  Sound(top, request, inventory) /\ TopSound(top, request, inventory, ret)
<1>1. PICK S : stack \in Seq(S)
  BY DEF IInv, ChainInv, Chain
<1>2. top = stack[1] /\ 1 \in 1 .. Len(stack)
  BY <1>1 DEF top
<1> QED BY <1>2 DEF IInv, ChainInv, Chain

\* A step that leaves the request and the abort alone, and spends no tool.
Steady == request' = request /\ aborted' = aborted /\ Keeps(inventory, inventory')

LEMMA ComputesIsSteady == ASSUME IInv, Computes PROVE Steady /\ inventory' = inventory
BY CountsKept DEF IInv, Computes, Steady, world, script

LEMMA BecomesStep ==
  ASSUME IInv, stack # <<>>, Steady, NEW f, Becomes(f), KeepsPlace(top, f),
         Sound(f, request, inventory'), TopSound(f, request, inventory', ret)
  PROVE  IInv'
<1>1. Chain(<<f>> \o Tail(stack), request, inventory', ret)
  BY ChainBecomes DEF IInv, ChainInv, Steady, top
<1> QED BY <1>1 DEF IInv, ScriptInv, ChainInv, Steady, Keeps, Becomes

LEMMA CallsStep ==
  ASSUME IInv, stack # <<>>, Steady, NEW f, NEW g,
         stack' = <<f, g>> \o Tail(stack), ret' = ret, KeepsPlace(top, g),
         Sound(g, request, inventory'), Below(g, f, request),
         Sound(f, request, inventory'), TopSound(f, request, inventory', ret)
  PROVE  IInv'
<1>1. Chain(<<f, g>> \o Tail(stack), request, inventory', ret)
  BY ChainCalls DEF IInv, ChainInv, Steady, top
<1> QED BY <1>1 DEF IInv, ScriptInv, ChainInv, Steady, Keeps

LEMMA ReturnsStep ==
  ASSUME IInv, stack # <<>>, Steady, NEW answer, Returns(answer),
         Returning(top, inventory', answer)
  PROVE  IInv'
<1>1. Chain(Tail(stack), request, inventory', answer)
  BY ChainReturns DEF IInv, ChainInv, Steady, top
<1> QED BY <1>1 DEF IInv, ScriptInv, ChainInv, Steady, Keeps, Returns

(* A frame that carries no promise, and a step that only deals with such.  *)
PlainFrame(f) ==
  /\ IsFrame(f) /\ f.late = FALSE /\ f.fn # "mine"
  /\ \/ f.pc = "enter"
     \/ f.fn \notin {"ensure", "dig", "drop", "equip", "equipTool"} /\ f.pc # "run"

LEMMA PlainIsSound ==
  ASSUME NEW f, PlainFrame(f), NEW req, NEW inv, NEW answer
  PROVE  Sound(f, req, inv) /\ TopSound(f, req, inv, answer)
BY DEF PlainFrame, Sound, TopSound, Digging

PlainStep ==
  \/ \E answer : Returns(answer)
  \/ \E f : PlainFrame(f) /\ Becomes(f)
  \/ \E f, g : /\ PlainFrame(f) /\ PlainFrame(g) /\ g.pc \in Waits
               /\ stack' = <<f, g>> \o Tail(stack) /\ ret' = ret

LEMMA PlainStepKeeps ==
  ASSUME IInv, stack # <<>>, top.fn \notin {"equip", "equipTool"}, Steady, PlainStep
  PROVE  IInv'
<1>1. ASSUME NEW answer, Returns(answer) PROVE IInv'
  BY <1>1, ReturnsStep DEF Returning
<1>2. ASSUME NEW f, PlainFrame(f), Becomes(f) PROVE IInv'
  BY <1>2, PlainIsSound, BecomesStep DEF KeepsPlace
<1>3. ASSUME NEW f, NEW g, PlainFrame(f), PlainFrame(g), g.pc \in Waits,
             stack' = <<f, g>> \o Tail(stack), ret' = ret
      PROVE  IInv'
  <2>1. Below(g, f, request)
    BY <1>3 DEF Below, PlainFrame, Waits, Digging
  <2> QED BY <1>3, <2>1, PlainIsSound, CallsStep DEF KeepsPlace
<1> QED BY <1>1, <1>2, <1>3 DEF PlainStep

-----------------------------------------------------------------------------
(* The steps of the capabilities.                                          *)

(* Changing where a frame stands keeps it the frame of its call.           *)
LEMMA Moved ==
  ASSUME NEW f, IsFrame(f), NEW pc
  PROVE  LET g == [f EXCEPT !.pc = pc]
         IN  /\ IsFrame(g) /\ g.pc = pc
             /\ g.fn = f.fn /\ g.item = f.item /\ g.n = f.n /\ g.at = f.at /\ g.late = f.late
BY DEF IsFrame, Fields

LEMMA CraftIsNew ==
  ASSUME NEW target, NEW n, NEW seen, NEW late, late = FALSE
  PROVE  PlainFrame([Craft(target, n, seen) EXCEPT !.late = late])
<1>1. IsFrame(Frame("craft", target, n)) /\ Frame("craft", target, n).pc = "enter"
      /\ Frame("craft", target, n).fn = "craft"
  BY DEF Frame, IsFrame, Fields
<1>2. PICK e : e = Frame("craft", target, n)
  OBVIOUS
<1>3. PICK f : f = [[e EXCEPT !.seen = seen] EXCEPT !.late = late]
  OBVIOUS
<1>4. IsFrame(f) /\ f.late = FALSE /\ f.fn = "craft" /\ f.pc = "enter"
  BY <1>1, <1>2, <1>3 DEF IsFrame, Fields
<1>5. f = [Craft(target, n, seen) EXCEPT !.late = late]
  BY <1>2, <1>3 DEF Craft
<1> QED BY <1>4, <1>5 DEF PlainFrame

LEMMA CraftEnterStep == ASSUME IInv, CraftEnter PROVE IInv'
<1>1. Steady /\ stack # <<>> /\ top.fn = "craftCall"
  BY ComputesIsSteady DEF CraftEnter, At
<1>2. CASE \E answer : Returns(answer)
  BY <1>1, <1>2, PlainStepKeeps DEF PlainStep
<1>3. CASE Begins(Craft(CraftTarget(top.item), top.n, {}))
  <2>1. aborted = FALSE
    BY <1>3 DEF IInv, ScriptInv, Begins, MayBegin
  <2>2. PICK f : f = [Craft(CraftTarget(top.item), top.n, {}) EXCEPT !.late = aborted]
    OBVIOUS
  <2>3. PlainFrame(f)
    BY <2>1, <2>2, CraftIsNew
  <2>4. Becomes(f)
    BY <1>3, <2>2 DEF Begins
  <2> QED BY <1>1, <2>3, <2>4, PlainStepKeeps DEF PlainStep
<1> QED BY <1>2, <1>3 DEF CraftEnter, Refused

(* A craft runs only when its plan is ready.                               *)
LEMMA PlannedKeeps ==
  ASSUME IInv, stack # <<>>, top.fn = "craft", Steady, inventory' = inventory,
         NEW f, IsFrame(f), f.fn = "craft", f.late = FALSE, NEW plan, Planned(f, plan),
         plan = SelectCraftPlan(inventory, f.item, f.n, f.at)
  PROVE  IInv'
<1>1. CASE plan.code = "ready"
  <2>1. PICK g : g = [f EXCEPT !.pc = "run"]
    OBVIOUS
  <2>2. IsFrame(g) /\ g.fn = "craft" /\ g.late = FALSE /\ g.item = f.item
        /\ g.n = f.n /\ g.at = f.at
    BY <2>1, Moved
  <2>3. Sound(g, request, inventory') /\ TopSound(g, request, inventory', ret)
    BY <1>1, <2>2 DEF Sound, TopSound, Digging
  <2>4. Becomes(g)
    BY <1>1, <2>1 DEF Planned
  <2> QED BY <2>3, <2>4, BecomesStep DEF KeepsPlace
<1>2. CASE plan.code # "ready"
  BY <1>2, PlainStepKeeps DEF PlainStep, Planned
<1> QED BY <1>1, <1>2

LEMMA CraftLooksStep == ASSUME IInv, CraftLooks PROVE IInv'
<1> DEFINE plan   == SelectCraftPlan(inventory, top.item, top.n, NearbyTable)
           recipe == RepresentativeRecipe(inventory, top.item, top.n, NearbyTable)
           frame  == [top EXCEPT !.at = NearbyTable]
           todo   == MissingMaterials(inventory, recipe, top.n)
<1>1. Steady /\ inventory' = inventory /\ stack # <<>> /\ top.fn = "craft"
  BY CountsKept DEF CraftLooks, At, IInv, Acts, script, Steady
<1>2. Sound(top, request, inventory)
  BY <1>1, TopIsSound
<1>3. IsFrame(frame) /\ frame.fn = "craft" /\ frame.late = FALSE /\ frame.item = top.item
      /\ frame.n = top.n /\ frame.at = NearbyTable
  BY <1>1, <1>2 DEF Sound, IsFrame, Fields
<1>4. \/ \E answer : Returns(answer)
      \/ Becomes([frame EXCEPT !.pc = "prepare", !.todo = todo])
      \/ Planned(frame, plan)
  BY DEF CraftLooks
<1> HIDE DEF frame, todo
<1>5. CASE \E answer : Returns(answer)
  BY <1>1, <1>5, PlainStepKeeps DEF PlainStep
<1>6. CASE Becomes([frame EXCEPT !.pc = "prepare", !.todo = todo])
  <2>1. PlainFrame([frame EXCEPT !.pc = "prepare", !.todo = todo])
    BY <1>3 DEF PlainFrame, IsFrame, Fields
  <2> QED BY <1>1, <1>6, <2>1, PlainStepKeeps DEF PlainStep
<1>7. CASE Planned(frame, plan)
  BY <1>1, <1>3, <1>7, PlannedKeeps
<1> QED BY <1>4, <1>5, <1>6, <1>7

LEMMA CraftPreparesStep == ASSUME IInv, CraftPrepares PROVE IInv'
<1>1. Steady /\ inventory' = inventory /\ stack # <<>> /\ top.fn = "craft"
  BY ComputesIsSteady DEF CraftPrepares, At
<1>2. IsFrame(top) /\ top.late = FALSE
  BY <1>1, TopIsSound DEF Sound
<1>3. CASE top.todo = <<>>
  BY <1>1, <1>2, <1>3, PlannedKeeps DEF CraftPrepares
<1>4. CASE top.todo # <<>>
  <2> DEFINE f == [Craft(Head(top.todo).item, Head(top.todo).n, top.seen \cup {top.item})
                     EXCEPT !.late = top.late]
             g == [top EXCEPT !.pc = "prepared"]
  <2>1. PlainFrame(f)
    BY <1>2, CraftIsNew
  <2>2. PlainFrame(g) /\ g.pc \in Waits
    BY <1>1, <1>2 DEF PlainFrame, Waits, IsFrame, Fields
  <2>3. stack' = <<f, g>> \o Tail(stack) /\ ret' = ret
    BY <1>4 DEF CraftPrepares, Calls
  <2> HIDE DEF f, g
  <2> QED BY <1>1, <2>1, <2>2, <2>3, PlainStepKeeps DEF PlainStep
<1> QED BY <1>3, <1>4

LEMMA CraftPreparedStep == ASSUME IInv, CraftPrepared PROVE IInv'
<1>1. Steady /\ inventory' = inventory /\ stack # <<>> /\ top.fn = "craft"
  BY ComputesIsSteady DEF CraftPrepared, At
<1>2. IsFrame(top) /\ top.late = FALSE
  BY <1>1, TopIsSound DEF Sound
<1> DEFINE f == [Craft("planks", Head(top.todo).n, top.seen \cup {top.item})
                   EXCEPT !.late = top.late]
           g == [top EXCEPT !.pc = "generic", !.err = ret]
           h == [top EXCEPT !.pc = "prepare", !.todo = Tail(@)]
<1>3. \/ \E answer : Returns(answer)
      \/ Becomes(h)
      \/ stack' = <<f, g>> \o Tail(stack) /\ ret' = ret
  BY DEF CraftPrepared
<1>4. PlainFrame(f)
  BY <1>2, CraftIsNew
<1>5. PlainFrame(g) /\ g.pc \in Waits /\ PlainFrame(h)
  BY <1>1, <1>2 DEF PlainFrame, IsFrame, Fields, Waits
<1> HIDE DEF f, g, h
<1> QED BY <1>1, <1>3, <1>4, <1>5, PlainStepKeeps DEF PlainStep

LEMMA CraftRunStep == ASSUME IInv, CraftRun PROVE IInv'
<1> DEFINE plan == SelectCraftPlan(inventory, top.item, top.n, top.at)
           made == Crafted(inventory, plan, CraftRuns(plan.recipe, top.n))
<1>1. /\ stack # <<>> /\ top.fn = "craft" /\ top.pc = "run"
      /\ request' = request /\ aborted' = aborted
      /\ inventory' = made \/ inventory' = inventory
      /\ \E answer : Returns(answer)
  BY DEF CraftRun, At, Acts, script
<1>2. plan.code = "ready"
  BY <1>1, TopIsSound DEF TopSound
<1> HIDE DEF plan
<1>3. plan.item \in Items /\ plan.recipe \in Recipes[plan.item]
  BY <1>2, ReadyPlan DEF plan
<1>4. \A t \in Tools : inventory[t] \in Int
  BY DEF IInv, Counts
<1>5. \A t \in Tools : made[t] \in Int /\ made[t] >= inventory[t]
  BY <1>3, <1>4, CraftSpendsNoTool
<1>6. made = [i \in Items |-> made[i]]
  BY DEF Crafted
<1> HIDE DEF made
<1>7. Keeps(inventory, made)
  BY <1>5, <1>6 DEF Keeps, Counts
<1>8. Steady
  BY <1>1, <1>7, CountsKept DEF Steady, IInv
<1> QED BY <1>1, <1>8, PlainStepKeeps DEF PlainStep

(* The calls that carry no promise wherever they stand.                    *)
Promiseless == {"craftCall", "place", "cut", "collect", "make", "table", "materials", "missing",
                "provide", "fell"}

LEMMA PromiselessTop ==
  ASSUME IInv, stack # <<>>, top.fn \in Promiseless
  PROVE  /\ IsFrame(top) /\ top.late = FALSE /\ top.fn \notin {"equip", "equipTool"}
         /\ \A f : (IsFrame(f) /\ f.fn = top.fn /\ f.late = FALSE /\ f.pc # "run")
                     => PlainFrame(f)
BY TopIsSound DEF Sound, Promiseless, PlainFrame

LEMMA PromiselessMoves ==
  ASSUME IInv, stack # <<>>, top.fn \in Promiseless, NEW pc, pc # "run"
  PROVE  PlainFrame([top EXCEPT !.pc = pc]) /\ [top EXCEPT !.pc = pc].pc = pc
<1>1. IsFrame(top) /\ top.late = FALSE
  BY PromiselessTop
<1>2. PICK f : f = [top EXCEPT !.pc = pc]
  OBVIOUS
<1>3. IsFrame(f) /\ f.fn = top.fn /\ f.late = FALSE /\ f.pc = pc
  BY <1>1, <1>2 DEF IsFrame, Fields
<1>4. PlainFrame(f)
  BY <1>3, PromiselessTop
<1> QED BY <1>2, <1>3, <1>4

LEMMA PlaceEnterStep == ASSUME IInv, PlaceEnter PROVE IInv'
<1> DEFINE f == [[top EXCEPT !.pc = "candidate"] EXCEPT !.late = aborted]
<1>1. Steady /\ stack # <<>> /\ top.fn \in Promiseless
  BY CountsKept DEF PlaceEnter, At, IInv, Acts, script, Steady, Promiseless
<1>2. (\E answer : Returns(answer)) \/ (Becomes(f) /\ aborted = FALSE)
  BY DEF PlaceEnter, Refused, Begins, MayBegin, IInv, ScriptInv
<1>3. aborted = FALSE => PlainFrame(f)
  BY <1>1, PromiselessTop DEF IsFrame, Fields
<1> HIDE DEF f
<1> QED BY <1>1, <1>2, <1>3, PromiselessTop, PlainStepKeeps DEF PlainStep

LEMMA PlaceCandidateStep == ASSUME IInv, PlaceCandidate PROVE IInv'
<1> DEFINE f == [top EXCEPT !.pc = "approach", !.n = @ - 1]
<1>1. Steady /\ stack # <<>> /\ top.fn \in Promiseless
  BY ComputesIsSteady DEF PlaceCandidate, At, Promiseless
<1>2. (\E answer : Returns(answer)) \/ Becomes(f)
  BY DEF PlaceCandidate, Refused
<1>3. PlainFrame(f)
  BY <1>1, PromiselessTop DEF IsFrame, Fields
<1> HIDE DEF f
<1> QED BY <1>1, <1>2, <1>3, PromiselessTop, PlainStepKeeps DEF PlainStep

LEMMA NextCandidateKeeps ==
  ASSUME IInv, stack # <<>>, Steady, top.fn \in Promiseless, NextCandidate
  PROVE  IInv'
<1> DEFINE f == [top EXCEPT !.pc = IF top.n = 0 THEN "giveUp" ELSE "candidate", !.tries = 0]
<1>1. Becomes(f)
  BY DEF NextCandidate
<1>2. PlainFrame(f)
  BY PromiselessTop DEF IsFrame, Fields
<1> HIDE DEF f
<1> QED BY <1>1, <1>2, PromiselessTop, PlainStepKeeps DEF PlainStep

LEMMA PromiselessGoes ==
  ASSUME IInv, stack # <<>>, Steady, top.fn \in Promiseless, NEW pc, pc # "run", Goes(pc)
  PROVE  IInv'
<1> DEFINE f == [top EXCEPT !.pc = pc]
<1>1. PlainFrame(f)
  BY PromiselessMoves
<1>2. Becomes(f)
  BY DEF Goes
<1> HIDE DEF f
<1> QED BY <1>1, <1>2, PromiselessTop, PlainStepKeeps DEF PlainStep

LEMMA PromiselessReturns ==
  ASSUME IInv, stack # <<>>, Steady, top.fn \in Promiseless, NEW answer, Returns(answer)
  PROVE  IInv'
BY PromiselessTop, PlainStepKeeps DEF PlainStep

LEMMA PlaceApproachStep == ASSUME IInv, PlaceApproach PROVE IInv'
<1>1. Steady /\ stack # <<>> /\ top.fn \in Promiseless
  BY CountsKept DEF PlaceApproach, At, IInv, Acts, script, Steady, Promiseless
<1>2. NextCandidate \/ Goes("equip")
  BY DEF PlaceApproach
<1> QED BY <1>1, <1>2, NextCandidateKeeps, PromiselessGoes

LEMMA PlaceEquipsStep == ASSUME IInv, PlaceEquips PROVE IInv'
<1>1. Steady /\ stack # <<>> /\ top.fn \in Promiseless
  BY CountsKept DEF PlaceEquips, At, IInv, Acts, script, Steady, Promiseless
<1>2. NextCandidate \/ Goes("click")
  BY DEF PlaceEquips
<1> QED BY <1>1, <1>2, NextCandidateKeeps, PromiselessGoes

(* A table that is placed is taken from the inventory; it is no tool.      *)
LEMMA PlaceClicksStep == ASSUME IInv, PlaceClicks PROVE IInv'
<1> DEFINE f == [top EXCEPT !.pc = "equip", !.tries = @ + 1]
           left == [inventory EXCEPT !["crafting_table"] = @ - 1]
<1>1. /\ stack # <<>> /\ top.fn \in Promiseless
      /\ request' = request /\ aborted' = aborted
      /\ inventory' = left \/ inventory' = inventory
  BY DEF PlaceClicks, At, Acts, script, Promiseless
<1>2. "crafting_table" \notin Tools
  BY RegistryAssumption DEF Tools, ToSet
<1>3. Keeps(inventory, left)
  BY <1>2, NoToolMoves DEF IInv
<1> HIDE DEF left
<1>4. Steady
  BY <1>1, <1>3, CountsKept DEF Steady, IInv
<1>5. NextCandidate \/ (\E answer : Returns(answer)) \/ Becomes(f)
  BY DEF PlaceClicks
<1>6. PlainFrame(f)
  BY <1>1, PromiselessTop DEF IsFrame, Fields
<1> HIDE DEF f
<1> QED BY <1>1, <1>4, <1>5, <1>6, NextCandidateKeeps, PromiselessTop, PlainStepKeeps
       DEF PlainStep

LEMMA PlaceGivesUpStep == ASSUME IInv, PlaceGivesUp PROVE IInv'
<1>1. Steady /\ stack # <<>> /\ top.fn \in Promiseless
  BY ComputesIsSteady DEF PlaceGivesUp, At, Promiseless
<1> QED BY <1>1, PromiselessReturns DEF PlaceGivesUp

(* An error of a capability proves nothing.                                *)
LEMMA ErrorProvesNothing ==
  ASSUME NEW code, code # "ok"
  PROVE  Proven(Unspoken(code)).code # "ok"
<1> PICK said : said = Unspoken(code)
  OBVIOUS
<1>1. said.says = "unsupported_capability" /\ said.code = code
  BY DEF Unspoken, Thrown, Answer
<1> QED BY <1>1 DEF Proven, Failure, Answer

LEMMA EquipEnterStep == ASSUME IInv, EquipEnter PROVE IInv'
<1> DEFINE f == [[top EXCEPT !.pc = "hold"] EXCEPT !.late = aborted]
<1>1. Steady /\ inventory' = inventory /\ stack # <<>> /\ top.fn = "equip"
  BY ComputesIsSteady DEF EquipEnter, At
<1>2. \/ Returns(AlreadyEquipped)
      \/ \E code \in {"aborted", "missing_item"} : Returns(Unspoken(code))
      \/ Becomes(f) /\ aborted = FALSE /\ inventory[top.item] > 0
  BY DEF EquipEnter, Refused, Begins, MayBegin, IInv, ScriptInv
<1>3. CASE Returns(AlreadyEquipped)
  <2>1. Returning(top, inventory', AlreadyEquipped)
    BY <1>1 DEF Returning, Proven, Failure, Answer
  <2> QED BY <1>1, <1>3, <2>1, ReturnsStep
<1>4. ASSUME NEW code, code # "ok", Returns(Unspoken(code)) PROVE IInv'
  <2>1. Returning(top, inventory', Unspoken(code))
    <3>1. Proven(Unspoken(code)).code # "ok"
      BY <1>4, ErrorProvesNothing
    <3> QED BY <1>1, <3>1 DEF Returning
  <2> QED BY <1>1, <1>4, <2>1, ReturnsStep
<1>5. CASE Becomes(f) /\ aborted = FALSE /\ inventory[top.item] > 0
  <2>1. IsFrame(top)
    BY <1>1, TopIsSound DEF Sound
  <2>2. IsFrame(f) /\ f.fn = "equip" /\ f.pc = "hold" /\ f.item = top.item /\ f.late = FALSE
    BY <1>1, <1>5, <2>1 DEF IsFrame, Fields
  <2> HIDE DEF f
  <2>3. Sound(f, request, inventory') /\ TopSound(f, request, inventory', ret)
    BY <1>1, <1>5, <2>2 DEF Sound, TopSound, Digging
  <2> QED BY <1>1, <1>5, <2>2, <2>3, BecomesStep DEF KeepsPlace
<1> QED BY <1>2, <1>3, <1>4, <1>5

(* An equip that took hold leaves the item in the inventory.               *)
LEMMA EquipHoldsStep == ASSUME IInv, EquipHolds PROVE IInv'
<1>1. Steady /\ inventory' = inventory /\ stack # <<>> /\ top.fn = "equip" /\ top.pc = "hold"
  BY CountsKept DEF EquipHolds, At, IInv, Acts, script, Steady
<1>2. inventory[top.item] > 0
  BY <1>1, TopIsSound DEF TopSound
<1>3. CASE Returns(Ok)
  BY <1>1, <1>2, <1>3, ReturnsStep DEF Returning
<1>4. CASE Returns(Unspoken("runtime_equip_failed"))
  BY <1>1, <1>2, <1>4, ReturnsStep DEF Returning
<1> QED BY <1>3, <1>4 DEF EquipHolds

LEMMA MineEnterStep == ASSUME IInv, MineEnter PROVE IInv'
<1> DEFINE f == [[top EXCEPT !.pc = "dig"] EXCEPT !.late = aborted]
<1>1. Steady /\ inventory' = inventory /\ stack # <<>> /\ top.fn = "mine"
  BY ComputesIsSteady DEF MineEnter, At
<1>2. \/ \E answer : Returns(answer)
      \/ Becomes(f) /\ aborted = FALSE /\ top.item \in Minable
  BY DEF MineEnter, Refused, Begins, MayBegin, IInv, ScriptInv
<1>3. CASE \E answer : Returns(answer)
  BY <1>1, <1>3, PlainStepKeeps DEF PlainStep
<1>4. CASE Becomes(f) /\ aborted = FALSE /\ top.item \in Minable
  <2>1. Sound(top, request, inventory)
    BY <1>1, TopIsSound
  <2>2. IsFrame(f) /\ f.fn = "mine" /\ f.pc = "dig" /\ f.item = top.item /\ f.late = FALSE
    BY <1>1, <1>4, <2>1 DEF Sound, IsFrame, Fields
  <2> HIDE DEF f
  <2>3. Sound(f, request, inventory') /\ TopSound(f, request, inventory', ret)
    BY <1>1, <1>4, <2>1, <2>2 DEF Sound, TopSound, Digging
  <2> QED BY <1>1, <1>4, <2>2, <2>3, BecomesStep DEF KeepsPlace
<1> QED BY <1>2, <1>3, <1>4

(* What falls is no tool.                                                  *)
LEMMA MineDigsStep == ASSUME IInv, MineDigs PROVE IInv'
<1>1. /\ stack # <<>> /\ top.fn = "mine" /\ top.pc = "dig"
      /\ request' = request /\ aborted' = aborted
  BY DEF MineDigs, At, Acts, script
<1>2. Sound(top, request, inventory)
  BY <1>1, TopIsSound
<1>3. Drops[top.item] \subseteq Items \ Tools
  BY <1>1, <1>2, RegistryAssumption, ToolchainAssumption DEF Sound
<1>4. PICK drop \in Drops[top.item] : UNCHANGED inventory \/ \E k : Gains(drop, k)
  BY ZenonT(30) DEF MineDigs
<1>5. Steady
  <2>1. ASSUME NEW k, Gains(drop, k) PROVE Keeps(inventory, inventory')
    BY <1>3, <2>1, NoToolMoves DEF Gains, IInv
  <2> QED BY <1>1, <1>4, <2>1, CountsKept DEF Steady, IInv
<1>6. (\E answer : Returns(answer)) \/ (\E k : Becomes([top EXCEPT !.n = @ - k]))
  BY ZenonT(30) DEF MineDigs
<1>7. CASE \E answer : Returns(answer)
  BY <1>1, <1>5, <1>7, PlainStepKeeps DEF PlainStep
<1>8. ASSUME NEW k, Becomes([top EXCEPT !.n = @ - k]) PROVE IInv'
  <2> DEFINE f == [top EXCEPT !.n = @ - k]
  <2>1. IsFrame(f) /\ f.fn = "mine" /\ f.pc = "dig" /\ f.item = top.item /\ f.late = FALSE
    BY <1>1, <1>2 DEF Sound, IsFrame, Fields
  <2>2. Sound(top, request, inventory')
    BY <1>2, <1>5, SoundStays DEF Steady, IInv
  <2> HIDE DEF f
  <2>3. Sound(f, request, inventory') /\ TopSound(f, request, inventory', ret)
    BY <1>1, <2>1, <2>2 DEF Sound, TopSound, Digging
  <2>4. Becomes(f)
    BY <1>8 DEF f
  <2> QED BY <1>1, <1>5, <2>1, <2>3, <2>4, BecomesStep DEF KeepsPlace
<1> QED BY <1>6, <1>7, <1>8

LEMMA LogsAreNoTools == ASSUME NEW log \in LogItems PROVE log \notin Tools
BY RegistryAssumption DEF LogItems

LEMMA CutEnterStep == ASSUME IInv, CutEnter PROVE IInv'
<1> DEFINE f == [[top EXCEPT !.pc = "fell"] EXCEPT !.late = aborted]
<1>1. Steady /\ stack # <<>> /\ top.fn \in Promiseless
  BY ComputesIsSteady DEF CutEnter, At, Promiseless
<1>2. (\E answer : Returns(answer)) \/ (Becomes(f) /\ aborted = FALSE)
  BY DEF CutEnter, Refused, Begins, MayBegin, IInv, ScriptInv
<1>3. aborted = FALSE => PlainFrame(f)
  BY <1>1, PromiselessTop DEF IsFrame, Fields
<1> HIDE DEF f
<1> QED BY <1>1, <1>2, <1>3, PromiselessTop, PlainStepKeeps DEF PlainStep

LEMMA CutFellsStep == ASSUME IInv, CutFells PROVE IInv'
<1>1. /\ stack # <<>> /\ top.fn \in Promiseless /\ top.pc = "fell"
      /\ request' = request /\ aborted' = aborted
  BY DEF CutFells, At, Acts, script, Promiseless
<1>2. UNCHANGED inventory \/ \E log \in LogItems, k \in LogsPerTree : Gains(log, k)
  BY ZenonT(30) DEF CutFells
<1>3. Steady
  <2>1. ASSUME NEW log \in LogItems, NEW k, Gains(log, k) PROVE Keeps(inventory, inventory')
    BY <2>1, LogsAreNoTools, NoToolMoves DEF Gains, IInv
  <2> QED BY <1>1, <1>2, <2>1, CountsKept DEF Steady, IInv
<1>4. \/ \E answer : Returns(answer)
      \/ \E k : Becomes([top EXCEPT !.n = @ - k])
      \/ Goes("fell")
  BY ZenonT(30) DEF CutFells
<1>5. ASSUME NEW k, Becomes([top EXCEPT !.n = @ - k]) PROVE IInv'
  <2> DEFINE f == [top EXCEPT !.n = @ - k]
  <2>1. PlainFrame(f)
    BY <1>1, PromiselessTop DEF IsFrame, Fields
  <2> HIDE DEF f
  <2>2. Becomes(f)
    BY <1>5 DEF f
  <2> QED BY <1>1, <1>3, <2>1, <2>2, PromiselessTop, PlainStepKeeps DEF PlainStep
<1> QED BY <1>1, <1>3, <1>4, <1>5, PromiselessReturns, PromiselessGoes

LEMMA CollectEnterStep == ASSUME IInv, CollectEnter PROVE IInv'
<1> DEFINE f == [[top EXCEPT !.pc = "pick"] EXCEPT !.late = aborted]
<1>1. Steady /\ stack # <<>> /\ top.fn \in Promiseless
  BY ComputesIsSteady DEF CollectEnter, At, Promiseless
<1>2. (\E answer : Returns(answer)) \/ (Becomes(f) /\ aborted = FALSE)
  BY DEF CollectEnter, Refused, Begins, MayBegin, IInv, ScriptInv
<1>3. aborted = FALSE => PlainFrame(f)
  BY <1>1, PromiselessTop DEF IsFrame, Fields
<1> HIDE DEF f
<1> QED BY <1>1, <1>2, <1>3, PromiselessTop, PlainStepKeeps DEF PlainStep

LEMMA CollectPicksStep == ASSUME IInv, CollectPicks PROVE IInv'
<1>1. /\ stack # <<>> /\ top.fn \in Promiseless /\ Returns(Ok)
      /\ request' = request /\ aborted' = aborted
      /\ UNCHANGED inventory \/ \E log \in LogItems : Gains(log, 1)
  BY DEF CollectPicks, At, Acts, script, Promiseless
<1>2. Steady
  <2>1. ASSUME NEW log \in LogItems, Gains(log, 1) PROVE Keeps(inventory, inventory')
    BY <2>1, LogsAreNoTools, NoToolMoves DEF Gains, IInv
  <2> QED BY <1>1, <2>1, CountsKept DEF Steady, IInv
<1> QED BY <1>1, <1>2, PromiselessReturns

-----------------------------------------------------------------------------
(* The steps of the recovery.                                              *)

(* A call that waits, and the frame it starts.                             *)
LEMMA PlainCalls ==
  ASSUME IInv, stack # <<>>, Steady, top.fn \in Promiseless,
         NEW f, PlainFrame(f), NEW pc \in Waits, Calls(f, pc)
  PROVE  IInv'
<1> DEFINE g == [top EXCEPT !.pc = pc]
<1>1. PlainFrame(g) /\ g.pc \in Waits
  BY PromiselessMoves DEF Waits
<1>2. stack' = <<f, g>> \o Tail(stack) /\ ret' = ret
  BY DEF Calls
<1> HIDE DEF g
<1> QED BY <1>1, <1>2, PromiselessTop, PlainStepKeeps DEF PlainStep

LEMMA NewIsPlain ==
  ASSUME NEW fn, fn # "mine", NEW item, NEW n
  PROVE  PlainFrame(Frame(fn, item, n))
BY DEF PlainFrame, Frame, IsFrame, Fields

LEMMA EquipToolStepKeeps == ASSUME IInv, EquipToolStep PROVE IInv'
<1>1. Steady /\ inventory' = inventory /\ stack # <<>> /\ top.fn = "equipTool"
  BY ComputesIsSteady DEF EquipToolStep, At
<1>2. Sound(top, request, inventory) /\ TopSound(top, request, inventory, ret)
  BY <1>1, TopIsSound
<1> DEFINE g(pc) == [top EXCEPT !.pc = pc]
<1>3. \A pc : /\ IsFrame(g(pc)) /\ g(pc).fn = "equipTool" /\ g(pc).pc = pc
              /\ g(pc).item = top.item /\ g(pc).late = FALSE
  BY <1>1, <1>2, Moved DEF Sound
<1>4. \A pc : Sound(g(pc), request, inventory')
  BY <1>3 DEF Sound, Digging
<1>5. CASE Calls(Make(top.item), "made")
  <2>1. PlainFrame(Make(top.item))
    BY NewIsPlain DEF Make
  <2>2. Below(g("made"), Make(top.item), request)
    BY <1>3 DEF Below, Waits, Digging
  <2>3. stack' = <<Make(top.item), g("made")>> \o Tail(stack) /\ ret' = ret
    BY <1>5 DEF Calls
  <2>4. KeepsPlace(top, g("made"))
    BY <1>1, <1>3 DEF KeepsPlace
  <2> HIDE DEF g
  <2> QED BY <1>1, <1>4, <2>1, <2>2, <2>3, <2>4, PlainIsSound, CallsStep
<1>6. CASE Calls(EquipCall(top.item), "equipped")
  <2>1. PlainFrame(EquipCall(top.item))
    BY NewIsPlain DEF EquipCall
  <2>2. EquipCall(top.item).fn = "equip" /\ EquipCall(top.item).item = top.item
    BY DEF EquipCall, Frame
  <2>3. Below(g("equipped"), EquipCall(top.item), request)
    BY <1>3, <2>2 DEF Below, Waits, Digging
  <2>4. stack' = <<EquipCall(top.item), g("equipped")>> \o Tail(stack) /\ ret' = ret
    BY <1>6 DEF Calls
  <2>5. KeepsPlace(top, g("equipped"))
    BY <1>1, <1>3 DEF KeepsPlace
  <2> HIDE DEF g
  <2> QED BY <1>1, <1>4, <2>1, <2>3, <2>4, <2>5, PlainIsSound, CallsStep
<1>7. CASE ~ Succeeded /\ Returns(ret)
  BY <1>1, <1>7, ReturnsStep DEF Returning, Succeeded
<1>8. CASE At("equipTool", "equipped") /\ Returns(Proven(ret))
  <2>1. Proven(ret).code = "ok" => inventory[top.item] > 0
    BY <1>2, <1>8 DEF TopSound, At
  <2> QED BY <1>1, <1>8, <2>1, ReturnsStep DEF Returning
<1> QED BY <1>5, <1>6, <1>7, <1>8 DEF EquipToolStep

LEMMA MakeCraftsStep == ASSUME IInv, MakeCrafts PROVE IInv'
<1>1. Steady /\ stack # <<>> /\ top.fn \in Promiseless
  BY ComputesIsSteady DEF MakeCrafts, At, Promiseless
<1>2. PlainFrame(CraftCall(top.item, 1)) /\ "crafted" \in Waits
  BY NewIsPlain DEF CraftCall, Waits
<1> QED BY <1>1, <1>2, PlainCalls, PromiselessReturns DEF MakeCrafts

LEMMA MaterialsArePlain ==
  ASSUME NEW demands
  PROVE  PlainFrame(Materials(demands))
<1>1. PICK e : e = Frame("materials", "any", 1)
  OBVIOUS
<1>2. IsFrame(e) /\ e.fn = "materials" /\ e.pc = "enter" /\ e.late = FALSE
  BY <1>1 DEF Frame, IsFrame, Fields
<1>3. PICK f : f = [e EXCEPT !.todo = demands]
  OBVIOUS
<1>4. IsFrame(f) /\ f.fn = "materials" /\ f.pc = "enter" /\ f.late = FALSE
  BY <1>2, <1>3 DEF IsFrame, Fields
<1>5. f = Materials(demands)
  BY <1>1, <1>3 DEF Materials
<1> QED BY <1>4, <1>5 DEF PlainFrame

LEMMA MakeRecoversStep == ASSUME IInv, MakeRecovers PROVE IInv'
<1> DEFINE f == [top EXCEPT !.pc = "enter", !.tries = @ + 1]
<1>1. Steady /\ stack # <<>> /\ top.fn \in Promiseless
  BY ComputesIsSteady DEF MakeRecovers, At, Promiseless
<1>2. PlainFrame(f)
  BY <1>1, PromiselessTop DEF IsFrame, Fields
<1>3. PlainFrame(PlaceTable) /\ PlainFrame(Materials(ret.demands)) /\ "recovered" \in Waits
  BY NewIsPlain, MaterialsArePlain DEF PlaceTable, Waits
<1>4. \/ Calls(PlaceTable, "recovered") \/ Calls(Materials(ret.demands), "recovered")
      \/ Returns(ret) \/ Becomes(f)
  BY DEF MakeRecovers
<1> HIDE DEF f
<1>5. CASE Becomes(f)
  BY <1>1, <1>2, <1>5, PromiselessTop, PlainStepKeeps DEF PlainStep
<1> QED BY <1>1, <1>3, <1>4, <1>5, PlainCalls, PromiselessReturns

LEMMA TableStepKeeps == ASSUME IInv, TableStep PROVE IInv'
<1>1. Steady /\ stack # <<>> /\ top.fn \in Promiseless
  BY ComputesIsSteady DEF TableStep, At, Promiseless
<1>2. PlainFrame(CraftCall("crafting_table", 1)) /\ PlainFrame(PlaceCall)
      /\ "crafted" \in Waits /\ "placed" \in Waits
  BY NewIsPlain DEF CraftCall, PlaceCall, Waits
<1>3. \/ Calls(CraftCall("crafting_table", 1), "crafted") \/ Calls(PlaceCall, "placed")
      \/ \E answer : Returns(answer)
  BY DEF TableStep
<1> QED BY <1>1, <1>2, <1>3, PlainCalls, PromiselessReturns

LEMMA MaterialsStepKeeps == ASSUME IInv, MaterialsStep PROVE IInv'
<1> DEFINE f == [top EXCEPT !.pc = "enter", !.todo = Tail(@)]
           m == Missing(Head(top.todo).item, Head(top.todo).n)
<1>1. Steady /\ stack # <<>> /\ top.fn \in Promiseless
  BY ComputesIsSteady DEF MaterialsStep, At, Promiseless
<1>2. PlainFrame(f)
  BY <1>1, PromiselessTop DEF IsFrame, Fields
<1>3. PlainFrame(m) /\ "recovered" \in Waits
  BY NewIsPlain DEF Missing, Waits
<1>4. Calls(m, "recovered") \/ (\E answer : Returns(answer)) \/ Becomes(f)
  BY DEF MaterialsStep
<1> HIDE DEF f, m
<1>5. CASE Becomes(f)
  BY <1>1, <1>2, <1>5, PromiselessTop, PlainStepKeeps DEF PlainStep
<1> QED BY <1>1, <1>3, <1>4, <1>5, PlainCalls, PromiselessReturns

LEMMA SourceIsPlain ==
  ASSUME NEW source, NEW item, NEW target, NEW accept
  PROVE  PlainFrame(FromSource(source, item, target, accept))
<1>1. PICK e : e = Frame(IF source.act = "cut" THEN "fell" ELSE "dig", item, target)
  OBVIOUS
<1>2. IsFrame(e) /\ e.fn \in {"fell", "dig"} /\ e.pc = "enter" /\ e.late = FALSE
  BY <1>1 DEF Frame, IsFrame, Fields
<1>3. PICK f : f = [e EXCEPT !.seen = accept, !.at = source.block]
  OBVIOUS
<1>4. IsFrame(f) /\ f.fn \in {"fell", "dig"} /\ f.pc = "enter" /\ f.late = FALSE
  BY <1>2, <1>3 DEF IsFrame, Fields
<1>5. f = FromSource(source, item, target, accept)
  BY <1>1, <1>3 DEF FromSource
<1> QED BY <1>4, <1>5 DEF PlainFrame

LEMMA RecoverMissingStep == ASSUME IInv, RecoverMissing PROVE IInv'
<1>1. Steady /\ stack # <<>> /\ top.fn \in Promiseless
  BY ComputesIsSteady DEF RecoverMissing, At, Promiseless
<1>2. PlainFrame(Make(top.item))
  BY NewIsPlain DEF Make
<1>3. \/ \E answer : Returns(answer)
      \/ Becomes(Make(top.item))
      \/ \E source, target, accept : Becomes(FromSource(source, top.item, target, accept))
  BY ZenonT(30) DEF RecoverMissing
<1> QED BY <1>1, <1>2, <1>3, SourceIsPlain, PromiselessTop, PlainStepKeeps DEF PlainStep

LEMMA ProvideStepKeeps == ASSUME IInv, ProvideStep PROVE IInv'
<1>1. Steady /\ stack # <<>> /\ top.fn \in Promiseless
  BY ComputesIsSteady DEF ProvideStep, At, Promiseless
<1>2. PlainFrame(Make(top.item))
  BY NewIsPlain DEF Make
<1>3. \/ \E answer : Returns(answer)
      \/ Becomes(Make(top.item))
      \/ \E source, target, accept : Becomes(FromSource(source, top.item, target, accept))
  BY ZenonT(30) DEF ProvideStep
<1> QED BY <1>1, <1>2, <1>3, SourceIsPlain, PromiselessTop, PlainStepKeeps DEF PlainStep

(* A block that asks for no tool is dug at once, any other once the tool    *)
(* it yields to is held.                                                   *)
LEMMA DigStepKeeps == ASSUME IInv, DigStep PROVE IInv'
<1> DEFINE tool == RequiredEquipment(inventory, top.at)
           counted == [top EXCEPT !.tries = DigMissing]
           dug == [counted EXCEPT !.pc = "mine"]
           waiting == [counted EXCEPT !.pc = "equipped"]
<1>1. Steady /\ inventory' = inventory /\ stack # <<>> /\ Digging(top)
  BY ComputesIsSteady DEF DigStep, At, Digging
<1>2. Sound(top, request, inventory) /\ TopSound(top, request, inventory, ret)
  BY <1>1, TopIsSound
<1>3. /\ IsFrame(dug) /\ dug.fn = top.fn /\ dug.pc = "mine" /\ dug.at = top.at /\ dug.late = FALSE
      /\ IsFrame(waiting) /\ waiting.fn = top.fn /\ waiting.pc = "equipped"
      /\ waiting.at = top.at /\ waiting.late = FALSE
  BY <1>2 DEF Sound, IsFrame, Fields
<1>4. \/ Becomes(dug) /\ tool = Nothing
      \/ stack' = <<EquipTool(tool), waiting>> \o Tail(stack) /\ ret' = ret /\ tool # Nothing
      \/ Goes("mine") /\ Succeeded /\ top.pc = "equipped"
      \/ Calls(MineCall(top.at, top.tries), "mined") /\ top.pc = "mine"
      \/ \E answer : Returns(answer)
  BY ZenonT(30) DEF DigStep, At
<1>5. \/ tool = Nothing /\ ToolsFor(top.at) = {}
      \/ tool # Nothing /\ tool \in ToolsFor(top.at)
  BY AskedForTool
<1> HIDE DEF tool, dug, waiting
<1>6. CASE Becomes(dug) /\ tool = Nothing
  <2>1. Sound(dug, request, inventory') /\ TopSound(dug, request, inventory', ret)
    BY <1>1, <1>3, <1>5, <1>6 DEF Sound, TopSound, Digging, ToolIn
  <2> QED BY <1>1, <1>6, <2>1, BecomesStep DEF KeepsPlace, Digging
<1>7. CASE stack' = <<EquipTool(tool), waiting>> \o Tail(stack) /\ ret' = ret /\ tool # Nothing
  <2>1. PlainFrame(EquipTool(tool))
    BY NewIsPlain DEF EquipTool
  <2>2. EquipTool(tool).fn = "equipTool" /\ EquipTool(tool).item = tool
    BY DEF EquipTool, Frame
  <2>3. Sound(waiting, request, inventory')
    BY <1>1, <1>3 DEF Sound, Digging
  <2>4. Below(waiting, EquipTool(tool), request)
    BY <1>1, <1>3, <1>5, <1>7, <2>2 DEF Below, Waits, Digging
  <2> QED BY <1>1, <1>7, <2>1, <2>3, <2>4, PlainIsSound, CallsStep DEF KeepsPlace, Digging
<1>8. CASE Goes("mine") /\ Succeeded /\ top.pc = "equipped"
  <2> DEFINE g == [top EXCEPT !.pc = "mine"]
  <2>1. IsFrame(g) /\ g.fn = top.fn /\ g.pc = "mine" /\ g.at = top.at /\ g.late = FALSE
    BY <1>2, Moved DEF Sound
  <2>2. ToolIn(inventory, top.at)
    BY <1>1, <1>2, <1>8 DEF TopSound, Succeeded
  <2>3. Becomes(g)
    BY <1>8 DEF Goes
  <2> HIDE DEF g
  <2>4. Sound(g, request, inventory') /\ TopSound(g, request, inventory', ret)
    BY <1>1, <2>1, <2>2 DEF Sound, TopSound, Digging
  <2> QED BY <1>1, <2>3, <2>4, BecomesStep DEF KeepsPlace, Digging
<1>9. CASE Calls(MineCall(top.at, top.tries), "mined") /\ top.pc = "mine"
  <2> DEFINE g == [top EXCEPT !.pc = "mined"]
             f == MineCall(top.at, top.tries)
  <2>1. IsFrame(g) /\ g.fn = top.fn /\ g.pc = "mined" /\ g.at = top.at /\ g.late = FALSE
    BY <1>2, Moved DEF Sound
  <2>2. IsFrame(f) /\ f.fn = "mine" /\ f.pc = "enter" /\ f.item = top.at /\ f.late = FALSE
    BY DEF MineCall, Frame, IsFrame, Fields
  <2>3. stack' = <<f, g>> \o Tail(stack) /\ ret' = ret
    BY <1>9 DEF Calls
  <2> HIDE DEF f, g
  <2>4. Sound(f, request, inventory') /\ TopSound(f, request, inventory', ret)
    BY <1>1, <1>2, <1>9, <2>2 DEF Sound, TopSound, Digging
  <2>5. Sound(g, request, inventory') /\ Below(g, f, request)
    BY <1>1, <2>1 DEF Sound, Below, Waits, Digging
  <2> QED BY <1>1, <2>3, <2>4, <2>5, CallsStep DEF KeepsPlace, Digging
<1>10. CASE \E answer : Returns(answer)
  BY <1>1, <1>10, PlainStepKeeps DEF PlainStep, Digging
<1> QED BY <1>4, <1>6, <1>7, <1>8, <1>9, <1>10

LEMMA FellStepKeeps == ASSUME IInv, FellStep PROVE IInv'
<1>1. Steady /\ stack # <<>> /\ top.fn \in Promiseless
  BY ComputesIsSteady DEF FellStep, At, Promiseless
<1>2. /\ PlainFrame(CutCall(top.n - Held(inventory, top.seen))) /\ PlainFrame(CollectCall)
      /\ "cut" \in Waits /\ "collected" \in Waits
  BY NewIsPlain DEF CutCall, CollectCall, Waits
<1>3. \/ Calls(CutCall(top.n - Held(inventory, top.seen)), "cut")
      \/ Calls(CollectCall, "collected")
      \/ \E answer : Returns(answer)
  BY ZenonT(30) DEF FellStep
<1> QED BY <1>1, <1>2, <1>3, PlainCalls, PromiselessReturns

-----------------------------------------------------------------------------
(* The steps of the script.                                                *)

LEMMA EnsureEndsKeeps ==
  ASSUME IInv, request' = request, aborted' \in BOOLEAN, Keeps(inventory, inventory'),
         stack' = <<>>
  PROVE  IInv'
BY DEF IInv, ScriptInv, ChainInv, Chain, Keeps

(* The ensure moves on with its tool seen to.                              *)
LEMMA EnsureBecomes ==
  ASSUME IInv, stack # <<>>, top.fn = "ensure", Steady, Prepared(request, inventory'),
         NEW f, IsFrame(f), f.fn = "ensure", f.late = FALSE, f.pc # "preflighted", Becomes(f)
  PROVE  IInv'
<1>1. Sound(f, request, inventory') /\ TopSound(f, request, inventory', ret)
  BY DEF Sound, TopSound, Digging
<1> QED BY <1>1, BecomesStep DEF KeepsPlace

(* What an ensure calls: only its own action digs at once, and then a block *)
(* whose tool is seen to, if it is the block it asks the drop of.          *)
LEMMA EnsureCalls ==
  ASSUME IInv, stack # <<>>, top.fn = "ensure", Steady, inventory' = inventory,
         Prepared(request, inventory), NEW f, Sound(f, request, inventory), f.pc = "enter",
         NEW pc \in {"acted", "recovered"}, Calls(f, pc)
  PROVE  IInv'
<1> DEFINE g == [top EXCEPT !.pc = pc]
<1>1. Sound(top, request, inventory)
  BY TopIsSound
<1>2. IsFrame(g) /\ g.fn = "ensure" /\ g.pc = pc /\ g.late = FALSE
  BY <1>1, Moved, SMTT(30) DEF Sound
<1>3. stack' = <<f, g>> \o Tail(stack) /\ ret' = ret
  BY DEF Calls
<1> HIDE DEF g
<1>4. Sound(g, request, inventory') /\ Below(g, f, request)
  BY <1>2 DEF Sound, Below, Waits, Digging
<1>5. TopSound(f, request, inventory', ret)
  BY DEF TopSound, Digging
<1> QED BY <1>3, <1>4, <1>5, CallsStep DEF KeepsPlace

LEMMA EnsurePreflightStep == ASSUME IInv, EnsurePreflight PROVE IInv'
<1> DEFINE tool == IF request.until = "gainedDropOf"
                   THEN RequiredEquipment(inventory, request.name) ELSE Nothing
           g == [top EXCEPT !.pc = "preflighted"]
           h == [top EXCEPT !.pc = "baseline"]
<1>1. /\ stack # <<>> /\ top.fn = "ensure" /\ inventory' = inventory
      /\ request' = request /\ aborted' = aborted
  BY DEF EnsurePreflight, InScript, At, world, script
<1>2. Steady
  BY <1>1, CountsKept DEF Steady, IInv
<1>3. Sound(top, request, inventory) /\ TopSound(top, request, inventory, ret)
  BY <1>1, TopIsSound
<1>4. /\ IsFrame(g) /\ g.fn = "ensure" /\ g.pc = "preflighted" /\ g.late = FALSE
      /\ IsFrame(h) /\ h.fn = "ensure" /\ h.pc = "baseline" /\ h.late = FALSE
  BY <1>1, <1>3, Moved, SMTT(30) DEF Sound
<1>5. \/ Becomes(h) /\ tool = Nothing
      \/ stack' = <<EquipTool(tool), g>> \o Tail(stack) /\ ret' = ret /\ tool # Nothing
      \/ Becomes(h) /\ Succeeded /\ top.pc = "preflighted"
      \/ stack' = <<>>
  BY DEF EnsurePreflight, InScript, At, Goes, Calls, Ends
<1>6. tool = Nothing => Prepared(request, inventory)
  BY AskedForTool DEF Prepared, ToolIn
<1>7. tool # Nothing => tool \in ToolsFor(request.name)
  BY AskedForTool
<1> HIDE DEF tool, g, h
<1>8. CASE Becomes(h) /\ tool = Nothing
  BY <1>1, <1>2, <1>4, <1>6, <1>8, EnsureBecomes
<1>9. CASE stack' = <<EquipTool(tool), g>> \o Tail(stack) /\ ret' = ret /\ tool # Nothing
  <2>1. PlainFrame(EquipTool(tool))
    BY NewIsPlain DEF EquipTool
  <2>2. EquipTool(tool).fn = "equipTool" /\ EquipTool(tool).item = tool
    BY DEF EquipTool, Frame
  <2>3. Sound(g, request, inventory') /\ Below(g, EquipTool(tool), request)
    BY <1>4, <1>7, <1>9, <2>2 DEF Sound, Below, Waits, Digging
  <2> QED BY <1>1, <1>2, <1>9, <2>1, <2>3, PlainIsSound, CallsStep DEF KeepsPlace
<1>10. CASE Becomes(h) /\ Succeeded /\ top.pc = "preflighted"
  <2>1. Prepared(request, inventory)
    BY <1>1, <1>3, <1>10 DEF TopSound, Succeeded
  <2> QED BY <1>1, <1>2, <1>4, <1>10, <2>1, EnsureBecomes
<1>11. CASE stack' = <<>>
  BY <1>1, <1>2, <1>11, EnsureEndsKeeps DEF Steady, IInv, ScriptInv
<1> QED BY <1>5, <1>8, <1>9, <1>10, <1>11

(* Past its preflight the ensure holds the tool.                           *)
LEMMA PastPreflight ==
  ASSUME IInv, stack # <<>>, top.fn = "ensure", top.pc \notin {"enter", "preflighted"}
  PROVE  IsFrame(top) /\ top.late = FALSE /\ Prepared(request, inventory)
BY TopIsSound DEF Sound

LEMMA EnsureBaselineStep == ASSUME IInv, EnsureBaseline PROVE IInv'
<1> DEFINE f == [top EXCEPT !.pc = "act"]
<1>1. /\ stack # <<>> /\ top.fn = "ensure" /\ top.pc = "baseline" /\ inventory' = inventory
      /\ request' = request /\ aborted' = aborted /\ Becomes(f)
  BY DEF EnsureBaseline, InScript, At, world, script, Goes
<1>2. Steady
  BY <1>1, CountsKept DEF Steady, IInv
<1>3. IsFrame(top) /\ top.late = FALSE /\ Prepared(request, inventory)
  BY <1>1, PastPreflight
<1>4. IsFrame(f) /\ f.fn = "ensure" /\ f.pc = "act" /\ f.late = FALSE
  BY <1>1, <1>3, Moved
<1> HIDE DEF f
<1> QED BY <1>1, <1>2, <1>3, <1>4, EnsureBecomes

LEMMA ActionIsSound ==
  ASSUME IInv, Prepared(request, inventory)
  PROVE  Sound(Action, request, inventory) /\ Action.pc = "enter"
<1>1. request.act \in {"craft", "mine", "equip", "place", "cut"}
  BY ToolchainAssumption DEF IInv, ScriptInv
<1>2. CASE request.act = "mine"
  <2>1. Action = Frame("mine", request.item, request.n)
    BY <1>2 DEF Action, MineCall
  <2>2. PICK f : f = Action
    OBVIOUS
  <2>3. IsFrame(f) /\ f.fn = "mine" /\ f.pc = "enter" /\ f.item = request.item /\ f.late = FALSE
    BY <2>1, <2>2 DEF Frame, IsFrame, Fields
  <2>4. Asks(request) => ToolIn(inventory, request.item)
    BY <1>2 DEF Asks, Prepared
  <2> QED BY <2>2, <2>3, <2>4 DEF Sound, Digging
<1>3. CASE request.act # "mine"
  <2>1. Action \in {CraftCall(request.item, request.n), EquipCall(request.item), PlaceCall,
                    CutCall(request.n)}
    BY <1>1, <1>3 DEF Action
  <2>2. PlainFrame(Action)
    BY <2>1, NewIsPlain DEF CraftCall, EquipCall, PlaceCall, CutCall
  <2>3. Action.pc = "enter"
    BY <2>1 DEF CraftCall, EquipCall, PlaceCall, CutCall, Frame
  <2> QED BY <2>2, <2>3, PlainIsSound
<1> QED BY <1>2, <1>3

LEMMA EnsureActsStep == ASSUME IInv, EnsureActs PROVE IInv'
<1>1. /\ stack # <<>> /\ top.fn = "ensure" /\ top.pc = "act" /\ inventory' = inventory
      /\ request' = request /\ aborted' = aborted
      /\ Calls(Action, "acted") \/ stack' = <<>>
  BY DEF EnsureActs, InScript, At, world, script, Ends
<1>2. Steady
  BY <1>1, CountsKept DEF Steady, IInv
<1>3. Prepared(request, inventory)
  BY <1>1, PastPreflight
<1>4. Sound(Action, request, inventory) /\ Action.pc = "enter"
  BY <1>3, ActionIsSound
<1>5. CASE Calls(Action, "acted")
  BY <1>1, <1>2, <1>3, <1>4, <1>5, EnsureCalls
<1>6. CASE stack' = <<>>
  BY <1>1, <1>2, <1>6, EnsureEndsKeeps DEF Steady, IInv, ScriptInv
<1> QED BY <1>1, <1>5, <1>6

LEMMA DropIsPlain ==
  ASSUME NEW block, NEW n
  PROVE  PlainFrame(BlockDrop(block, n)) /\ BlockDrop(block, n).pc = "enter"
<1>1. PICK e : e = Frame("drop", block, n)
  OBVIOUS
<1>2. IsFrame(e) /\ e.fn = "drop" /\ e.pc = "enter" /\ e.late = FALSE
  BY <1>1 DEF Frame, IsFrame, Fields
<1>3. PICK f : f = [e EXCEPT !.at = block]
  OBVIOUS
<1>4. IsFrame(f) /\ f.fn = "drop" /\ f.pc = "enter" /\ f.late = FALSE
  BY <1>2, <1>3 DEF IsFrame, Fields
<1>5. f = BlockDrop(block, n)
  BY <1>1, <1>3 DEF BlockDrop
<1> QED BY <1>4, <1>5 DEF PlainFrame

(* What a plan calls for carries no promise.                               *)
LEMMA PlanIsPlain ==
  ASSUME IInv, NEW failure, Plan(failure) # <<>>
  PROVE  PlainFrame(Head(Plan(failure))) /\ Head(Plan(failure)).pc = "enter"
<1>1. request.until \in {"has", "gained", "gainedDropOf", "equipped", "placed"}
  BY ToolchainAssumption DEF IInv, ScriptInv
<1>2. PlainFrame(GapPlan) /\ GapPlan.pc = "enter"
  <2>1. \/ \E item, n : GapPlan = Frame("provide", item, n)
        \/ \E block, n : GapPlan = BlockDrop(block, n)
        \/ \E item : GapPlan = Frame("equipTool", item, 1)
        \/ GapPlan = Frame("place", "crafting_table", Candidates)
    BY <1>1 DEF GapPlan, Provide, EquipTool, PlaceCall
  <2>2. \A fn, item, n : Frame(fn, item, n).pc = "enter"
    BY DEF Frame
  <2> QED BY <2>1, <2>2, NewIsPlain, DropIsPlain
<1>3. ASSUME NEW item PROVE PlainFrame(EquipTool(item)) /\ EquipTool(item).pc = "enter"
  <2>1. EquipTool(item).pc = "enter"
    BY DEF EquipTool, Frame
  <2> QED BY <2>1, NewIsPlain DEF EquipTool
<1>4. PlainFrame(PlaceTable) /\ PlaceTable.pc = "enter"
  <2>1. PlaceTable.pc = "enter"
    BY DEF PlaceTable, Frame
  <2> QED BY <2>1, NewIsPlain DEF PlaceTable
<1>5. ASSUME NEW demands PROVE PlainFrame(Materials(demands)) /\ Materials(demands).pc = "enter"
  <2>1. Materials(demands).pc = "enter"
    BY DEF Materials, Frame
  <2> QED BY <2>1, MaterialsArePlain
<1>6. \/ \E item : Plan(failure) = <<EquipTool(item)>>
      \/ Plan(failure) = <<PlaceTable>>
      \/ \E demands : Plan(failure) = <<Materials(demands)>>
      \/ Plan(failure) = <<GapPlan>>
  BY ZenonT(30) DEF Plan
<1>7. \A f : Head(<<f>>) = f
  OBVIOUS
<1> QED BY <1>2, <1>3, <1>4, <1>5, <1>6, <1>7

LEMMA RecoversKeeps ==
  ASSUME IInv, stack # <<>>, top.fn = "ensure", top.pc \notin {"enter", "preflighted"},
         Steady, inventory' = inventory, NEW failure, Recovers(failure)
  PROVE  IInv'
<1>1. Prepared(request, inventory)
  BY PastPreflight
<1>2. CASE Plan(failure) = <<>>
  BY <1>2, EnsureEndsKeeps DEF Recovers, Ends, Steady, IInv, ScriptInv
<1>3. CASE Plan(failure) # <<>>
  <2>1. PICK f : f = Head(Plan(failure))
    OBVIOUS
  <2>2. Sound(f, request, inventory) /\ f.pc = "enter"
    BY <1>3, <2>1, PlanIsPlain, PlainIsSound
  <2>3. Calls(f, "recovered")
    BY <1>3, <2>1 DEF Recovers
  <2> QED BY <1>1, <2>2, <2>3, EnsureCalls
<1> QED BY <1>2, <1>3

LEMMA EnsureActedStep == ASSUME IInv, EnsureActed PROVE IInv'
<1>1. /\ stack # <<>> /\ top.fn = "ensure" /\ top.pc = "acted" /\ inventory' = inventory
      /\ request' = request /\ aborted' = aborted
      /\ (\E failure : Recovers(failure)) \/ stack' = <<>>
  BY DEF EnsureActed, InScript, At, world, script, Ends
<1>2. Steady
  BY <1>1, CountsKept DEF Steady, IInv
<1>3. CASE \E failure : Recovers(failure)
  BY <1>1, <1>2, <1>3, RecoversKeeps
<1>4. CASE stack' = <<>>
  BY <1>1, <1>2, <1>4, EnsureEndsKeeps DEF Steady, IInv, ScriptInv
<1> QED BY <1>1, <1>3, <1>4

LEMMA EnsureRecoveredStep == ASSUME IInv, EnsureRecovered PROVE IInv'
<1> DEFINE f == [top EXCEPT !.pc = "act", !.tries = @ + 1]
<1>1. /\ stack # <<>> /\ top.fn = "ensure" /\ top.pc = "recovered" /\ inventory' = inventory
      /\ request' = request /\ aborted' = aborted
      /\ Becomes(f) \/ stack' = <<>>
  BY DEF EnsureRecovered, InScript, At, world, script, Ends
<1>2. Steady
  BY <1>1, CountsKept DEF Steady, IInv
<1>3. IsFrame(top) /\ top.late = FALSE /\ Prepared(request, inventory)
  BY <1>1, PastPreflight
<1>4. IsFrame(f) /\ f.fn = "ensure" /\ f.pc = "act" /\ f.late = FALSE
  BY <1>1, <1>3 DEF IsFrame, Fields
<1> HIDE DEF f
<1>5. CASE Becomes(f)
  BY <1>1, <1>2, <1>3, <1>4, <1>5, EnsureBecomes
<1>6. CASE stack' = <<>>
  BY <1>1, <1>2, <1>6, EnsureEndsKeeps DEF Steady, IInv, ScriptInv
<1> QED BY <1>1, <1>5, <1>6

LEMMA ScriptGoneStep == ASSUME IInv, ScriptGone PROVE IInv'
<1>1. Steady /\ stack' = <<>>
  BY ComputesIsSteady DEF ScriptGone
<1> QED BY <1>1, EnsureEndsKeeps DEF Steady, IInv, ScriptInv

-----------------------------------------------------------------------------
(* The steps of the world, and the theorems.                               *)

LEMMA AbortStep == ASSUME IInv, Abort PROVE IInv'
BY DEF IInv, ScriptInv, ChainInv, Abort, world, script

LEMMA TableIsBrokenStep == ASSUME IInv, TableIsBroken PROVE IInv'
BY DEF IInv, ScriptInv, ChainInv, TableIsBroken, Acts, script

LEMMA InitHolds == ASSUME Init PROVE IInv
<1> DEFINE f == Frame("ensure", "any", 1)
<1>1. ScriptInv
  BY DEF Init, ScriptInv
<1>2. Counts(inventory)
  <2>1. Tools \subseteq Items
    BY RegistryAssumption DEF Tools, ToSet
  <2>2. inventory \in [Items -> Nat]
    BY ToolchainAssumption DEF Init
  <2> QED BY <2>1, <2>2 DEF Counts
<1>3. PlainFrame(f)
  BY NewIsPlain
<1>4. stack = <<f>> /\ ret = Ok
  BY DEF Init
<1> HIDE DEF f
<1>5. Sound(f, request, inventory) /\ TopSound(f, request, inventory, ret)
  BY <1>3, PlainIsSound
<1>6. stack \in Seq({f}) /\ Len(stack) = 1 /\ stack[1] = f
  BY <1>4
<1>7. ChainInv
  BY <1>5, <1>6 DEF ChainInv, Chain
<1> QED BY <1>1, <1>2, <1>7 DEF IInv

(***************************************************************************)
(* What is carried along the chain of awaiting calls holds in every state   *)
(* of an ensure: no frame began after the abort, and every promise a call   *)
(* relies on is kept.                                                      *)
(***************************************************************************)
THEOREM Invariance == Spec => []IInv
<1>1. Init => IInv
  BY InitHolds
<1>2. IInv /\ [Next]_vars => IInv'
  <2> SUFFICES ASSUME IInv, [Next]_vars PROVE IInv'
    OBVIOUS
  <2>1. CASE Capability
    BY <2>1, CraftEnterStep, CraftLooksStep, CraftPreparesStep, CraftPreparedStep, CraftRunStep,
       PlaceEnterStep, PlaceCandidateStep, PlaceApproachStep, PlaceEquipsStep, PlaceClicksStep,
       PlaceGivesUpStep, EquipEnterStep, EquipHoldsStep, MineEnterStep, MineDigsStep,
       CutEnterStep, CutFellsStep, CollectEnterStep, CollectPicksStep DEF Capability
  <2>2. CASE Recovery
    BY <2>2, EquipToolStepKeeps, MakeCraftsStep, MakeRecoversStep, TableStepKeeps,
       MaterialsStepKeeps, RecoverMissingStep, ProvideStepKeeps, DigStepKeeps, FellStepKeeps
       DEF Recovery
  <2>3. CASE Ensure
    BY <2>3, EnsurePreflightStep, EnsureBaselineStep, EnsureActsStep, EnsureActedStep,
       EnsureRecoveredStep, ScriptGoneStep DEF Ensure
  <2>4. CASE Abort \/ TableIsBroken
    BY <2>4, AbortStep, TableIsBrokenStep
  <2>5. CASE UNCHANGED vars
    BY <2>5 DEF IInv, ScriptInv, ChainInv, vars, world, script
  <2> QED BY <2>1, <2>2, <2>3, <2>4, <2>5 DEF Next, Proceed
<1> QED BY <1>1, <1>2, PTL DEF Spec

(***************************************************************************)
(* In an ensure that asks for the drop of the block it mines, whatever is   *)
(* dug (by its own action or by a recovery under it) is dug with a tool it  *)
(* yields to: MinesWithTheTool, for every table of recipes, drops and tools.*)
(***************************************************************************)
THEOREM DigsWithTheTool == Spec => []MinesWithTheTool
<1>1. IInv => MinesWithTheTool
  <2> SUFFICES ASSUME IInv, At("mine", "dig"), AsksForItsDrop PROVE RightTool(top.item)
    BY DEF MinesWithTheTool
  <2>1. Sound(top, request, inventory)
    BY TopIsSound DEF At
  <2> QED BY <2>1 DEF Sound, At, AsksForItsDrop, Asks, ToolIn, RightTool
<1> QED BY <1>1, Invariance, PTL

(***************************************************************************)
(* After the interrupt only the capability that was running when it came    *)
(* changes the inventory or the hand: AbortEndsTheChain, for every chain of *)
(* calls and every length of it.                                           *)
(***************************************************************************)
THEOREM NothingBeginsLate == Spec => AbortEndsTheChain
<1>1. ASSUME IInv, [Next]_vars
      PROVE  [aborted /\ <<inventory, hand>> # <<inventory', hand'>> => ~ top.late]_vars
  <2>1. CASE stack # <<>>
    <3>1. top.late = FALSE
      BY <1>1, <2>1, TopIsSound DEF Sound
    <3> QED BY <3>1
  <2>2. CASE stack = <<>>
    <3>1. UNCHANGED vars
      BY <1>1, <2>2 DEF Next, Proceed, Capability, Recovery, Ensure, At, InScript, Abort,
         TableIsBroken, ScriptGone,
         CraftEnter, CraftLooks, CraftPrepares, CraftPrepared, CraftRun,
         PlaceEnter, PlaceCandidate, PlaceApproach, PlaceEquips, PlaceClicks, PlaceGivesUp,
         EquipEnter, EquipHolds, MineEnter, MineDigs, CutEnter, CutFells,
         CollectEnter, CollectPicks, EquipToolStep, MakeCrafts, MakeRecovers, TableStep,
         MaterialsStep, RecoverMissing, ProvideStep, DigStep, FellStep,
         EnsurePreflight, EnsureBaseline, EnsureActs, EnsureActed, EnsureRecovered
    <3> QED BY <3>1
  <2> QED BY <2>1, <2>2
<1> QED BY <1>1, Invariance, PTL DEF Spec, AbortEndsTheChain
=============================================================================
