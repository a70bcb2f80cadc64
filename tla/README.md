# A specification of MC_Servant's ts-core

MC_Servant lets the owner of a Minecraft server talk to a bot. The program is
`src/ts-core` (TypeScript, one Node.js process); the Java mod under
`src/plugin` carries the owner's chat lines to it over a WebSocket. This
directory holds TLA+ modules for the parts of ts-core whose correctness depends
on the order of events, TLC configurations that check them on small instances,
and proofs for every instance of the properties that matter most.

All paths below are relative to `src/ts-core/src` unless they start with `src/`.

## 1. The system

### 1.1 Components

| component | code | state it keeps | operations |
|---|---|---|---|
| server bridge, mod side | `src/plugin/.../OkHttpServerBridgeTransport.java`, `SvsCommand.java` | connection state, newest socket, heartbeat and reconnection tasks, delay | connect, disconnect, /svs, heartbeat, reconnection, the listener's callbacks |
| server bridge, ts-core side | `interfaces/server-bridge/`, `app/entrypoint.ts` 500-604 | per connection: handshake flag, heartbeat timer, window of seen message ids; in Redis: the intent epoch | hello, heartbeat, player_message; stamp, control fast path, enqueue |
| conversation worker | `workers/conversation-worker/` | the BullMQ conversation queue; the message in hand | triage, cancel, chat reply, plan, accepted row, exec job |
| bot worker | `workers/bot-worker.ts`, sink in `app/entrypoint.ts` 802-864 | the BullMQ exec queue; the job in hand; the `task_history` rows | pull, epoch guard, started, executeCode, terminal actions |
| bot actor | `runtime/actor.ts`, `runtime/state-machine.ts` | status, login state, projected task, execution object, chat slot, event log | start, executeCode, broadcastReply, interrupt, shutdown |
| sandbox | `sandbox/execution.ts`, `execution-control.ts`, `host-call.ts` | per execution: terminal error, abort signal, calls in flight, step results, last facade error | run a script, host calls, abort, time limit, cleanup |
| bot transport | `runtime/transport/runtime.ts`, `lifecycle.ts` | the mineflayer bot, connection state, spawned flag | connect, disconnect, the bot's events |
| terrain | `runtime/transport/terrain/` | the positions the bot filled itself; per call a search and a plan | plan a route in up to four phases, execute its walks, digs, drops and placements |
| miner | `runtime/transport/mining/` | per call: rounds, targets, feet tried | look for targets, plan, dig, approach |
| tool chain | `skills/toolchain-ensure/`, `runtime/transport/{craft,placement,equip}.ts`, `sandbox/bootstrap.ts` | per call: attempts, baseline; a cached crafting table | `ensure`, craft, place, equip, recovery plans |
| gathering skills | `skills/{cut-tree,mine}.ts`, `runtime/transport/collect.ts` | per call: attempted trees, gains, skipped items | cutTree, mine, collect |
| brain worker | `workers/brain-worker.ts`, `db/brain-memory.ts`, `db/task-events.ts` | task events, rolling summary, memories, session timers | record a task, extend the summary, promote memories, session takeaway |
| event log, push, replay | `diagnostics/`, `interfaces/` | sequence numbers, buffered lines | append, push, replay from `last_seen_seq` |
| conversation context | `conversation/{recent-context,inventory-diff-cache}.ts`, `workers/task-result-summary/`, `workers/task-report/` | the last ten rounds with their failures; the inventory the last prompt was told | append, render, latest failure; prepare, advance; sum up, report |
| world model | `world-model/query.ts` | per world and resource: the blocks of the last scan and their clusters | refresh, query, remove dug blocks, select trees |
| chain break | `src/plugin/.../ChainBreakHandler.java` | none between events | breaks what is connected to a broken log or ore |
| observation | `observation/`, block and inventory readers | the last snapshot | read |
| entrypoint | `app/entrypoint.ts`, `app/bootstrap/` | the wiring of all of the above | bootstrap, close in order |

### 1.2 How they interact

```
 mod --player_message--> server bridge --INCR epoch--> Redis
                             |  control word -> actor.interrupt
                             v
                     conversation queue -> conversation worker -- cancel -> actor.interrupt
                                               |  accepted row (PostgreSQL)
                                               v
                                          exec queue -> bot worker --epoch guard
                                                            |  executeCode
                                                            v
                                    transport <- sandbox <- actor
                                                            |  terminal actions
                                                            v
                                 task_history row, brain queue -> brain worker, report, push
```

The parts of one process share its single thread, so what lies between two
`await`s is atomic and anything may run at an `await`. Queues, epoch and rows
are shared through Redis and PostgreSQL and outlive the process. Interrupts are
synchronous calls into the actor; the sandbox learns of them through an
`AbortSignal`.

### 1.3 What is hard here

* *Awaits.* The actor's `executeCode`, `start`, `interrupt` and chat writes are
  all suspended somewhere in the middle while another of them runs.
* *Cancellation.* An interrupt frees the status at once but the sandbox only
  after it has drained; result, abort, deadline and failing host calls race.
* *Staleness.* Messages overtake each other (planning takes seconds, exec jobs
  have priorities); the intent epoch is what keeps an older task from starting
  after a newer wish, and it is read before more awaits.
* *Partial failure.* Recording one status is a row, a brain job, a report and a
  push, each an await that may throw before or after it took effect.
* *Crashes.* A job in hand is given to the next worker by BullMQ, or failed.
* *A world that moves.* Routes are planned on blocks read earlier, a dig that
  was asked for lands later or never, others dig, place and push, and a plan
  reckons with changes it has not made yet.
* *Budgets within budgets.* Searches, rounds, attempts and recoveries each have
  a limit, and start each other anew.
* *Memory between messages.* What a message leaves in the context is read by a
  later one before its own awaits, while tasks go on ending.
* *Connections.* A new one is opened while the old one's callbacks are still to
  come, and all of them share one state.
* *Documents that promise more than the code does*: retries, queued interrupts,
  a shutdown that aborts (see section 6).

### 1.4 What makes each part correct

* actor: one execution holds the bot; status, task and execution agree;
  interrupted tasks never count as done; reactions never run beside a task that
  may still act; the event log pairs starts with ends; nothing leaves shutdown;
  chat writes never overlap; executions end.
* sandbox: it always returns; the cause reported is the first one; a completed
  result hides no failure; nothing starts once it is doomed; actions that a failed
  execution leaves behind were told to stop.
* brain worker: a task is summed up once; limits on contents hold; the audit tells
  what was applied; promotions of one job build on each other.
* server bridge: the mod comes back by itself; CONNECTED means that a connection
  was greeted; no end keeps a connection the other one lost.
* terrain and miner: every plan can be carried out and leaves the bot its
  footing; after an abort the world is left alone; calls do not go round in circles
  and claim only what they dug.
* tool chain: three attempts suffice for a craft beside a table; nothing is
  mined without its tool; an abort ends the chain; every ensure ends.
* gathering skills and world model: the cache stays split into connected
  clusters; nothing is counted twice; a skill gives up only when nothing is left.
* conversation: a message that goes on from a failure joins its chain and does not
  repeat it; every change of the inventory is told once; every message is dealt with.
* pipeline: tasks start in the order the owner spoke; a cancel stops what is
  older; records never say more than what happened; rows precede jobs; every
  job is settled.

## 2. Modules

| module | models | built on |
|---|---|---|
| `RuntimeStateMachine` | the pure decisions of `state-machine.ts`: transition table, gates, verdicts on interrupts, emitted events | |
| `BotActor` | the actor: one action per segment between awaits | `RuntimeStateMachine`, `ActorContract` (refined) |
| `ActorContract` | what callers of `executeCode` rely on | |
| `BotActorProofs` | theorems on `BotActor` | `BotActor`, TLAPS |
| `SandboxContract` | what the actor relies on when it awaits the sandbox | |
| `Sandbox` | one execution of a script | `SandboxContract` (refined) |
| `BotWorker` | `processTask` and the sink of its lifecycle actions | `ActorContract` |
| `TaskPipeline` | bridge, conversation worker, `BotWorker`, crashes and redelivery | `BotWorker` |
| `BrainWorker` | the brain worker's jobs and the rows they write | |
| `ServerBridge` | both ends of the mod's connections | |
| `TaskResult` | what is kept of an execution: its status, its failure capsule and its class | |
| `RecentContext` | the window of rounds and the latest failure in it | `TaskResult` |
| `Conversation` | the talk about a message with chat, continuation and plan, beside the bot and its sink | `RecentContext` |
| `BlockFacts` | what the transport reads of a block and its surroundings | |
| `TerrainRouter` | `planTerrainRoute`: the search in all its phases | `BlockFacts` |
| `TerrainNavigation` | `goTo`: the search and the execution of its plan beside a moving world | `TerrainRouter` |
| `MinePlanner` | `planMineRoute`, in the `search` of the router | `TerrainRouter` |
| `MineSkill` | the transport's mine: rounds, digs, approaches | `MinePlanner`, `TerrainNavigation` |
| `ToolchainFacts` | recipes, drops and tools, and the choices made with them | |
| `ToolchainEnsure` | `ensure` with its recoveries and the capabilities they call | `ToolchainFacts` |
| `ResourceService` | the resource cache and the selection of trees | |
| `Collect` | the transport's collect | `ResourceService` |
| `Harvest` | cutTree, mine and collect with the cache, the server's chain break and late block updates | `Collect` |
| `ScriptProofs`, `TaskPipelineProofs`, `BrainWorkerProofs`, `ServerBridgeProofs`, `ConversationProofs`, `TerrainSkillsProofs`, `ToolchainEnsureProofs` | theorems on the modules of these names; `ScriptProofs` on `Sandbox` and `Harvest`, the terrain's on `TerrainNavigation` and `MineSkill` | those modules, TLAPS |
| `MCBotActor`, `MCTaskPipeline`, `MCBrainWorker` | symmetry sets for TLC | the module of that name |
| `MCTerrainSkills`, `MCToolchainEnsure`, `MCHarvest` | small worlds, recipes and requests for TLC | the module of that name |

The composition goes through contracts. `BotActor` is checked and proved to
implement `ActorContract`; `TaskPipeline` is built from the operators of
`ActorContract`, so its results do not rest on the actor's details and its state
space stays small. Likewise `Sandbox` implements `SandboxContract` (the safety part
proved, the fairness part checked), which is
exactly the freedom `BotActor` gives to the sandbox it abstracts. Between the
skills the same cut is made without a contract of its own: `ToolchainEnsure` and
`Harvest` let a walk or a mining arrive, fail or be aborted at will, and
`TerrainNavigation` and `MineSkill` check what a walk and a mining do.

### 2.1 BotActor

`status`, `externalAuth`, `currentTask`, `currentExecution`,
`chatWriteInFlight` and `emittedEvents` are the fields of the class. The
execution object of a call is spread over `execPc`, `interrupted`,
`interruptSignal` and `outcome`. Program counters stand for the suspended
callers. `executeCode` is two actions: `ExecuteCode` up to the await of the
sandbox, and `ExecuteCodeResumes` for the continuation together with its
`finally` block; between them `SandboxSettles` marks the moment the sandbox has
settled and the continuation has not run yet, because an interrupt in this gap
is a case of its own in the code. A reflex is `Interrupt` followed by
`ReflexSettles`; with a reflex executor the action may outlive the wait
(`LateReflexActionEnds`). In production the executor is not injected
(`HasReflexExecutor = FALSE`), so a reaction is over at once; the runs use the
richer case.

Callers are more liberal than in production, where the bot worker makes one
call at a time: exclusion must come from the actor's own guard.

### 2.2 Sandbox

Host calls are named by model values, each of a kind: `act` (a plain call),
`try` (`tryHostCall`), `read` and `sleep`. A call races the host's action with
the abort signal. `QueueEmpty` expresses that the microtask queue is drained
before a timer, a signal or a message of the isolate is handled. Errors are
named by their class; a facade error by the call it comes from.

### 2.3 BotWorker and TaskPipeline

A message is its own job id in every queue, as in the code, so queues are
functions from messages to a status. `history` is the status column of the
`task_history` rows, `brainQueue` the status the brain job carries. A write that
fails may or may not have taken effect (`Oks`, and the two-element sets of next
values). `Crash` resets what lives in memory and keeps what lives in Redis and
PostgreSQL; `StalledExecJob` and `StalledConversation` are BullMQ's handling of a
lock nobody renews, with its default of one redelivery.

`requires_interrupt` of the planner's answer is not modelled: the entrypoint
does not wire `hasActiveTask`, so that route never interrupts.

### 2.4 BrainWorker

A job's program counter says at which `await` of `processTask` it stands, and
what it has read and will write later is its private copy: `loadedSummary` and
`mutableMemory` with `afterContent`. Two jobs are in hand at a time
(`Concurrency`, brain-worker.ts:258). Contents are sequences of lines of size
one, so limits on characters are limits on lines; the LLM's answers are free
choices, and an answer that is too long or useless is one of them. The three
kinds of memory are separate rows treated alike; one is modelled. The session
timer is armed by a task's job and fires at any time.

### 2.5 ServerBridge

`state`, `socket`, `heartbeatTask`, `reconnectTask`, `reconnectDelay` and
`disconnectRequested` are the fields of the mod's transport. `conns` holds for
each connection what the mod's listener was told, what the route knows, and the
frames under way in each direction. A listener's callback is one step; a
heartbeat is two (`HeartbeatBegins`, `HeartbeatRuns`), because cancelling the
scheduled task does not stop one that has begun. OkHttp is modelled as the
listener sees it: `onClosing` on the server's close frame, `onClosed` once both
have sent theirs, `onFailure` when the connection broke or a ping is not
answered. Ids of messages are fresh, so the route's window of seen ids refuses
none of them.

### 2.6 BlockFacts, TerrainRouter, TerrainNavigation

Positions are triples, blocks six kinds (`BlockKinds`). `search` is the state of
`planTerrainRoute`: phase, open and closed nodes, budgets; one step expands one
node, and any node of least priority may be the next, since the heap does not
order equal ones. A node carries the cells its actions will have dug and filled;
successors are judged in that world, as in the code. The time budget runs out at
any look at the clock.

`nav` is the action under execution. Its digs and placements go to `pending`,
from where the server carries them out or drops them at any later moment, also
after the caller gave up or was aborted; that is what makes a retry of a
placement interesting. Others may change a block or push the bot
(`MaxDisturbances`). Movement is by cells: a walk reaches the next cell or gets
stuck, until its watchdog ends it if the bot keeps still. Two ghosts: `late` counts changes asked for after
an abort, `nav.alone` says whether nothing was still to land when the navigation began.

### 2.7 MinePlanner, MineSkill

`MinePlanner` runs in the router's `search` with the miner's moves and costs (in
hundredths, since the heuristic is fractional), its reach and its line of sight.
`mine` is the call of `executeMine`: the rounds with a scan of their own or with
given targets, the plan, the walk, the dig of the target, and the approach by
`TerrainNavigation` when there is no plan. `bag`, `drops` and the ghost
`dugOres` tell what was gained and what was dug for it.

### 2.8 ToolchainFacts, ToolchainEnsure

The calls nest: `stack` is the chain of calls that await each other, `ret` the
last answer, and a step runs from one await to the next. `ToolchainFacts` holds
the tables of minecraft-data as constants and the pure choices: which recipe,
what is missing, which tool, where a material comes from. The plan of a recovery
(`Plan`) is the planner's list of capabilities. Digging and walking are single
steps with free outcomes, the wear of tools is left out, and an interrupt may
come at every await; the isolate then goes at once, while the host's calls run on
until one of them looks (`late` marks those that began after it).

### 2.9 ResourceService, Collect, Harvest

The world is a vertical slice: positions are pairs. An entry of the cache is its
set of clusters; a scan replaces it, a block change takes single blocks out and
splits what is left. Whether an entry is fresh enough is a free choice where the
code looks at the clock. `Collect` walks from item to item with the server
picking up what the bot stands beside; `Harvest` adds cutTree's trees, mine's
rounds, the mod that breaks connected blocks up to `ChainLimit`, and the block
updates the client gets later (`unseen`). A cut that is collected while an update
is still unseen counts as a mishap, as do items taken by others and walks that
fail. A block the miner itself digs stays in the cache until the next scan, so the
cache may be staler than the code's.

### 2.10 TaskResult, RecentContext, Conversation

`talk` is the message in hand and what the handlers hold of it between awaits:
the latest failure, read first (`ReadLatestFailure`), the inventory of the
prompt that is prepared, the job to be queued. `bot` is BotWorker from the pull
of a job to its last terminal action; its ends are all that `TaskResult` makes of
an execution. `context` is a sequence in order of use, `baseline` the inventory
diff cache. Three ghosts make the properties: `told` adds up the changes the
prompts told, `capsules` collects every failure recorded, and a chain is named by
the message it began with. A plan is its one action, and repeats a failure when
its code contains the retry signature, that is when the action is the same. The
module leaves redelivery, epochs of control words and the rows to `TaskPipeline`,
and has no restart: context and baseline are memory of the process and begin
empty.

## 3. Runs

Passing runs:

| run | instance | properties |
|---|---|---|
| `actor_interrupts` | 2 jobs, 2 reflexes, 1 control, shutdown | `SingleWriter`, `StatusMatchesExecution`, `InterruptWins`, `TaskEventsAlternate`, `CauseReplacedOnlyByReflex`, `ShutdownIsFinal`, `ContractSpec` |
| `actor_progress` | 2 jobs, 1 reflex, 1 reply, login pending or failed | `ChatIsSerial`, `ExecutionsEnd` |
| `sandbox_execution` | 3 calls of any kinds | `ReportedIsFirstClass`, `ReturnIsClean`, `NothingAfterTerminal`, `Returns`, `ContractSpec` |
| `pipeline_faults` | 2 tasks, failing writes, 1 crash | `RecordsAreTruthful`, `JobsSettle` |
| `pipeline_order` | 2 tasks, 1 control word, 1 crash | `StartsInIntentOrder`, `OneTaskSurvivesACancel` |
| `brain_memory` | 2 jobs in hand of 2 failed tasks and 1 fact, 2 candidates each, 1 crash | `SummaryMentionsOnce`, `PromotionsChain` |
| `conversation` | 3 messages, 2 actions, a window of 2 rounds, an inventory of 0 or 1 | `ChainsLinkFailures`, `InventoryToldOnce`, `KeepsUp` |
| `bridge_connection` | 2 connections at a time, 1 message, 2 breaks or restarts | `ConnectedIsBacked`, `Reconnects`, `BrokenIsForgotten` |
| `terrain_skills` | goTo in some fifty worlds of three columns, or mine in six with an ore or two; one disturbance, an abort | `WayIsExecutable`, `OneChangeAfterAbort`, `FallsOneBlock`, `MinePlanIsExecutable`, `MinedIsDug`, `MineEndsSometime` |
| `toolchain` | ten ensures from four situations, two mishaps, an abort | `TableAtHandIsEnough`, `MinesWithTheTool`, `AbortEndsTheChain`, `EnsureEnds` |
| `harvest` | five situations in two worlds, one mishap, an abort | `ClustersAreConnected`, `CountsWhatItGained`, `GivesUpOnlyWhenBare`, `HarvestEnds` |

`brain_summary_lost` refutes what a document says (section 6), with the property
`SummaryKeepsEveryTask`.

### 3.1 What they show

*Actor.* The status is no lock: an interrupt frees it while the interrupted
script still drains. `SingleWriter` holds because `executeCode` also looks at
the execution object, and `StatusMatchesExecution` says how the two go together
at every await. `InterruptWins` covers the gap between the sandbox's settling
and the continuation. `TaskEventsAlternate` says that the event log pairs every
start with one end although four places emit ends.
`ContractSpec` is the refinement of `ActorContract`.

*Sandbox.* Aborts, deadlines and failing calls race; the error that is returned
belongs to the class that came first, a completed result hides no failure,
nothing is recorded once the execution is doomed, actions that outlive a failed one
were told to stop, and it returns although script and actions may hang. An execution
that completes promises nothing about a host call its script did not await: that may go
on, untold (section 6).
`ContractSpec` is the refinement of `SandboxContract`.

*Pipeline.* With failing writes and a crash, the rows never claim more than the
actor answered, a row precedes its job and every job is settled. With cancels
and control words, tasks start in the order of the owner's wishes; a cancel can
let at most the one task through that had already passed the epoch guard.

*Brain worker.* Redelivery never sums a task up twice (the key of
`task_events` stops the second attempt), contents stay within their limits
although the LLM compresses, and memories change only by
what was judged worthy, each promotion of a job from what the one before left.

*Conversation.* However messages, ends of tasks and failing sinks cross, a task
that continues a failure has an earlier message's failure one step before it in
its chain, of a kind worth another try, and does not repeat its action; when it
fails too, even when the end is recorded twice, the chain goes on. What the
prompts told of the inventory adds up to the baseline, although LLM calls fail and
prompts are prepared in vain. Nobody goes round in circles: every message is
talked about to its end, and its task is gone.

*Server bridge.* `Reconnects` is the surprise: two overlapping connections close
each other, because a failure closes the newest socket whichever connection
failed. Without the doubling of the delay TLC finds a run in which this goes on
for ever; the growing delay ends it.

*Terrain.* A plan replayed in the world it was made for digs what can be dug,
leaves the bot its footing and ends on the goal, in every phase of the search
and although each action is judged in a world the earlier ones have changed.
After an abort at most one change is still asked of the server: the abort is
looked at before an await, not after it. A bot that loses its footing, for
instance by digging away the block it placed, falls one block at most, wherever the
navigation is cut short. A miner's target is the exception, and one of the six worlds
has it: the last dig of a mine looks at distance and sight only
(`findReachableTarget`, `runtime/transport/mining/planner.ts:540`; `digFinalTarget`,
`mine.ts:558`), so an ore under the miner's own feet is dug from above it, over a
cave too. `src/ts-core/Docs/06_AGENTIC_MINE_IRON_SPEC.md:405` says that the bot must
not jump into a pit in this way ("例如脚下有 diamond_ore（钻石矿） 时,不得直接向下挖一格跳坑,必须找下降楼梯接近。");
the code does not see to it, and `FallsOneBlock` excepts the target (`DigsTarget`).

The second exception came to light with the proof. A dig that `digSingleBlock` has begun and
gives up waiting for (`terrain/action-executor.ts:477`) is not stopped, and
`navigateTowardMineTargets` swallows the error and tries the next foot. So the miner
plans and walks a new way while a block of the old one may still vanish. Four columns in a
row are enough: ground, a rock over a hole of one block, an ore, ground. The approach that
goes down through the rock gives up waiting for its dig; the next steps up on to the rock; the
dig lands, and the bot falls by two. (TLC finds it in that land when the exception is
dropped; the lands of the run have no such hole.)
Each navigation therefore notes whether anything was owed when it began
(`nav.alone`, a ghost), and `FallsOneBlock` speaks of those that began alone: every goTo of
the model, and every way of a miner whose earlier digs have landed or were refused.

*Miner.* The same for its plans, and at the end of one the target is dug or in
reach. It counts a block only if the server dug it for the miner, unless others
dig. `MineEndsSometime` says that its call ends unless one single movement never
does: whatever is refused, fails or is pushed back, rounds and approaches are not taken
up for ever. More is not true of the code. The watchdog of a movement is set anew by
every 0.05 blocks (`runtime/transport/terrain/foot-step.ts:24,416`,
`runtime/transport/progress-watchdog.ts:66`), and `stepToFoot` (`foot-step.ts:96`) neither
has another limit nor looks at the abort, so a bot that hops against a blocked cell hops on.

*Tool chain.* Beside a table three attempts of every level are enough for every
craft up to the stone pickaxe, for any wood and any size of trees. What is
recovered on the way does not take the tool out of the hand that mines. After an
interrupt no capability begins that changes the bag or the hand, although some
of the callers read the abort as an ordinary failure. Every ensure ends.

*Gathering.* However blocks leave the cache one by one, its clusters are the
connected ones. Trees are counted by what came into the bag, once. Without
mishaps cutTree says that wood is missing only when no log stands in its widest
radius. With whatever is taken, out of reach or broken unseen, every call ends.

### 3.2 Bounds

| bound | why it is enough |
|---|---|
| two jobs, two reflexes, one control | every conflict of the actor is between one execution and one newcomer, or between two waits of `interrupt`; the third party is the control signal |
| three host calls | one that dooms the execution, one in flight meanwhile, one issued later |
| two messages and a control word; the tasks of faults without control words | order is a relation between two tasks; a write that fails concerns one task, and a second one shows that it does not spread |
| `MaxCrashes = 1` | BullMQ gives a job out again once; a further crash fails it, which `StalledExecJob` also does |
| `MaxJobs = 2`, `Concurrency = 2` | lost updates are between the two jobs in hand |
| `N = 3`, `RoundLimit = 2` | a failure, its continuation and the continuation of that; with two rounds a failure can be pushed out of the window, with its task still to end |
| `MaxCandidates = 2` | a promotion and the one that builds on it |
| `SummaryThreshold = 2`, `MemoryLimit = 1` | the second line of a memory and the third of a summary overflow |
| two `Slots` | an old connection whose end is still to be reported and a new one; more than two only wait longer for a slot, since `Dial` takes a free one |
| `MaxGlitches = 2` | one disturbance creates the overlap, the second hits a connection of the overlap |
| `LongDelay = 1` | one reconnection that may overtake a dialing connection after each hello, then the delays that do not (5 s doubled up to 60 s, against OkHttp's 10 s each to connect and to answer) |
| worlds of three to five columns, one block thick | the router judges one step and the cells it touches; three columns hold a step up, a gap and a hole, five make the miner approach |
| `PhaseExpanded = 25`, `TotalExpanded = 60`, `MineMaxExpanded = 3` | every phase ends both by exhaustion and by its budget; the miner's search is cut off where the ore is far |
| `MaxDisturbances = 1` | one block or push between a read and its use |
| `Items = 1`, `PlaceAttempts = 2` | a placement with a retry, then none left |
| `MishapBound = 2`, `MaxMishaps = 1` | one thing going wrong, and another in its recovery |
| `LogsPerTree = {1, 4}` | a tree that is enough for a craft and one that is not |
| `Room = 4` | the trees of two worlds bring more than fits: a bag that is full beside what is to be collected |
| `ChainLimit = 8` | more than the trees have, so that the mod breaks whole trees; what a truncated break does is in section 6 |

All other constants are sets of interchangeable model values or tables of the
game's data. There are no state
constraints: where something is bounded, a guard of the named constant does it.

### 3.3 Fairness

Only what the code's timers or its event loop bring about is fair, always weakly.

* Actor: the connection attempt ends after 30 s, a sandbox after its time limit
  of 120 s, the wait for a reflex after 250 ms, and continuations run. Chat
  writes and callers are not fair.
* Sandbox: time passes, the deadline's timer and the cleanup's timer fire, what
  is ready in the microtask queue runs. Scripts and host actions are not fair.
* Pipeline: workers take what waits, awaits end one way or the other, BullMQ's
  check for stalled jobs is repeated. Messages and crashes are not fair.
* Conversation: the worker takes the next message, the bot the next job, and what
  they await ends. Messages are not fair.
* Miner: its steps are taken, those that wait for the server by their own time limits
  (`waitForPromiseOrCondition`, `waitUntilFootYReachedThenRecover`), and its searches go on.
  Nothing is fair while the bot is on the move and not where it heads for (`HeldByMove`:
  walk, control keys, drop, centring, the step up after a placement), since those
  watchdogs have no absolute limit. That the searches go on is stated as what it means,
  infinitely many steps of a search that is always under way, since TLC cannot evaluate
  ENABLED of a whole search.
* Tool chain: a capability that was called answers (`Proceed`). Gathering: the
  skill's steps are taken, time passes, the client hears of every block. Both assume
  that each walk they await answers, which a movement that never ends (above) would
  break: `EnsureEnds` and `HarvestEnds` are about attempts, recoveries, trees and rounds, and
  speak of calls whose every walk comes to an end.
* Server bridge: executor and listener threads run, a broken connection is
  noticed by pings or by the heartbeat timeout, closing ends. The network need
  not break, and connections need not be refused.

`bridge_connection` runs without the deadlock check: after the game has stopped
and its connections have ended, nothing is left to do. So do the four runs of
navigation and skills: a call that is over leaves nothing to do, and that it
comes to an end is a property of three of them. The actor, the sandbox,
the pipeline, the conversation and the brain worker have an explicit stuttering step for their
end, so that every other stop would be reported.

## 4. Proofs

The theorems hold for every value of the constants that satisfies the named
assumptions: any number of jobs, messages, calls or cells, finite or not unless an
assumption says so. Each rests on a theorem `Invariance`, `Spec => []IInv`, whose
`IInv` is inductive: `Init => IInv`, one lemma per action or group of actions for
`IInv /\ [Next]_vars => IInv'`, and the property from `IInv`. TLC has checked
every `IInv` on the run's instance as well, and of the skills' invariants what it can
evaluate: not the conjuncts that claim a walk, a way or a set of candidates to exist
(4.7, 4.9).

| module | theorem | property |
|---|---|---|
| `BotActorProofs` | `TypeCorrect` | `TypeOK` |
| | `OneWriter` | `SingleWriter` |
| | `StatusAgrees` | `StatusMatchesExecution` |
| | `InterruptionSticks` | `InterruptWins` |
| | `ReflexIsAlone` | `ReflexExcludesTask` |
| | `ChatSerialised` | `ChatIsSerial` |
| | `CauseSticks` | `CauseReplacedOnlyByReflex` |
| | `ShutdownSticks` | `ShutdownIsFinal` |
| | `LogAlternates` | `TaskEventsAlternate` |
| | `ActorKeepsContract` | `ContractSpec` |
| `ScriptProofs` | `FirstClassReported` | `ReportedIsFirstClass` |
| | `DoomedStaysDoomed` | `NothingAfterTerminal` |
| | `ReturnsClean` | `ReturnIsClean` |
| | `SandboxKeepsContract` | `ContractSpec`, without its fairness |
| | `ClustersStayConnected` | `ClustersAreConnected` |
| | `CountsAreGains` | `CountsWhatItGained` |
| `TaskPipelineProofs` | `StartsAreOrdered` | `StartsInIntentOrder` |
| | `CancelStops` | `OneTaskSurvivesACancel` |
| | `RecordsTellTheTruth` | `RecordsAreTruthful` |
| `BrainWorkerProofs` | `SummaryIsSound` | `SummaryMentionsOnce` |
| | `PromotionsAreChained` | `PromotionsChain` |
| `ServerBridgeProofs` | `ConnectedHasReason` | `ConnectedIsBacked` |
| `ConversationProofs` | `ChainsAreLinked` | `ChainsLinkFailures` |
| | `InventoryIsTold` | `InventoryToldOnce` |
| `TerrainSkillsProofs` | `OneChangeInGoTo`, `OneChangeInMine` | `OneChangeAfterAbort`, for a walk and for a miner |
| | `WaysOfGoTo`, `WaysOfMine` | `WayIsExecutable`, for goTo and for the approaches of a miner |
| | `PlansOfMine` | `MinePlanIsExecutable` |
| | `MinesAreDigs` | `MinedIsDug` |
| | `FallsByOne`, `MinerFallsByOne` | `FallsOneBlock`, for goTo and for a miner |
| `ToolchainEnsureProofs` | `DigsWithTheTool` | `MinesWithTheTool` |
| | `NothingBeginsLate` | `AbortEndsTheChain` |

`TypeOK` and `ReflexExcludesTask` of the actor are proved and no longer checked by a
run; all the others are both. Two more theorems of `ScriptProofs` are about operators:
`SearchFindsTheComponent` and `TreesAreSorted` (4.9).

### 4.1 BotActor

Under `ActorAssumption` (the sets of jobs, reflexes and controls are disjoint and do
not contain the two special values). None of the properties is inductive by itself,
because each speaks of the status while what moves the status is suspended
elsewhere. `IInv` is the conjunction of

* `TypeOK`;
* `ExecutionInv`: the execution object belongs to the one call that has not run
  its `finally` block, and only that call is live;
* `StatusMatchesExecution`: an executing bot has a live, uninterrupted execution
  whose job is the projected task;
* `StartInv`: as long as `start` has not made the bot ready, no execution and no
  reflex was begun, so its late transition to `idle` frees nothing;
* `ReflexInv`: while a reflex is awaited the status is reflexing or shut down,
  so its end frees nothing that is not its own;
* `InterruptInv`: an execution that was told to stop has a cause, and an outcome
  that is not a result;
* `ChatInv`: the chat slot is taken exactly while one writer writes, and nobody
  has written while the login is pending.

The proof goes by lemmas: what each decision of the state machine may return
(`ReadyDecisionFacts`, `InterruptFacts`, ...), then one lemma per group of
actions, then `NextInv`. `LogAlternates` adds `LogInv`: the log told so far pairs
its events, and its last task is open exactly while the bot executes; the shutdown
may stop it anywhere. The refinement maps the contract's `holder`, `told` and
`answer` to the execution object, its interrupted flag and its outcome; each
actor step is a contract step or a stutter.

### 4.2 Sandbox

Under `SandboxAssumption` (calls and error classes are different things). `PhaseInv`
says where the execution stands, what it may have begun by then and what it has
returned; `TerminalInv` what a terminal error implies for the calls in flight;
`ReportInv` that what is reported is the first terminal error, or a failed call
where there is none. `SandboxKeepsContract` states the initial state and the steps
of the contract; that it also returns, which is the contract's fairness, is
left to the run.

### 4.3 TaskPipeline

Under `WorkerAssumption` and `PipelineAssumption`, with any number of messages and
crashes. `PlaceInv`: a message the bridge has not stamped is nowhere else.
`WorkerInv`: the worker holds what its place says, and the actor is held only while
the worker waits for it. `OrderInv` carries the order: the starts so far are in
order, and none is younger than a job the worker has found fresh and not yet given
to the actor; the queue alone would not do, because freshness is read before
the start is written and the bridge may stamp in between. `CancelInv`: at most one
execution began after a cancel although it is older, and none has while an older
job found fresh is still to start; that is the job which survives. `RecordInv`: what
the records say at each place of a job's first handling.

### 4.4 BrainWorker

Under `BrainAssumption`. `SummaryInv` relates the summary, and every copy of it a
job holds, to the places of the jobs: a line is in it only when its job is past the
line. `PromotionsChain` needs to know how rows, audit and memory follow
each other: `RowsInv` (rows in the order of the candidates, an audit for every row
that was applied and for none that was rejected), `RunInv` (what a job in hand has
read, and what it will write) and `ChainInv`; `LimitInv` says that every copy of the
memory keeps its limit. The summary may lose a line (section 6), and nothing here
says otherwise.

### 4.5 ServerBridge

Under `BridgeAssumption`. `EndsAgree` relates the two ends of every connection and
what is on the wire between them: a hello is answered only by a server that took it,
an acknowledgement waits only where the server registered the connection.
`ConnectedIsBacked` follows a connection through closing frames and restarts.

### 4.6 Conversation

Under `ConversationAssumption` and `RoundLimitAssumption`. `ContextInv`: what context
and talk remember did happen; `ToldInv`: the prompt in preparation goes on from what
was told; `PlaceInv`: no job before its talk is over, and no failure before the bot
took the job; `ChainInv`: tasks on their way, queued and taken, follow a failure of
their own chain, and failures keep the chain and step of their task. That the
latest failure of a window exists is a fact on sequences, `LatestIsRemembered`,
which rests on a least index (`LeastNatural`).

### 4.7 Navigation and miner

Under `RouterAssumption`, `NavigationAssumption` (routes and worlds are made of
triples of integers) and `MineAssumption`, for any worlds, routes, costs and limits.

`AbortInv` is an invariant of both specifications, `Spec` of `TerrainNavigation` and
`MineSpec` of `MineSkill`: what is asked of the server after an abort is asked from
a place that was entered before it (`Committed`), and no step leads to such a place
after the abort. It needs nothing of the search.

That plans can be carried out (`WaysOfGoTo`, `WaysOfMine`, `PlansOfMine`) goes by an
invariant of the nodes of a search, `NodeOK`: replaying a node's actions from the
start leads to its foot, every cell then is what the node's `air` and `solid` say, and
each action could be carried out where it comes. It is inductive because

* an action is `Allowed` to a node when it can be carried out in the world the node
  stands for, and all that the expansion offers is allowed (`SuccessorsAreAllowed`,
  `MineSuccessorsAreAllowed`, with one lemma per kind of action);
* one more allowed action keeps the node's account of the replay (`ReplayedBefore`,
  `ReplayedLast`, `SuccessorIsOK`);
* the nodes a search goes on with are the ones it had and such successors (`GrownNodes`,
  `MineGrownNodes`).

`Finds` adds that a search that ended well ended with the actions of such a node at the
goal; `RouteInv` and `MinerInv` that the search at hand is that of the phase the
call is in. A miner's plan ends at a target it dug on the way or one it can reach
(`PlannedTargetFacts`). The proof needs no bound on a search, and says nothing of its
choice among nodes: any node it might expand would do.

`MinesAreDigs` rests on `CountInv`. A plan is flattened to operations that begin
each action by announcing its digs, and end it before the next (`WellFormed`,
`PlansAreScripts`). Within an action, the miner's count and what it announced
(`planned`) are together at most the ores dug so far and those among the digs still
ahead (`Inside`); an operation that ends within an action takes from the ores ahead
what was dug or was none. For its last block, the miner has seen the ore it digs
(`AtLast`). With others about, a block may vanish while the miner digs, and be counted;
the property leaves that case out.

`FallsByOne` needs to know the world in the middle of a plan, with whatever was asked for
still to land, also after the call gave up. Its invariant `FallInv` says that, unless
others interfered, a navigation is planning (`Ready`), has nothing left to do and stands
(`Still`), or is somewhere on a walk (`OnTheWay`). A walk is the plan made concrete when it
is found: where the bot stands and what every cell holds after each action, and the
operations of each (`IsWalk`; `PlanIsWalk` makes one of a plan that `RouteInv` calls
executable). It is a constant that the invariant claims to exist, so the invariant need
not follow the search's records while the world changes. On a walk the bot is in the
operation j of the action i (`Walks`) or was stopped in the action i (`Stopped`):

* `Mid`: each cell holds what it held before the action, or was dug by it, or is
  the one the action fills; the bot is where the action began or where it ends;
* `Asked`: what is pending is the dig or placement of the operation under way, or has
  been overtaken; so nothing lands outside the action, not even after it was stopped
  (`Owed`);
* `Digging`, `Placing`, `Lifting`: what an operation under way has read still holds,
  and until it places its block the bot has not left the cell it fills.

An operation that is done has had its effect, so after the last one the cells are those
the plan says (`NextOp`, `Arrives`). `FallInv` was checked with TLC on the run's worlds of
goTo before it was proved, with the walk computed from the plan. In the middle of an action the
footing is gone only when the action digs the bot's own block or a placement went wrong
under it, and in both cases the cell below is one the bot stood in or is to stand in
(`MidFalls`). That is why `WayIsExecutable` also says what the actions do to the footing.

A miner may begin a way while it falls, when an approach was cut short over the hole it
dug. Where an action does not begin on firm ground (`Firm`), the bot may be anywhere
below (`Between`); it has no footing to lose there, and since such an action digs nothing
under the bot (`StepIsExecutable`) it finds none on the way down but one the cells of the
plan have (`LooseFalls`).

`MinerFallsByOne` goes by the place of a miner in its rounds (`MineFoot`). Between its ways it
owes nothing, or what the action of a failed approach owed (`Resting`); an approach is the
navigation of goTo (`OnFoot`), whoever began it; and its own plans are walks by other
operations (`OnMineWay`): the operation j of the action i (`Mines`), an error in the action
(`Halted`), or the end, where only the target is still to be dug (`AtEnd`). What a miner's
own dig passes over is what its body can pass, so the cells are those of the plan up to what
is as good as air (`Alike`, `Partly`). A plan is still one from where the miner stands
when it is begun, because looking, searching and beginning are one synchronous piece of the
code (`search.start = foot` while it plans). `MineFallInv` is all this for a call that is
undisturbed and whose navigation began alone; no step makes a navigation alone that was not
(`KeepsAlone`), and one that begins alone owes nothing.

The search and the scripts are defined by `FoldLeft` and `FlattenSeq`, whose definitions
recur. Their recursive functions are shown to exist by induction on the length
(`FlattensExists`, `PushesExists`), and the facts used of them follow by the same
induction (`Climbs`, which rests on `LeastNatural`).

### 4.8 Ensure

Under `ToolchainAssumption` and `RegistryAssumption`: the instance's registry is
typed, what is worth mining has a drop, and tools are neither drops nor ingredients
of recipes. The code's
tables (`domain/recipes`, `domain/drops`) are such a registry; with a tool as
an ingredient, crafting could take the pickaxe away between the preflight and the
dig.
`IInv` is `ScriptInv`, `Counts` (the counts of tools are numbers) and `ChainInv`, an
invariant on the whole stack of waiting calls:

* `Sound`: what a frame promises wherever it is in the stack. It has not passed
  the abort's last check late, an ensure past its preflight has its tool, a call
  about to dig has the tool of its block, and what a mine digs for an ensure that
  asks for its drop can be mined with the tool that ensure has;
* `Below`: which calls may wait for a frame, so that what the returning call proved
  is what the waiting one relies on (an equip of an item under the equipTool
  of the same item, an equipTool of a tool of the block under the dig);
* `TopSound`: what the running call has just found out: an equip holds what it has,
  a craft about to run has a plan that can be made.

The steps are proved with one lemma per way the stack changes (`ChainBecomes`,
`ChainCalls`, `ChainReturns`) and the fact behind `MinesWithTheTool`: no step of the
world or of a capability spends a tool (`ToolsStay`, `CraftSpendsNoTool`,
`NoToolMoves`, `LogsAreNoTools`).

### 4.9 ResourceService, Collect and Harvest

Under `NamesAssumption` (no block kind is listed twice), `CollectAssumption` and
`HarvestAssumption` (limits are numbers, columns integers), and `SituationsAssumption`:
each world holds finitely many blocks of known names at integer places, and a call asks for
one of the three skills. The number of blocks, trees, rounds and mishaps is not bounded.
`IHarvest` is

* `CacheInv`: every entry is `WellMade`, that is, empty or what `Entry` makes of some
  finite set of candidates with places and distances;
* `GroundInv`: what stands, and what was broken without the client knowing, are finitely many
  known blocks, and what lies about is of known names;
* `JobInv`: which skill is at which place; and as long as a tree is felled, what the job has
  counted and what the bag gained of the tree's kind since then are together at most what the bag
  holds, which was empty at the call. `CountsWhatItGained` alone is not inductive: it does not
  say that the gain counted next was not counted before. What mine counts is at most what
  the bag holds of the kind it wants.

`ClustersStayConnected` rests on the search. `Connected` is a recursive function that takes
in what touches, once for every block there is. `SearchGoesInRounds` shows that the function
exists, and `SearchFindsTheComponent` that its last value is closed under touching (were it
not, every round would have added a block, more than there are) and lies in every
closed set that holds the first block. Hence two components are equal or do
not touch (`ComponentsAgree`) and none falls apart (`ComponentsHoldTogether`). A block
change takes blocks from the entry and groups the rest anew (`WithoutIsWellMade`); the cluster
that remains of a tree cut in two is two clusters, which is what the mutant of this
property forgets.

`CountsAreGains` needs sums over the bag's kinds. `FoldSet` is a fold chosen by
its recursion: `SumsExist` shows that one exists, `SumBounds` and `SumGrows` what it
is when one kind grows. What cutTree compares before and after is of one kind, since a tree
is named after its logs (`TreesHaveOneKind`) and the selected trees are trees of the entry
(`SelectedAreTrees`, by `TreesAreSorted`: distance, size and first block are a strict total
order of the clusters, so exactly one sequence of them is sorted).

The induction is over natural numbers, from `LeastNatural`.

### 4.10 What is only model-checked

* Liveness and its fairness: `ExecutionsEnd`, `Returns`, `JobsSettle`, `Reconnects`,
  `BrokenIsForgotten`, `MineEndsSometime`, `EnsureEnds`, `HarvestEnds`, `KeepsUp`, and the
  fairness of the sandbox's refinement. TLAPS does not do `ENABLED`.
* `GivesUpOnlyWhenBare`: it is not true of every land. cutTree remembers the trees it
  has tried by their ids, which are made of the place in the list and the rounded centre. A tree
  larger than the chain limit leaves a rest behind, and where the rest has the same centre
  (a plus of five logs of which one is broken) cutTree takes it for the tree it has tried and
  says that there is no wood. The run's lands have no such trees; they show that nothing
  else makes it give up.
* `TableAtHandIsEnough`: it depends on the recipes and counts of the instance.

The provers cannot expand `SelectSeq`, a recursion over its argument, so the models
say what they select with quantifiers, with `FlattenSeq`, and with `SelectInSeq`,
`SelectLastInSeq` and `RemoveAt`. They cannot expand `SortSeq` either, a Java method for
TLC: `ResourceService` says which sequence is the sorted one, or counts what comes before.
Where a least number is needed it comes from the theorems on finite sets
(`LeastNatural`), since the library's induction takes an operator.

## 5. What is not modelled, and why

* DEAD and its events: nothing in the code fires `bot_died` or `bot_respawned`.
* `requires_interrupt` of the planner: never interrupts, as said in 2.3.
* Snapshots in queued tasks that are validated before execution: the document
  describes them, the worker does not do it.
* Metrics, logs, push events and task reports: they follow the modelled steps
  and their failures are swallowed, apart from those that `EmitBrain` and
  `EmitExperience` stand for.
* Contents of messages, plans, prompts and facts; how the rounds of the context are
  rendered; the conversation's facts for the brain, which a failing queue drops.
* Pulses of the control keys, positions inside a cell, the wear of tools, the
  scores of clusters, the texts of diagnostics.
* The parts listed as planned in section 7. The Python backend (`src/backend`)
  is the predecessor and is not run; scripts are development tools.

## 6. Divergences

Shown by a run:

| run | the code | the document |
|---|---|---|
| `brain_summary_lost` | two jobs in hand overwrite each other's summary (`workers/brain-worker.ts:258`) | `05_DATA_SPEC.md:704,723`: one after the other, each line appended |

Read in the code while modelling; the modules behave like the code, and no run
refutes the document.

Actor, sandbox and pipeline:

* `interrupt()` drops a signal that is judged "queue" (`runtime/actor.ts:673`);
  `src/ts-core/Docs/02_RUNTIME_SPEC.md:221,227`: it is queued until IDLE.
* A failed host call dooms the execution although the script catches it
  (`sandbox/host-call.ts:172`); `03_SANDBOX_SPEC.md:433`: the script can handle
  it with try/catch.
* The epoch is incremented before a message is known to be a control word
  (`app/entrypoint.ts:551`); `02_RUNTIME_SPEC.md:807`: the control path does not
  increment it, and waiting tasks stay valid.
* A failing write after `completed` leads to a second terminal record
  (`workers/bot-worker.ts:513`); `05_DATA_SPEC.md:881`: the status only moves
  forward.
* A failed connection or login is not retried and the bot does not shut down:
  `app/bootstrap/runtime-core.ts:158` swallows the error of `start()`;
  `02_RUNTIME_SPEC.md:153-154` promises three attempts and then SHUTDOWN.
* `shutdown()` does not abort a running task (`runtime/actor.ts:708`);
  `02_RUNTIME_SPEC.md:165` says it does. `Shutdown` in `BotActor` leaves the
  execution alone.
* The reflex time limit ends the waiting, not the action (`runtime/actor.ts:898`).
* A script that ends without awaiting one of its host calls completes at once: the
  call goes on beside the next task and is not told to stop (`sandbox/execution.ts:249`).
* When several awaited host calls fail together, the last error is kept as the
  facade error (`sandbox/host-call.ts:171`).
* A job that stalls is executed again, since the worker keeps BullMQ's default
  (`workers/bot-worker.ts:156`); `01_ARCHITECTURE.md:574` says it is failed. When
  it stalls a second time it is failed in the queue only, and its row says
  `started` for good.
* A process that dies between the task event and the summary leaves a task that
  is never summed up (`workers/brain-worker.ts:407`); a session's silence is
  examined before the LLM is awaited and its takeaway written after it (`:950`).

Server bridge:

* `onFailure` of the mod reconnects after PROTOCOL_INCOMPATIBLE, unlike
  `onClosed` (`OkHttpServerBridgeTransport.java:365`): it takes a connection that
  breaks between the server's refusal and its close frame.
  `src/plugin/BUILD.md:129` says this state is not left.
* A heartbeat that began before its connection closed, and an end that is
  reported after the next connection was dialed, can leave two connections. The
  hello of one is then answered while `socket` is the other, still dialing; a
  `/svs` of that moment reports success, goes out before the hello and is
  rejected by the route (`handshake_required`), which
  `ServerBridgeTransport.java:36` means to exclude.
* A frame's id is remembered before its message is queued: if queueing fails the
  mod's repetition is taken for a duplicate (`interfaces/server-bridge/route.ts:176`).

Terrain and miner:

* The router's heuristic counts 30 for every block upward although a jump costs 7
  (`terrain/router.ts:964` calls it admissible): a cheaper way may be missed.
* The miner digs an ore straight under the feet (`mining/planner.ts:557`);
  `06_AGENTIC_MINE_IRON_SPEC.md:405` forbids it. The short segments and lava
  checks of its section 6.5 do not exist; liquids count as passable air.
* A position the bot filled is forgotten only by the terrain's own dig; a
  placement that threw is "verified" by any block that stands there.
* An abort during an approach is reported as `unsafe_path`, and one inside a step
  of the miner as that step's failure. The watchdog of a step takes any movement
  of 0.05 blocks for progress, hops on the spot included, and has no other limit;
  `stepToFoot` does not look at the abort either. So a bot that hops against a blocked cell
  neither gives up nor hears of an abort or of the sandbox's time limit (which then leaves
  the action behind), and its goTo or mine never returns
  (`runtime/transport/terrain/foot-step.ts:96`).

Tool chain:

* From empty hands and without a table no ensure of a pickaxe or of mining stone
  succeeds in the model's instance, whatever the trees bring: logs, planks,
  sticks (two of the four planks) and the table take the three attempts, and the
  ensure ends with `missing_materials`.
  `__tests__/skills/toolchain-ensure.spec.ts:16` shows such a success with a craft
  that consumes nothing and needs no table. For the same reason
  `ensure(place, placed)` without planks fails, against `DEMO_DEBT.md:56`.
* The proof that an equip succeeded accepts only "equipped"
  (`capability-executor.ts:681`), so an ensure whose tool is already in hand
  fails with `unknown_completion`; `__tests__/skills/facts-and-equip.spec.ts:301`
  has `already_equipped` as a success.
* The mine skill's `not_equipped` reaches the script as `runtime_mine_failed`, so
  the branch of the recovery planner for it (`03_SANDBOX_SPEC.md:627`) is never
  taken.
* A cached table is used whatever its distance; a far one ends as
  `runtime_craft_failed`.
* Failures of cutTree and equip inside a recovery become `unsupported_capability`.

Gathering and world model:

* A drop that is picked up during cutTree's pause, before collect looks, is never
  seen: collect waits its ten seconds and cutTree fails with `drop_not_obtained`
  although the logs are in the bag.
* Where the mod's break is truncated or the client hears of it late, what is left
  of a tree can get the id of one already attempted, and cutTree ends with
  `tree_selection_exhausted` though it stands.
* Taking blocks out of an entry renews its time without a scan; a removal after a
  change of worlds hits the new world's entry; an unavailable runtime overwrites
  an entry with an empty one; mine uses entries that are stale.
* cutTree takes an abort inside its dig for `unreachable_target`, collect one
  inside a walk for an item out of reach.

Conversation:

* Any of the last ten rounds may hold the failure that "go on" continues
  (`conversation/recent-context.ts:444`); `04_CONVERSATION_SPEC.md:766` speaks of
  the last round. The prompt shows five rounds, rendered after further awaits
  (`plan-exec/context.ts:153`), so the failure that was decided upon may not be in it.
* A round that was pushed out of the window is opened again by a late failure or
  error of its task, without the rest; `04_CONVERSATION_SPEC.md:687` excludes half
  rounds.
* Nothing bounds `replan_count`; `06_AGENTIC_MINE_IRON_SPEC.md:476` suggests three.
* A chat reply that fails ends the talk, and the action of the same message with it
  (`workers/conversation-worker/runtime.ts:158`).
* The code of a plan is in the context before its job is queued, and stays there
  when queueing fails (`plan-exec/dispatch.ts:50`).
* A goal reported as reached, with a failure afterwards, makes a failed task with a
  completed summary and no capsule (`workers/bot-worker.ts:376`).

Bot transport (read, not modelled): `spawned` is not reset when the connection
ends and `bot` stays set (`runtime/transport/runtime.ts:67`), and connect sets
`connected` after its awaits whatever happened meanwhile (`:132`).

## 7. Plan

1. `BotTransport`: `runtime/transport/runtime.ts` and `lifecycle.ts`; connect,
   disconnect, the bot's events around the awaits of connect, composed with
   `BotActor`'s gate and with the shutdown order of `app/entrypoint.ts`.
2. `EventLog`: `diagnostics/`, replay and realtime push; order, losses at the
   limit of the queue, flush at the end.
3. The task reporter and the rendering of the context in `Conversation`.

Left to prove: nothing a run checks but what 4.10 lists. Runs are replaced rather than
added where a deeper one covers the question.
