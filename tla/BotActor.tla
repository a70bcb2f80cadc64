------------------------------ MODULE BotActor ------------------------------
(***************************************************************************)
(* The runtime actor that owns the Minecraft bot                           *)
(* (ts-core/src/runtime/actor.ts).  Its methods are asynchronous functions *)
(* on one JavaScript thread: what lies between two awaits is one step      *)
(* here, and anything may run in between.  The callers are                 *)
(*   - the bootstrap code, which starts the actor once;                    *)
(*   - executeCode calls, one per job of Jobs (in production the serial    *)
(*     BotWorker makes them one at a time; here they may overlap, so that  *)
(*     what excludes them is the actor's own guard);                       *)
(*   - interrupts, one per element of Reflexes and Controls;               *)
(*   - broadcastReply calls, one per element of Replies;                   *)
(*   - shutdown.                                                           *)
(* The sandbox is abstract here: it settles some time after it starts      *)
(* (module Sandbox models it) and may write one chat line meanwhile.       *)
(***************************************************************************)
EXTENDS RuntimeStateMachine, Naturals

CONSTANTS
  Jobs,              \* executeCode calls
  Reflexes,          \* interrupts whose source is a reflex
  Controls,          \* interrupts from any other source
  Replies,           \* broadcastReply calls
  Login,             \* the chat write of the login command
  None,              \* null
  InitialAuth,       \* the external-auth states the configuration can give
  HasReflexExecutor  \* whether a reflexActionExecutor is injected

Signals == Reflexes \cup Controls
Writers == Jobs \cup Replies \cup {Login}

ASSUME ActorAssumption ==
  /\ Reflexes \cap Controls = {}
  /\ Jobs \cap Replies = {}
  /\ Login \notin Jobs \cup Replies
  /\ None \notin Jobs \cup Signals \cup Writers
  /\ InitialAuth \subseteq AuthStatus
  /\ HasReflexExecutor \in BOOLEAN

SourceOf(s) == IF s \in Reflexes THEN "reflex" ELSE "control"

VARIABLES
  status,             \* BotStatus
  externalAuth,       \* AuthStatus
  currentTask,        \* the task the snapshot shows, or None
  currentExecution,   \* the execution that holds the bot, or None
  chatWriteInFlight,  \* the writer whose chat write is pending, or None
  emittedEvents,      \* the diagnostic events, in order
  recentReflex,       \* status of the last reflex summary
  \* the execution object of each executeCode call
  execPc, interrupted, interruptSignal, outcome,
  \* the other callers
  startPc, signalPc, chatPc, reflexAction

actorVars  == <<status, externalAuth, currentTask, currentExecution,
                chatWriteInFlight, emittedEvents, recentReflex>>
execVars   == <<execPc, interrupted, interruptSignal, outcome>>
callerVars == <<startPc, signalPc, chatPc, reflexAction>>
vars       == <<actorVars, execVars, callerVars>>

ExecPc   == {"new", "running", "returned", "ended", "refused"}
Outcomes == {"none", "completed", "failed", "raised", "interrupted"}
StartPc  == {"new", "connecting", "login", "ready", "started", "failed"}
SignalPc == {"new", "queued", "ignored", "reacting", "handled"}
ChatPc   == {"new", "pending", "delivered", "failed", "rejected"}
ReflexSummary == {"none", "completed", "failed", "timed_out"}

TypeOK ==
  /\ status \in BotStatus
  /\ externalAuth \in AuthStatus
  /\ currentTask \in Jobs \cup {None}
  /\ currentExecution \in Jobs \cup {None}
  /\ chatWriteInFlight \in Writers \cup {None}
  /\ emittedEvents \in Seq(RuntimeEvents)
  /\ recentReflex \in ReflexSummary
  /\ execPc \in [Jobs -> ExecPc]
  /\ interrupted \in [Jobs -> BOOLEAN]
  /\ interruptSignal \in [Jobs -> Signals \cup {None}]
  /\ outcome \in [Jobs -> Outcomes]
  /\ startPc \in StartPc
  /\ signalPc \in [Signals -> SignalPc]
  /\ chatPc \in [Writers -> ChatPc]
  /\ reflexAction \in [Reflexes -> {"none", "running", "ended"}]

Init ==
  /\ status = "initializing"
  /\ externalAuth \in InitialAuth
  /\ currentTask = None /\ currentExecution = None
  /\ chatWriteInFlight = None
  /\ emittedEvents = << >>
  /\ recentReflex = "none"
  /\ execPc = [j \in Jobs |-> "new"]
  /\ interrupted = [j \in Jobs |-> FALSE]
  /\ interruptSignal = [j \in Jobs |-> None]
  /\ outcome = [j \in Jobs |-> "none"]
  /\ startPc = "new"
  /\ signalPc = [s \in Signals |-> "new"]
  /\ chatPc = [w \in Writers |-> "new"]
  /\ reflexAction = [s \in Reflexes |-> "none"]

(* An execution that holds the bot: from executeCode's first await until   *)
(* its finally block has run.                                              *)
Live(j) == execPc[j] \in {"running", "returned"}

(* Apply a decision of the state machine. *)
Apply(d) ==
  /\ status' = IF d.accepted THEN d.to ELSE status
  /\ emittedEvents' = emittedEvents \o d.events

-----------------------------------------------------------------------------
(***************************************************************************)
(* Chat writes.  runSerializedChatWrite refuses a write while another one  *)
(* is pending; the refused caller gets an error and nothing retries it.    *)
(***************************************************************************)
\* Mutant: no look at the pending write.
BeginChatWrite_Unserialized(w) ==
  /\ chatPc' = [chatPc EXCEPT ![w] = "pending"]
  /\ chatWriteInFlight' = w

BeginChatWrite(w) ==
  IF chatWriteInFlight # None
  THEN /\ chatPc' = [chatPc EXCEPT ![w] = "rejected"]
       /\ UNCHANGED chatWriteInFlight
  ELSE /\ chatPc' = [chatPc EXCEPT ![w] = "pending"]
       /\ chatWriteInFlight' = w

(* transport.chat settled: the write is recorded, the slot is freed. *)
EndChatWrite(w, delivered) ==
  /\ chatPc[w] = "pending"
  /\ chatPc' = [chatPc EXCEPT ![w] = IF delivered THEN "delivered" ELSE "failed"]
  /\ chatWriteInFlight' = IF chatWriteInFlight = w THEN None ELSE chatWriteInFlight
  /\ emittedEvents' = IF delivered THEN Append(emittedEvents, "chat.reply")
                                   ELSE emittedEvents

(* createBroadcastReplyGate: a reply may pass while a task runs. *)
BroadcastReplyGate ==
  /\ status \in {"idle", "executing"}
  /\ externalAuth \notin {"pending", "failed"}

BroadcastReply(r) ==
  /\ chatPc[r] = "new"
  /\ IF BroadcastReplyGate
     THEN BeginChatWrite(r)
     ELSE /\ chatPc' = [chatPc EXCEPT ![r] = "rejected"]
          /\ UNCHANGED chatWriteInFlight
  /\ UNCHANGED <<status, externalAuth, currentTask, currentExecution,
                 emittedEvents, recentReflex, execVars,
                 startPc, signalPc, reflexAction>>

(* writeChat of the host bridge: an aborted execution writes no chat. *)
SandboxChat(j) ==
  /\ execPc[j] = "running"
  /\ chatPc[j] = "new"
  /\ IF interrupted[j]
     THEN /\ chatPc' = [chatPc EXCEPT ![j] = "rejected"]
          /\ UNCHANGED chatWriteInFlight
     ELSE BeginChatWrite(j)
  /\ UNCHANGED <<status, externalAuth, currentTask, currentExecution,
                 emittedEvents, recentReflex, execVars,
                 startPc, signalPc, reflexAction>>

ChatSettled(w, delivered) ==
  /\ w # Login
  /\ EndChatWrite(w, delivered)
  /\ UNCHANGED <<status, externalAuth, currentTask, currentExecution,
                 recentReflex, execVars, startPc, signalPc, reflexAction>>

-----------------------------------------------------------------------------
(***************************************************************************)
(* start: connect, log in through the chat if the configuration asks for   *)
(* it, then try the ready transition on the status of that moment.  A      *)
(* failed connection or login makes start throw; the bootstrap swallows    *)
(* the error (app/bootstrap/runtime-core.ts) and never calls start again.  *)
(***************************************************************************)
StartConnecting ==
  /\ startPc = "new"
  /\ startPc' = IF status = "initializing" THEN "connecting" ELSE "started"
  /\ UNCHANGED <<actorVars, execVars, signalPc, chatPc, reflexAction>>

ConnectSettled(connected) ==
  /\ startPc = "connecting"
  /\ IF connected /\ externalAuth = "pending"
     THEN /\ BeginChatWrite(Login)
          /\ startPc' = IF chatWriteInFlight = None THEN "login" ELSE "failed"
     ELSE /\ startPc' = IF connected THEN "ready" ELSE "failed"
          /\ UNCHANGED <<chatWriteInFlight, chatPc>>
  /\ UNCHANGED <<status, externalAuth, currentTask, currentExecution,
                 emittedEvents, recentReflex, execVars, signalPc, reflexAction>>

LoginSettled(delivered) ==
  /\ startPc = "login"
  /\ EndChatWrite(Login, delivered)
  /\ startPc' = IF delivered THEN "ready" ELSE "failed"
  /\ externalAuth' = IF delivered THEN "authenticated" ELSE externalAuth
  /\ UNCHANGED <<status, currentTask, currentExecution, recentReflex,
                 execVars, signalPc, reflexAction>>

StartReady ==
  /\ startPc = "ready"
  /\ Apply(ReadyDecision(status, externalAuth))
  /\ startPc' = "started"
  /\ UNCHANGED <<externalAuth, currentTask, currentExecution, chatWriteInFlight,
                 recentReflex, execVars, signalPc, chatPc, reflexAction>>

-----------------------------------------------------------------------------
(***************************************************************************)
(* executeCode.  The gate wants an idle, authenticated bot, no execution   *)
(* object left behind and a transport whose world is ready; a refused call *)
(* throws and changes nothing.                                             *)
(***************************************************************************)
\* Mutant: the status alone is trusted to exclude a second execution.
ExecuteGate_NoExecutionCheck(worldReady) ==
  ReadyGate(status, externalAuth) /\ worldReady

ExecuteGate(worldReady) ==
  /\ ReadyGate(status, externalAuth)
  /\ currentExecution = None
  /\ worldReady

ExecuteCode(j, worldReady) ==
  /\ execPc[j] = "new"
  /\ IF ExecuteGate(worldReady)
     THEN /\ Apply(ExecJobPulledDecision(status, TRUE))
          /\ currentTask' = j
          /\ currentExecution' = j
          /\ execPc' = [execPc EXCEPT ![j] = "running"]
     ELSE /\ execPc' = [execPc EXCEPT ![j] = "refused"]
          /\ UNCHANGED <<status, emittedEvents, currentTask, currentExecution>>
  /\ UNCHANGED <<externalAuth, chatWriteInFlight, recentReflex, interrupted,
                 interruptSignal, outcome, callerVars>>

(***************************************************************************)
(* executeRequest settles.  The sandbox reports an abort only when the     *)
(* execution was interrupted; a script that swallows the abort still ends  *)
(* "completed", and a request that is not even valid makes it throw.       *)
(***************************************************************************)
SandboxSettles(j, result) ==
  /\ execPc[j] = "running"
  /\ result = "interrupted" => interrupted[j]
  /\ result = "raised" => ~interrupted[j]
  /\ execPc' = [execPc EXCEPT ![j] = "returned"]
  /\ outcome' = [outcome EXCEPT ![j] = result]
  /\ UNCHANGED <<actorVars, interrupted, interruptSignal, callerVars>>

\* Mutant: the sandbox's own verdict is trusted instead of the flag.
WasInterrupted_BySandbox(j) == outcome[j] = "interrupted"

(* The execution object's flag, read when the continuation runs. *)
WasInterrupted(j) == interrupted[j]

(***************************************************************************)
(* The continuation after the await, with its catch and finally blocks.    *)
(* The interrupted flag is looked at again: it may have been set after the *)
(* sandbox had settled.  A result of an execution that was not interrupted *)
(* moves the state machine, an error ("raised") like a failure.  The result *)
(* of an interrupted one is replaced by an interrupted error, except an    *)
(* error of executeRequest itself, which is rethrown as it is.             *)
(***************************************************************************)
ExecuteCodeResumes(j) ==
  /\ execPc[j] = "returned"
  /\ execPc' = [execPc EXCEPT ![j] = "ended"]
  /\ IF WasInterrupted(j)
     THEN /\ outcome' = [outcome EXCEPT ![j] =
                           IF @ = "raised" THEN @ ELSE "interrupted"]
          /\ UNCHANGED <<status, emittedEvents, currentTask>>
     ELSE /\ Apply(TaskSettledDecision(status, outcome[j] = "completed"))
          /\ currentTask' = None
          /\ UNCHANGED outcome
  /\ currentExecution' = IF currentExecution = j THEN None ELSE currentExecution
  /\ UNCHANGED <<externalAuth, chatWriteInFlight, recentReflex, interrupted,
                 interruptSignal, callerVars>>

-----------------------------------------------------------------------------
(***************************************************************************)
(* interrupt.  An interrupt that is not accepted, the "queue" verdict      *)
(* included, returns without a trace.  An accepted one aborts the          *)
(* execution object, if one is left, whatever the status was: a reflex     *)
(* that finds the bot idle while an interrupted execution still drains     *)
(* replaces that execution's signal.  A reflex then awaits its action.     *)
(***************************************************************************)
\* Mutant: the execution object is not told.
AbortExecution_NotTold(s) == UNCHANGED <<interrupted, interruptSignal>>

AbortExecution(s) ==
  IF currentExecution = None
  THEN UNCHANGED <<interrupted, interruptSignal>>
  ELSE /\ interrupted' = [interrupted EXCEPT ![currentExecution] = TRUE]
       /\ interruptSignal' = [interruptSignal EXCEPT ![currentExecution] = s]

Interrupt(s) ==
  LET verdict  == InterruptVerdict(status, SourceOf(s))
      decision == InterruptDecision(status, SourceOf(s))
  IN
  /\ signalPc[s] = "new"
  /\ IF decision.accepted
     THEN /\ Apply(decision)
          /\ AbortExecution(s)
          /\ currentTask' = None
          /\ signalPc' = [signalPc EXCEPT ![s] =
                            IF s \in Reflexes THEN "reacting" ELSE "handled"]
          /\ reflexAction' = IF s \in Reflexes /\ HasReflexExecutor
                             THEN [reflexAction EXCEPT ![s] = "running"]
                             ELSE reflexAction
     ELSE /\ signalPc' = [signalPc EXCEPT ![s] =
                            IF verdict = "queue" THEN "queued" ELSE "ignored"]
          /\ UNCHANGED <<status, emittedEvents, interrupted, interruptSignal,
                         currentTask, reflexAction>>
  /\ UNCHANGED <<externalAuth, currentExecution, chatWriteInFlight, recentReflex,
                 execPc, outcome, startPc, chatPc>>

(***************************************************************************)
(* executeReflexAction returned: without an executor at once, otherwise    *)
(* when the action settles or 250 ms have passed.  A timeout only stops    *)
(* the waiting: the action itself goes on.                                 *)
(***************************************************************************)
ReflexSettles(s, summary) ==
  /\ signalPc[s] = "reacting"
  /\ HasReflexExecutor \/ summary = "completed"
  /\ signalPc' = [signalPc EXCEPT ![s] = "handled"]
  /\ recentReflex' = summary
  /\ reflexAction' = IF HasReflexExecutor /\ summary # "timed_out"
                     THEN [reflexAction EXCEPT ![s] = "ended"]
                     ELSE reflexAction
  /\ Apply(ReflexDoneDecision(status))
  /\ UNCHANGED <<externalAuth, currentTask, currentExecution, chatWriteInFlight,
                 execVars, startPc, chatPc>>

LateReflexActionEnds(s) ==
  /\ signalPc[s] = "handled"
  /\ reflexAction[s] = "running"
  /\ reflexAction' = [reflexAction EXCEPT ![s] = "ended"]
  /\ UNCHANGED <<actorVars, execVars, startPc, signalPc, chatPc>>

(* shutdown moves the status and nothing else. *)
Shutdown ==
  /\ ShutdownDecision(status).accepted
  /\ Apply(ShutdownDecision(status))
  /\ UNCHANGED <<externalAuth, currentTask, currentExecution, chatWriteInFlight,
                 recentReflex, execVars, callerVars>>

-----------------------------------------------------------------------------
(* Every caller has had its answer. *)
Terminated ==
  /\ status = "shutdown"
  /\ startPc \in {"started", "failed"}
  /\ \A j \in Jobs : execPc[j] \in {"ended", "refused"}
  /\ \A s \in Signals : signalPc[s] \in {"queued", "ignored", "handled"}
  /\ \A s \in Reflexes : reflexAction[s] # "running"
  /\ \A r \in Replies : chatPc[r] \notin {"new", "pending"}
  /\ chatWriteInFlight = None
  /\ UNCHANGED vars

StartStep == \/ StartConnecting
             \/ \E ok \in BOOLEAN : ConnectSettled(ok)
             \/ \E ok \in BOOLEAN : LoginSettled(ok)
             \/ StartReady

SandboxStep(j) == \E r \in Outcomes \ {"none"} : SandboxSettles(j, r)
ReflexStep(s)  == \E r \in ReflexSummary \ {"none"} : ReflexSettles(s, r)

Next ==
  \/ StartStep
  \/ \E r \in Replies : BroadcastReply(r)
  \/ \E w \in Writers, ok \in BOOLEAN : ChatSettled(w, ok)
  \/ \E j \in Jobs : \/ \E ready \in BOOLEAN : ExecuteCode(j, ready)
                     \/ SandboxChat(j)
                     \/ SandboxStep(j)
                     \/ ExecuteCodeResumes(j)
  \/ \E s \in Signals : Interrupt(s)
  \/ \E s \in Reflexes : ReflexStep(s) \/ LateReflexActionEnds(s)
  \/ Shutdown
  \/ Terminated

(***************************************************************************)
(* Fairness.  The connection attempt, the sandbox and the reflex race end  *)
(* by a timer (30 s, 120 s, 250 ms) and a continuation is never dropped by *)
(* the event loop.  Nothing bounds a chat write, and callers are free.     *)
(***************************************************************************)
Fairness ==
  /\ WF_vars(StartConnecting) /\ WF_vars(StartReady)
  /\ WF_vars(\E ok \in BOOLEAN : ConnectSettled(ok))
  /\ \A j \in Jobs : WF_vars(SandboxStep(j)) /\ WF_vars(ExecuteCodeResumes(j))
  /\ \A s \in Reflexes : WF_vars(ReflexStep(s))

Spec == Init /\ [][Next]_vars
FairSpec == Spec /\ Fairness

-----------------------------------------------------------------------------
(***************************************************************************)
(* Properties.                                                             *)
(***************************************************************************)

(* At most one executeCode call is between its start and its finally       *)
(* block, whoever calls and whenever: the single-writer rule of the        *)
(* architecture, kept by the currentExecution guard and not by the status, *)
(* which leaves "executing" while an interrupted sandbox still drains.     *)
SingleWriter == \A j, k \in Jobs : Live(j) /\ Live(k) => j = k

(* The status, the projected task and the execution object agree: the bot  *)
(* executes exactly when a live, uninterrupted execution holds it, which   *)
(* is then the task shown to the conversation side (a shutdown overrides   *)
(* the status only).                                                       *)
StatusMatchesExecution ==
  /\ status = "executing" =>
       /\ currentExecution # None
       /\ ~interrupted[currentExecution]
       /\ currentTask = currentExecution
  /\ \A j \in Jobs : Live(j) /\ ~interrupted[j] =>
       /\ status \in {"executing", "shutdown"}
       /\ currentExecution = j
  /\ currentTask # None => Live(currentTask) /\ ~interrupted[currentTask]

(* An execution that was interrupted before its continuation ran, even     *)
(* after its sandbox had settled, never counts as completed or failed, and *)
(* one that ends as interrupted carries the signal that did it.            *)
InterruptWins ==
  \A j \in Jobs :
    execPc[j] = "ended" =>
      /\ interrupted[j] => outcome[j] \in {"interrupted", "raised"}
      /\ outcome[j] = "interrupted" => interruptSignal[j] # None

(* The diagnostic log tells a consistent story: between two task.started   *)
(* there is exactly one task.completed, task.failed or task.interrupted,   *)
(* and none of these appears without its task.started; every task that is  *)
(* over closed its own, unless the actor was shut down meanwhile.          *)
TaskEvents == {"task.started", "task.completed", "task.failed", "task.interrupted"}

\* After the first n events a task is open: the last of its events is a task.started.
TaskOpen(log, n) ==
  \E i \in 1 .. n : /\ log[i] = "task.started"
                    /\ \A k \in i + 1 .. n : log[k] \notin TaskEvents
Alternate(log) ==
  \A k \in 1 .. Len(log) : log[k] \in TaskEvents =>
    (log[k] = "task.started" <=> ~TaskOpen(log, k - 1))

TaskEventsAlternate ==
  /\ Alternate(emittedEvents)
  /\ status \in {"idle", "reflexing"} => ~TaskOpen(emittedEvents, Len(emittedEvents))

(* Two chat writes are never pending together, and no reply or sandbox     *)
(* line is written before the login the server waits for went through.     *)
ChatIsSerial ==
  /\ \A v, w \in Writers :
       chatPc[v] = "pending" /\ chatPc[w] = "pending" => v = w
  /\ \A w \in Writers \ {Login} :
       chatPc[w] \in {"pending", "delivered", "failed"} => externalAuth # "pending"

(* A reflex reaction never runs beside a task that is still allowed to     *)
(* act: whatever execution is left has been told to stop.                  *)
ReflexExcludesTask ==
  status = "reflexing" =>
    /\ currentTask = None
    /\ \A j \in Jobs : Live(j) => interrupted[j]

(* The recorded reason of an interruption is settled by the first signal;  *)
(* only a reflex may replace it, and only while the execution drains.      *)
CauseReplacedOnlyByReflex ==
  [][\A j \in Jobs :
       interruptSignal[j] # None /\ interruptSignal'[j] # interruptSignal[j] =>
         /\ interruptSignal'[j] \in Reflexes
         /\ Live(j)]_vars

(* After shutdown no task starts and no interrupt is acted upon; chat      *)
(* already under way may still end.                                        *)
ShutdownIsFinal ==
  [][status = "shutdown" =>
       /\ status' = "shutdown"
       /\ UNCHANGED <<interrupted, interruptSignal>>
       /\ \A j \in Jobs : execPc'[j] = "running" => execPc[j] = "running"]_vars

(***************************************************************************)
(* The contract with the task pipeline (module ActorContract): the call    *)
(* that holds the bot is the one the execution object names, and it was    *)
(* told to stop when that object's flag is set.                            *)
(***************************************************************************)
Answered(j) == IF execPc[j] = "ended" THEN outcome[j]
               ELSE IF execPc[j] = "refused" THEN "refused"
               ELSE "none"

Contract == INSTANCE ActorContract WITH
  Messages <- Jobs,
  holder <- currentExecution,
  told   <- currentExecution # None /\ interrupted[currentExecution],
  answer <- [j \in Jobs |-> Answered(j)]

(* Whoever calls executeCode is refused at once or holds the bot alone     *)
(* until the call is answered, and a call that was told to stop is never   *)
(* answered with the result of its script.                                 *)
ContractSpec == Contract!ActorSpec

(* A task that runs gives the bot back: its call ends, whatever interrupts *)
(* it, and the bot does not stay in "executing" or "reflexing".            *)
ExecutionsEnd ==
  /\ \A j \in Jobs : Live(j) ~> execPc[j] = "ended"
  /\ status \in {"executing", "reflexing"} ~> status \in {"idle", "shutdown"}

=============================================================================
