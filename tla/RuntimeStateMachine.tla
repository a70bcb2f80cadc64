------------------------ MODULE RuntimeStateMachine ------------------------
(***************************************************************************)
(* The pure transition functions of the bot's runtime                      *)
(* (ts-core/src/runtime/state-machine.ts).  A decision is a record with    *)
(* the state to move to, whether the move is accepted, and the diagnostic  *)
(* events it emits; a rejected decision emits nothing and callers ignore   *)
(* its "to".  BotActor is the only caller and applies every decision in    *)
(* the step that asked for it.                                             *)
(***************************************************************************)
EXTENDS Sequences

BotStatus ==
  {"initializing", "idle", "executing", "reflexing", "dead", "shutdown"}

AuthStatus == {"not_required", "pending", "authenticated", "failed"}

(* Where an interrupt comes from; only "reflex" is treated apart. *)
InterruptSource == {"control", "reflex", "triage", "system"}

RuntimeEvents ==
  {"state.transition", "bot.ready", "bot.offline", "task.started",
   "task.completed", "task.failed", "task.interrupted", "reflex.triggered",
   "reflex.done", "chat.reply"}

(***************************************************************************)
(* The states reachable in one move.  Only INITIALIZING and IDLE may be    *)
(* "entered" from themselves; nothing leaves SHUTDOWN.                     *)
(***************************************************************************)
\* Mutant: a bot that was shut down may come back.
CanTransition_Revive(from, to) ==
  from = "shutdown" \/ to \in {"idle", "shutdown"} \/ from = "idle"
    \/ (from = "executing" /\ to = "reflexing")

CanTransition(from, to) ==
  \/ from = "initializing" /\ to \in {"initializing", "idle", "shutdown", "dead"}
  \/ from = "idle" /\ to \in {"idle", "executing", "reflexing", "dead", "shutdown"}
  \/ from = "executing" /\ to \in {"idle", "reflexing", "dead", "shutdown"}
  \/ from = "reflexing" /\ to \in {"idle", "dead", "shutdown"}
  \/ from = "dead" /\ to \in {"idle", "shutdown"}

(* createTransitionDecision: state.transition is added when the state moves. *)
DecideIf(from, to, events, accepted) ==
  [to       |-> to,
   accepted |-> accepted,
   events   |-> IF ~accepted THEN << >>
                ELSE IF from = to THEN events
                ELSE <<"state.transition">> \o events]

Decide(from, to, events) == DecideIf(from, to, events, CanTransition(from, to))

(* createRuntimeReadyGate: only an idle bot whose login is settled may work. *)
ReadyGate(status, auth) ==
  /\ status = "idle"
  /\ auth \notin {"pending", "failed"}

(***************************************************************************)
(* resolveInterruptDecision.  A reflex may pre-empt an idle or executing   *)
(* bot; any other source only an executing one.  While the bot starts or   *)
(* reacts the verdict is "queue", and "ignore" once it is dead or down:    *)
(* neither is an accepted transition.                                      *)
(***************************************************************************)
\* Mutant: a control signal is taken by an idle bot as well.
InterruptVerdict_IdleTakesAny(status, source) ==
  IF status \in {"idle", "executing"} THEN "transition"
  ELSE IF status \in {"initializing", "reflexing"} THEN "queue"
  ELSE "ignore"

InterruptVerdict(status, source) ==
  IF status = "executing" \/ (status = "idle" /\ source = "reflex") THEN "transition"
  ELSE IF status \in {"initializing", "reflexing"} THEN "queue"
  ELSE "ignore"

\* Mutant: task.interrupted is sent whether a task runs or not.
InterruptEvents_AlwaysTask(status, source) ==
  <<"task.interrupted">> \o IF source = "reflex" THEN <<"reflex.triggered">> ELSE << >>

InterruptEvents(status, source) ==
  (IF status = "executing" THEN <<"task.interrupted">> ELSE << >>)
    \o (IF source = "reflex" THEN <<"reflex.triggered">> ELSE << >>)

InterruptDecision(status, source) ==
  LET target == IF source = "reflex" THEN "reflexing" ELSE "idle"
  IN  IF InterruptVerdict(status, source) = "transition"
      THEN Decide(status, target, InterruptEvents(status, source))
      ELSE DecideIf(status, status, << >>, FALSE)

(* resolveTransition, one operator per reason a caller gives. *)
ReadyDecision(status, auth) ==
  DecideIf(status, "idle", <<"bot.ready">>,
           CanTransition(status, "idle") /\ ReadyGate("idle", auth))

ExecJobPulledDecision(status, fresh) ==
  IF fresh THEN Decide(status, "executing", <<"task.started">>)
           ELSE Decide(status, "idle", <<"task.discarded">>)

TaskSettledDecision(status, completed) ==
  Decide(status, "idle", <<IF completed THEN "task.completed" ELSE "task.failed">>)

\* Mutant: the bot tries to go back to the task the reflex pre-empted.
ReflexDoneDecision_Resume(status) == Decide(status, "executing", <<"reflex.done">>)

ReflexDoneDecision(status) == Decide(status, "idle", <<"reflex.done">>)

ShutdownDecision(status) == Decide(status, "shutdown", <<"bot.offline">>)
=============================================================================
