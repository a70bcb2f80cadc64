----------------------------- MODULE BotWorker -----------------------------
(***************************************************************************)
(* The worker that takes jobs from the bot's exec queue                    *)
(* (ts-core/src/workers/bot-worker.ts, processTask) and the sink its       *)
(* lifecycle actions go to (app/entrypoint.ts, actionSink; workers/        *)
(* task-history-sink.ts; db/task-history.ts).  It handles one job at a     *)
(* time.  Every await is a point where other steps may run, and every      *)
(* write of the sink may fail, before or after it took effect.             *)
(*                                                                         *)
(* The queue, the epoch counter and the task_history rows live in Redis    *)
(* and PostgreSQL; the worker's own state dies with the process.  The      *)
(* actor is ActorContract's.                                               *)
(***************************************************************************)
EXTENDS ActorContract, Naturals, Sequences

CONSTANT SinkMayFail

ASSUME WorkerAssumption == None \notin Messages /\ SinkMayFail \in BOOLEAN

VARIABLES
  epoch,           \* the bot's intent epoch (Redis counter)
  intentEpoch,     \* the epoch each message was stamped with
  execQueue,       \* the exec job of each message, by its job id
  history,         \* the status column of each task_history row
  brainQueue,      \* the status the brain job of each task carries
  starts,          \* the executions the actor accepted, in order
  \* the worker
  workerPc, current, verdict, inCatch

workerVars == <<workerPc, current, verdict, inCatch>>
storeVars  == <<epoch, intentEpoch>>

Verdicts == {"completed", "failed", "interrupted"}

WorkerInit ==
  /\ epoch = 0 /\ intentEpoch = [m \in Messages |-> 0]
  /\ execQueue = [m \in Messages |-> "absent"]
  /\ history = [m \in Messages |-> "none"]
  /\ brainQueue = [m \in Messages |-> "none"]
  /\ starts = << >>
  /\ workerPc = "idle" /\ current = None /\ verdict = "none" /\ inCatch = FALSE
  /\ ActorInit

-----------------------------------------------------------------------------
WorkerIdles ==
  workerPc' = "idle" /\ current' = None /\ verdict' = "none" /\ inCatch' = FALSE

JobEnds(status) ==
  /\ execQueue' = [execQueue EXCEPT ![current] = status]
  /\ WorkerIdles

(* Start to emit a terminal status. *)
Settle(status, caught) ==
  /\ workerPc' = "emit_terminal" /\ verdict' = status /\ inCatch' = caught
  /\ UNCHANGED <<current, execQueue>>

(***************************************************************************)
(* An await of the job throws.  Around the execution there is a try block, *)
(* whose catch emits a failed status; an error before it, or of the catch  *)
(* block itself, fails the job.  A failed job is not tried again.          *)
(***************************************************************************)
\* Mutant: an error of the catch block is caught again.
Throws_Forever ==
  IF workerPc \in {"emit_terminal", "emit_brain", "emit_experience"}
  THEN Settle("failed", TRUE)
  ELSE JobEnds("failed")

Throws ==
  IF workerPc \in {"emit_terminal", "emit_brain", "emit_experience"} /\ ~inCatch
  THEN Settle("failed", TRUE)
  ELSE JobEnds("failed")

(* An await that throws, and one whose write took effect. *)
Failures == IF SinkMayFail THEN {FALSE} ELSE {}
Oks      == {TRUE} \cup Failures

(* UPDATE task_history ... WHERE id = m, whatever the row says. *)
UpdatedRow(m, status) ==
  IF history[m] = "none" THEN history ELSE [history EXCEPT ![m] = status]

(* The sink for a lifecycle action: the row first, then the rest. *)
WriteRow(status, ok) ==
  history' \in IF ok THEN {UpdatedRow(current, status)}
                     ELSE {history, UpdatedRow(current, status)}

-----------------------------------------------------------------------------
PullJob(m) ==
  /\ workerPc = "idle" /\ execQueue[m] = "waiting"
  /\ execQueue' = [execQueue EXCEPT ![m] = "active"]
  /\ workerPc' = "reading_epoch" /\ current' = m
  /\ UNCHANGED <<storeVars, history, brainQueue, starts, verdict, inCatch, actorVars>>

\* Mutants: no look at the epoch; the bound is off by one.
Fresh_Always(m) == TRUE
Fresh_OffByOne(m) == intentEpoch[m] + 1 >= epoch

(* The epoch guard: a job is stale once a later message was stamped. *)
Fresh(m) == intentEpoch[m] >= epoch

ReadEpoch(ok) ==
  /\ workerPc = "reading_epoch"
  /\ IF ok
     THEN /\ workerPc' = IF Fresh(current) THEN "emit_started" ELSE "emit_discarded"
          /\ UNCHANGED <<current, verdict, inCatch, execQueue>>
     ELSE Throws
  /\ UNCHANGED <<storeVars, history, brainQueue, starts, actorVars>>

EmitDiscarded(ok) ==
  /\ workerPc = "emit_discarded"
  /\ WriteRow("discarded", ok)
  /\ IF ok THEN JobEnds("completed") ELSE Throws
  /\ UNCHANGED <<storeVars, brainQueue, starts, actorVars>>

EmitStarted(ok) ==
  /\ workerPc = "emit_started"
  /\ WriteRow("started", ok)
  /\ IF ok THEN workerPc' = "calling" /\ UNCHANGED <<current, verdict, inCatch, execQueue>>
           ELSE Throws
  /\ UNCHANGED <<storeVars, brainQueue, starts, actorVars>>

(* actor.executeCode, inside the try block: a refusal is caught.           *)
CallExecuteCode ==
  /\ workerPc = "calling"
  /\ \/ /\ Take(current)
        /\ starts' = Append(starts, current)
        /\ workerPc' = "executing" /\ UNCHANGED <<current, verdict, inCatch, execQueue>>
     \/ Refuse(current) /\ Settle("failed", TRUE) /\ UNCHANGED starts
  /\ UNCHANGED <<storeVars, history, brainQueue>>

(***************************************************************************)
(* The actor answers.  A completed execution counts as failed when its     *)
(* result summary says so; an interruption and an error of the request     *)
(* arrive as exceptions.                                                   *)
(***************************************************************************)
\* Mutant: an interruption that arrives as an error is taken for success.
VerdictOf_InterruptCompletes(r) ==
  IF r \in {"completed", "interrupted"} THEN {"completed", "failed"} ELSE {"failed"}

VerdictOf(r) ==
  IF r = "completed" THEN {"completed", "failed"}
  ELSE IF r = "interrupted" THEN {"interrupted"}
  ELSE {"failed"}

ActorAnswers(r) ==
  /\ workerPc = "executing"
  /\ Answer(current, r)
  /\ \E v \in VerdictOf(r) : Settle(v, r \in {"raised", "interrupted"})
  /\ UNCHANGED <<storeVars, history, brainQueue, starts>>

(* The three terminal actions, in their order. *)
EmitTerminal(ok) ==
  /\ workerPc = "emit_terminal"
  /\ WriteRow(verdict, ok)
  /\ IF ok THEN workerPc' = "emit_brain" /\ UNCHANGED <<current, verdict, inCatch, execQueue>>
           ELSE Throws
  /\ UNCHANGED <<storeVars, brainQueue, starts, actorVars>>

(* The brain job's id is the message id: a second add changes nothing. *)
AddedBrainJob ==
  IF brainQueue[current] # "none" THEN brainQueue
  ELSE [brainQueue EXCEPT ![current] = verdict]

EmitBrain(ok) ==
  /\ workerPc = "emit_brain"
  /\ brainQueue' \in IF ok THEN {AddedBrainJob} ELSE {brainQueue, AddedBrainJob}
  /\ IF ok THEN workerPc' = "emit_experience" /\ UNCHANGED <<current, verdict, inCatch, execQueue>>
           ELSE Throws
  /\ UNCHANGED <<storeVars, history, starts, actorVars>>

(* A failure that was emitted is thrown again, so the job fails too. *)
EmitExperience(ok) ==
  /\ workerPc = "emit_experience"
  /\ IF ok THEN JobEnds(IF verdict = "failed" THEN "failed" ELSE "completed") ELSE Throws
  /\ UNCHANGED <<storeVars, history, brainQueue, starts, actorVars>>

WorkerStep ==
  \/ CallExecuteCode
  \/ \E ok \in Oks : \/ ReadEpoch(ok) \/ EmitDiscarded(ok) \/ EmitStarted(ok)
                     \/ EmitTerminal(ok) \/ EmitBrain(ok) \/ EmitExperience(ok)

WorkerPulls == \E m \in Messages : PullJob(m)
ExecutionEnds == \E r \in Answers : ActorAnswers(r)
=============================================================================
