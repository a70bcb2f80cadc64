---------------------------- MODULE TaskPipeline ----------------------------
(***************************************************************************)
(* From the owner's chat line to the task's end: the server bridge stamps  *)
(* each message with a new intent epoch and recognises control words       *)
(* (app/entrypoint.ts), the conversation worker triages a message, cancels *)
(* and plans (workers/conversation-worker), and BotWorker executes.  All   *)
(* of them run in one process, which may crash; BullMQ gives a job that    *)
(* was being handled then to the next worker, once.                        *)
(***************************************************************************)
EXTENDS BotWorker, FiniteSets

CONSTANTS Controls, MaxCrashes

ASSUME PipelineAssumption == Controls \subseteq Messages /\ MaxCrashes \in Nat

VARIABLES
  bridge,        \* how far the bridge is with each message
  convQueue,     \* the conversation queue, first in first out
  talking,       \* the message the conversation worker handles
  talkPc,        \* where it stands
  orphans,       \* conversation jobs whose worker died
  stalledOnce,   \* jobs that were given to a second worker
  crashes,
  startsAtCancel \* how many executions had started when a message cancelled

convVars == <<convQueue, talking, talkPc, orphans>>
faultVars == <<stalledOnce, crashes>>
vars == <<storeVars, execQueue, history, brainQueue, starts, workerVars, actorVars,
          bridge, convVars, faultVars, startsAtCancel>>

Init ==
  /\ WorkerInit
  /\ bridge = [m \in Messages |-> "new"]
  /\ convQueue = << >> /\ talking = None /\ talkPc = "idle" /\ orphans = {}
  /\ stalledOnce = {} /\ crashes = 0
  /\ startsAtCancel = [m \in Messages |-> None]

-----------------------------------------------------------------------------
(* An interrupt on behalf of m. *)
Cancel(m) ==
  /\ Tell
  /\ startsAtCancel' = [startsAtCancel EXCEPT ![m] = Len(starts)]

(* The bridge: INCR first, and only then a look at the message. *)
Stamp(m) ==
  /\ bridge[m] = "new"
  /\ epoch' = epoch + 1
  /\ intentEpoch' = [intentEpoch EXCEPT ![m] = epoch + 1]
  /\ bridge' = [bridge EXCEPT ![m] = "stamped"]
  /\ UNCHANGED <<execQueue, history, brainQueue, starts, workerVars, actorVars,
                 convVars, faultVars, startsAtCancel>>

ControlFastPath(m) ==
  /\ bridge[m] = "stamped" /\ m \in Controls
  /\ bridge' = [bridge EXCEPT ![m] = "handled"]
  /\ Cancel(m)
  /\ UNCHANGED <<storeVars, execQueue, history, brainQueue, starts, workerVars,
                 convVars, faultVars>>

EnqueueConversationTask(m, ok) ==
  /\ bridge[m] = "stamped" /\ m \notin Controls
  /\ bridge' = [bridge EXCEPT ![m] = IF ok THEN "handled" ELSE "lost"]
  /\ convQueue' = IF ok THEN Append(convQueue, m) ELSE convQueue
  /\ UNCHANGED <<storeVars, execQueue, history, brainQueue, starts, workerVars,
                 actorVars, talking, talkPc, orphans, faultVars, startsAtCancel>>

-----------------------------------------------------------------------------
(***************************************************************************)
(* The conversation worker: one message at a time.  Triage may cancel, at  *)
(* once; then come the reply and the planning, if the triage wants them.   *)
(* An error of the triage, a reply that fails or a planner that gives up   *)
(* ends the job without a task.                                            *)
(***************************************************************************)
PullConversation ==
  /\ talkPc = "idle" /\ convQueue # << >>
  /\ talking' = Head(convQueue) /\ convQueue' = Tail(convQueue) /\ talkPc' = "triage"
  /\ UNCHANGED <<storeVars, execQueue, history, brainQueue, starts, workerVars,
                 actorVars, bridge, orphans, faultVars, startsAtCancel>>

TalkEnds == talking' = None /\ talkPc' = "idle"

Triage(cancels) ==
  /\ talkPc = "triage"
  /\ talkPc' = "planning" /\ UNCHANGED talking
  /\ IF cancels THEN Cancel(talking) ELSE UNCHANGED <<actorVars, startsAtCancel>>
  /\ UNCHANGED <<storeVars, execQueue, history, brainQueue, starts, workerVars,
                 bridge, convQueue, orphans, faultVars>>

Plan(acts) ==
  /\ talkPc = "planning"
  /\ IF acts THEN talkPc' = "accepting" /\ UNCHANGED talking ELSE TalkEnds
  /\ UNCHANGED <<storeVars, execQueue, history, brainQueue, starts, workerVars,
                 actorVars, bridge, convQueue, orphans, faultVars, startsAtCancel>>

(* INSERT ... ON CONFLICT DO NOTHING: the row is there before the job. *)
AcceptedRow ==
  IF history[talking] = "none" THEN [history EXCEPT ![talking] = "accepted"] ELSE history

AcceptTask(ok) ==
  /\ talkPc = "accepting"
  /\ history' \in IF ok THEN {AcceptedRow} ELSE {history, AcceptedRow}
  /\ IF ok THEN talkPc' = "queueing" /\ UNCHANGED talking ELSE TalkEnds
  /\ UNCHANGED <<storeVars, execQueue, brainQueue, starts, workerVars, actorVars,
                 bridge, convQueue, orphans, faultVars, startsAtCancel>>

(* queue.add with the message id as job id: a known job is left alone. *)
AddedJob ==
  IF execQueue[talking] = "absent" THEN [execQueue EXCEPT ![talking] = "waiting"]
                                   ELSE execQueue

EnqueueExecTask(ok) ==
  /\ talkPc = "queueing"
  /\ execQueue' \in IF ok THEN {AddedJob} ELSE {execQueue, AddedJob}
  /\ TalkEnds
  /\ UNCHANGED <<storeVars, history, brainQueue, starts, workerVars, actorVars,
                 bridge, convQueue, orphans, faultVars, startsAtCancel>>

-----------------------------------------------------------------------------
(***************************************************************************)
(* The process dies and starts again with an idle bot.  What the bridge    *)
(* had not handed over is lost; jobs in hand stay active in Redis until    *)
(* BullMQ finds that nobody renews their lock.                             *)
(***************************************************************************)
Crash ==
  /\ crashes < MaxCrashes
  /\ crashes' = crashes + 1
  /\ WorkerIdles
  /\ holder' = None /\ told' = FALSE
  /\ TalkEnds
  /\ orphans' = orphans \cup ({talking} \ {None})
  /\ bridge' = [m \in Messages |-> IF bridge[m] = "stamped" THEN "lost" ELSE bridge[m]]
  /\ UNCHANGED <<storeVars, execQueue, history, brainQueue, starts, answer, convQueue,
                 stalledOnce, startsAtCancel>>

StalledExecJob(m) ==
  /\ execQueue[m] = "active" /\ current # m
  /\ execQueue' = [execQueue EXCEPT ![m] =
                     IF <<"exec", m>> \in stalledOnce THEN "failed" ELSE "waiting"]
  /\ stalledOnce' = stalledOnce \cup {<<"exec", m>>}
  /\ UNCHANGED <<storeVars, history, brainQueue, starts, workerVars, actorVars,
                 bridge, convVars, crashes, startsAtCancel>>

StalledConversation(m) ==
  /\ m \in orphans /\ orphans' = orphans \ {m}
  /\ convQueue' = IF <<"conversation", m>> \in stalledOnce THEN convQueue
                  ELSE <<m>> \o convQueue
  /\ stalledOnce' = stalledOnce \cup {<<"conversation", m>>}
  /\ UNCHANGED <<storeVars, execQueue, history, brainQueue, starts, workerVars,
                 actorVars, bridge, talking, talkPc, crashes, startsAtCancel>>

-----------------------------------------------------------------------------
others == <<bridge, convVars, faultVars, startsAtCancel>>

BotWorkerStep == (WorkerPulls \/ WorkerStep \/ ExecutionEnds) /\ UNCHANGED others

BridgeStep == \E m \in Messages : \/ Stamp(m) \/ ControlFastPath(m)
                                  \/ \E ok \in Oks : EnqueueConversationTask(m, ok)

ConversationStep ==
  \/ PullConversation
  \/ \E cancels \in BOOLEAN : Triage(cancels)
  \/ \E acts \in BOOLEAN : Plan(acts)
  \/ \E ok \in Oks : AcceptTask(ok) \/ EnqueueExecTask(ok)

StalledStep == \E m \in Messages : StalledConversation(m) \/ StalledExecJob(m)

Terminated ==
  /\ \A m \in Messages : /\ bridge[m] \in {"handled", "lost"}
                         /\ execQueue[m] \in {"absent", "completed", "failed"}
  /\ talkPc = "idle" /\ convQueue = << >> /\ orphans = {}
  /\ UNCHANGED vars

Next == BridgeStep \/ ConversationStep \/ BotWorkerStep \/ Crash \/ StalledStep \/ Terminated

(* The workers take what is waiting and every await ends; messages and     *)
(* crashes are free.                                                       *)
Fairness ==
  /\ WF_vars(ConversationStep)
  /\ WF_vars(BotWorkerStep)
  /\ WF_vars(StalledStep)

Spec == Init /\ [][Next]_vars
FairSpec == Spec /\ Fairness

-----------------------------------------------------------------------------
(* Tasks start in the order the owner spoke, whatever the priorities in    *)
(* the exec queue, the planning times and the crashes: a task that starts  *)
(* is never older than one that started before it.  They run one at a      *)
(* time: the actor is only ever held by the job in the worker's hands.     *)
StartsInIntentOrder ==
  /\ \A i, k \in 1 .. Len(starts) :
       i < k => intentEpoch[starts[i]] <= intentEpoch[starts[k]]
  /\ holder # None => holder = current /\ execQueue[current] = "active"

(* A cancel stops what is older than it, except for at most one task: the  *)
(* one the worker had already found fresh and not yet given to the actor.  *)
OneTaskSurvivesACancel ==
  \A c \in Messages : startsAtCancel[c] # None =>
    Cardinality({i \in startsAtCancel[c] + 1 .. Len(starts) :
                   intentEpoch[starts[i]] < intentEpoch[c]}) <= 1

(* What is recorded of a task that was handled once never says more than   *)
(* the actor answered: a task that was told to stop, refused or failed is  *)
(* completed neither in the history nor for the brain, whichever write of  *)
(* the sink fails.  No job is in the queue before its row.                 *)
Redelivered(m) == <<"exec", m>> \in stalledOnce

RecordsAreTruthful ==
  \A m \in Messages :
    /\ execQueue[m] # "absent" => history[m] # "none"
    /\ ~Redelivered(m) =>
         /\ "completed" \in {history[m], brainQueue[m]} => answer[m] = "completed"
         /\ "interrupted" \in {history[m], brainQueue[m]} => answer[m] = "interrupted"
         /\ brainQueue[m] # "none" => history[m] \in Verdicts

(* Every job in the exec queue is settled, whatever fails or crashes.      *)
JobsSettle ==
  \A m \in Messages : execQueue[m] = "waiting" ~> execQueue[m] \in {"completed", "failed"}
=============================================================================
