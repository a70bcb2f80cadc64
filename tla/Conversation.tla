---------------------------- MODULE Conversation ----------------------------
(***************************************************************************)
(* The conversation worker's talk about one message (workers/              *)
(* conversation-worker) and what it leaves for the next: the recent        *)
(* context, the inventory baseline and the failure capsules that BotWorker *)
(* adds to the context when a task ends.  A message that asks to go on     *)
(* continues the latest failure: its task joins the failure's recovery     *)
(* chain, and must not repeat the action that failed.                      *)
(*                                                                         *)
(* The worker handles a message at a time; the bot runs beside it.  The    *)
(* control words that bypass the worker, the queues' redeliveries and what *)
(* the history records are TaskPipeline's.                                 *)
(***************************************************************************)
EXTENDS RecentContext, FiniteSets

CONSTANTS
  N,             \* messages
  Acts,          \* what a plan may consist of
  Codes,         \* the failure codes of executions
  Stock          \* what the inventory may hold of an item

Messages == 1 .. N

ASSUME ConversationAssumption == N \in Nat /\ Stock \subseteq Int /\ None \notin Int

VARIABLES
  received,      \* messages received so far; the last one is the intent epoch
  talk,          \* the message the worker handles, and what it holds of it
  jobs,          \* the exec queue
  bot,           \* BotWorker and the task it has
  context,       \* the recent context
  baseline,      \* the inventory the next change is counted from, or None
  told,          \* the inventory as the prompts told it, or None
  capsules       \* every failure that was put into the context

vars == <<received, talk, jobs, bot, context, baseline, told, capsules>>

Silent == [msg |-> 0, pc |-> "idle", acts |-> FALSE, failure |-> None, stock |-> None,
           change |-> 0, job |-> None]
Unused == [msg |-> 0, pc |-> "idle", told |-> FALSE, caught |-> FALSE, capsule |-> None,
           completed |-> FALSE]

Absent == [state |-> "absent", act |-> None, chain |-> None, count |-> 0]
Gone == [Absent EXCEPT !.state = "gone"]

Init ==
  /\ received = 0 /\ talk = Silent /\ bot = Unused
  /\ jobs = [m \in Messages |-> Absent]
  /\ context = << >> /\ baseline = None /\ told = None /\ capsules = {}

TalkEnds == talk' = [Silent EXCEPT !.msg = talk.msg]

At(pc) == talk.pc = pc
\* what was read for a step is dropped after it
Goto(pc) == talk' = [Silent EXCEPT !.msg = talk.msg, !.acts = talk.acts, !.pc = pc]

Receive ==
  /\ received < N /\ received' = received + 1
  /\ UNCHANGED <<talk, jobs, bot, context, baseline, told, capsules>>

Pull ==
  /\ At("idle") /\ talk.msg < received
  /\ talk' = [Silent EXCEPT !.msg = talk.msg + 1, !.pc = "triage"]
  /\ UNCHANGED <<received, jobs, bot, context, baseline, told, capsules>>

-----------------------------------------------------------------------------
(***************************************************************************)
(* The triage wants to cancel, to chat and to act, in this order, or some  *)
(* of them.  (A cancel beside an action that the owner's words do not ask  *)
(* for is dropped, which leaves another of these sets.)  A cancel tells    *)
(* the running task to stop, and is answered by a template unless there is *)
(* a chat.  An error ends the talk, and with it what was left to do.       *)
(***************************************************************************)
Wants == SUBSET {"cancel", "chat", "action"} \ {{}}

Triage(wants) ==
  /\ At("triage")
  /\ talk' = [talk EXCEPT !.acts = "action" \in wants,
                          !.pc = IF "chat" \in wants THEN "chat"
                                 ELSE IF "cancel" \in wants THEN "saying" ELSE "plan"]
  /\ bot' = IF "cancel" \in wants /\ bot.pc = "running" THEN [bot EXCEPT !.told = TRUE]
            ELSE bot
  /\ UNCHANGED <<received, jobs, context, baseline, told, capsules>>

TriageFails ==
  /\ At("triage") /\ TalkEnds
  /\ UNCHANGED <<received, jobs, bot, context, baseline, told, capsules>>

(* A prompt says how the inventory changed since the baseline; nothing, if *)
(* there is no baseline or no snapshot.                                    *)
Prepared(pc, stock) ==
  talk' = [talk EXCEPT !.pc = pc, !.stock = stock,
                       !.change = IF None \in {stock, baseline} THEN 0 ELSE stock - baseline]

(* The LLM is called with the prompt: told adds up what it says.           *)
Sent == told' = IF None \in {talk.stock, told} THEN (IF told = None THEN talk.stock ELSE told)
                ELSE told + talk.change

(* Then the baseline moves, whatever the LLM answers.                      *)
AdvanceBaseline == baseline' = IF talk.stock = None THEN baseline ELSE talk.stock

ChatPrompt(stock) ==
  /\ At("chat") /\ Prepared("answering", stock)
  /\ UNCHANGED <<received, jobs, bot, context, baseline, told, capsules>>

\* Mutant: the baseline moves only when the LLM answered.
ReplyGenerator_AdvanceOnSuccess(ok) ==
  /\ At("answering") /\ Sent
  /\ IF ok THEN Goto("saying") /\ AdvanceBaseline ELSE TalkEnds /\ UNCHANGED baseline
  /\ UNCHANGED <<received, jobs, bot, context, capsules>>

ReplyGenerator(ok) ==
  /\ At("answering") /\ Sent /\ AdvanceBaseline
  /\ IF ok THEN Goto("saying") ELSE TalkEnds
  /\ UNCHANGED <<received, jobs, bot, context, capsules>>

(* The owner's line and the reply enter the context once it was sent.      *)
Say(ok) ==
  context' = IF ok THEN Recorded(context, talk.msg, None) ELSE context

BroadcastReply(ok) ==
  /\ At("saying") /\ Say(ok)
  /\ IF ok /\ talk.acts THEN Goto("plan") ELSE TalkEnds
  /\ UNCHANGED <<received, jobs, bot, baseline, told, capsules>>

-----------------------------------------------------------------------------
(***************************************************************************)
(* The plan.  The failure is read first, before anything is awaited; a     *)
(* message that does not ask to go on has none.                            *)
(***************************************************************************)
ReadLatestFailure(continues) ==
  /\ At("plan")
  /\ talk' = [talk EXCEPT !.pc = "context",
                          !.failure = IF continues THEN LatestFailure(context) ELSE None]
  /\ UNCHANGED <<received, jobs, bot, context, baseline, told, capsules>>

Blocked == talk.failure # None /\ RecoveryClass(talk.failure.code) = "implementation_blocker"

(* A failure of the program itself is reported and not planned around: the *)
(* prompt that was prepared is never sent.                                 *)
PlanningContext(stock) ==
  /\ At("context")
  /\ IF Blocked THEN Goto("refusing") ELSE Prepared("planning", stock)
  /\ UNCHANGED <<received, jobs, bot, context, baseline, told, capsules>>

Repeats(act) == talk.failure # None /\ talk.failure.act = act

PlannedJob(act) ==
  IF talk.failure = None THEN [state |-> "waiting", act |-> act, chain |-> None, count |-> 0]
  ELSE [state |-> "waiting", act |-> act, chain |-> talk.failure.chain,
        count |-> talk.failure.count + 1]

(* The code enters the context and is on its way to the queue.             *)
Dispatch(act) ==
  /\ talk' = [Silent EXCEPT !.msg = talk.msg, !.pc = "queueing", !.job = PlannedJob(act)]
  /\ context' = Recorded(context, talk.msg, None)

\* Mutant: a plan that repeats the failure is asked for again.
Planner_AskAgain(act) ==
  /\ At("planning") /\ Sent /\ AdvanceBaseline
  /\ IF act = None THEN Goto("refusing") /\ UNCHANGED context
     ELSE IF Repeats(act) THEN Goto("plan") /\ UNCHANGED context
     ELSE Dispatch(act)
  /\ UNCHANGED <<received, jobs, bot, capsules>>

(* The planner gives up (None), or its plan is refused, or it is accepted. *)
Planner(act) ==
  /\ At("planning") /\ Sent /\ AdvanceBaseline
  /\ IF act = None \/ Repeats(act) THEN Goto("refusing") /\ UNCHANGED context
     ELSE Dispatch(act)
  /\ UNCHANGED <<received, jobs, bot, capsules>>

(* The row or the job may not be written; the code stays in the context.   *)
Enqueue(written) ==
  /\ At("queueing") /\ TalkEnds
  /\ jobs' = IF written THEN [jobs EXCEPT ![talk.msg] = talk.job] ELSE jobs
  /\ UNCHANGED <<received, bot, context, baseline, told, capsules>>

Refuse(ok) ==
  /\ At("refusing") /\ Say(ok) /\ TalkEnds
  /\ UNCHANGED <<received, jobs, bot, baseline, told, capsules>>

-----------------------------------------------------------------------------
(***************************************************************************)
(* The bot.  A waiting task that is older than the last message is         *)
(* discarded, and one whose start cannot be recorded is over.  A task that *)
(* was told to stop comes back with an error, and its summary names no     *)
(* failure unless the error is another one.                                *)
(***************************************************************************)
Executions == [end : {"completed", "failed", "interrupted", "raised", "cancelled"},
               report : {"none", "reached", "missed"},
               proof : {"toolchain", "skill", "partial", "none"},
               code : Codes, act : Acts]

ResultOf(x) == [completed |-> TaskStatus(x) = "completed", capsule |-> Capsule(x),
                caught |-> x.end \in {"raised", "cancelled"}]

Results == {ResultOf(x) : x \in Executions}

TakeTask(m, recorded) ==
  /\ bot.pc = "idle" /\ jobs[m].state = "waiting"
  /\ IF m < received \/ ~recorded
     THEN jobs' = [jobs EXCEPT ![m] = Gone] /\ UNCHANGED bot
     ELSE /\ jobs' = [jobs EXCEPT ![m].state = "active"]
          /\ bot' = [Unused EXCEPT !.msg = m, !.pc = "running"]
  /\ UNCHANGED <<received, talk, context, baseline, told, capsules>>

TaskEnds(result) ==
  /\ bot.pc = "running" /\ (bot.told => result.caught)
  /\ bot' = [bot EXCEPT !.pc = "ended", !.told = FALSE, !.caught = result.caught,
                        !.capsule = result.capsule, !.completed = result.completed]
  /\ UNCHANGED <<received, talk, jobs, context, baseline, told, capsules>>

\* Mutant: every failure begins a chain of its own.
FailureOf_NewChain(m, capsule) ==
  [msg |-> m, code |-> capsule.code, act |-> capsule.act, chain |-> m, count |-> 0]

(* The brain's task carries the capsule to the conversation.  The chain is *)
(* the job's, or a new one that the message begins.                        *)
FailureOf(m, capsule) ==
  [msg |-> m, code |-> capsule.code, act |-> capsule.act,
   chain |-> IF jobs[m].chain = None THEN m ELSE jobs[m].chain, count |-> jobs[m].count]

EnqueueBrain ==
  /\ bot.pc = "ended" /\ bot' = [bot EXCEPT !.pc = "recorded", !.capsule = None]
  /\ IF bot.capsule = None THEN UNCHANGED <<context, capsules>>
     ELSE LET failure == FailureOf(bot.msg, bot.capsule) IN
          /\ context' = Recorded(context, bot.msg, failure)
          /\ capsules' = capsules \cup {failure}
  /\ UNCHANGED <<received, talk, jobs, baseline, told>>

BotIdles == bot' = Unused /\ jobs' = [jobs EXCEPT ![bot.msg] = Gone]

(* The experience of a task that did not complete ends with its error.     *)
PersistExperience ==
  /\ bot.pc = "recorded" /\ BotIdles
  /\ context' = IF bot.completed THEN context ELSE Recorded(context, bot.msg, None)
  /\ UNCHANGED <<received, talk, baseline, told, capsules>>

(* A sink that fails, before the capsule is in the context or after it, is *)
(* itself an error of the task: it is caught, and the task is recorded a   *)
(* second time, as failed with that error.  An error of the record that    *)
(* the catch block makes ends the job.                                     *)
SinkFails ==
  /\ bot.pc \in {"ended", "recorded"}
  /\ IF bot.caught THEN BotIdles
     ELSE /\ bot' = [bot EXCEPT !.pc = "ended", !.caught = TRUE, !.completed = FALSE,
                                !.capsule = [code |-> "unknown_error", act |-> None]]
          /\ UNCHANGED jobs
  /\ UNCHANGED <<received, talk, context, baseline, told, capsules>>

-----------------------------------------------------------------------------
Shots == Stock \cup {None}

TalkStep ==
  \/ Pull \/ TriageFails
  \/ \E wants \in Wants : Triage(wants)
  \/ \E stock \in Shots : ChatPrompt(stock) \/ PlanningContext(stock)
  \/ \E ok \in BOOLEAN : \/ ReplyGenerator(ok) \/ BroadcastReply(ok) \/ Refuse(ok)
                         \/ ReadLatestFailure(ok) \/ Enqueue(ok)
  \/ \E act \in Acts \cup {None} : Planner(act)

BotStep ==
  \/ \E m \in Messages, recorded \in BOOLEAN : TakeTask(m, recorded)
  \/ \E result \in Results : TaskEnds(result)
  \/ EnqueueBrain \/ PersistExperience \/ SinkFails

Done ==
  /\ received = N /\ talk.msg = N /\ At("idle") /\ bot.pc = "idle"
  /\ \A m \in Messages : jobs[m].state # "waiting"
  /\ UNCHANGED vars

Next == Receive \/ TalkStep \/ BotStep \/ Done

(* The workers take what waits for them, and what they await ends.         *)
Spec == Init /\ [][Next]_vars /\ WF_vars(TalkStep) /\ WF_vars(BotStep)

-----------------------------------------------------------------------------
(* A task in a recovery chain was preceded by a failure: of another        *)
(* message, in the same chain, one step earlier, for a reason that is      *)
(* worth another try, and by an action that the new plan does not repeat.  *)
(* If it fails in its turn, however often its end is recorded, the failure *)
(* is in its chain and its step.  A chain begins with the failure of the   *)
(* message it is named for.                                                *)
ChainsLinkFailures ==
  /\ \A m \in Messages : jobs[m].chain # None =>
       \E f \in capsules : /\ f.msg < m /\ f.chain = jobs[m].chain
                           /\ f.count + 1 = jobs[m].count
                           /\ RecoveryClass(f.code) # "implementation_blocker"
                           /\ f.act # jobs[m].act
  /\ \A f \in capsules : jobs[f.msg].chain # None =>
       f.chain = jobs[f.msg].chain /\ f.count = jobs[f.msg].count
  /\ \A f \in capsules : f.count = 0 <=> f.chain = f.msg

(* Every change of the inventory is told to the LLM once: the changes the  *)
(* prompts told add up from the first inventory to the baseline, whichever *)
(* LLM call failed and whichever prompt was prepared and never sent.       *)
InventoryToldOnce ==
  baseline # None => told = baseline

(* The conversation keeps up: again and again every message that came was  *)
(* talked about to the end, and its task, if it got one, is gone; no       *)
(* refusal, failure or continuation goes round in a circle.                *)
KeepsUp == []<>(/\ At("idle") /\ talk.msg = received /\ bot.pc = "idle"
                /\ \A m \in Messages : jobs[m].state \in {"absent", "gone"})
=============================================================================
