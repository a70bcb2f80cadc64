--------------------------- MODULE BotActorProofs ---------------------------
(***************************************************************************)
(* Proofs about BotActor for any sets of jobs, signals and replies.  The   *)
(* inductive invariant ties the execution object to the status and to the  *)
(* two awaits that could move the status behind an execution's back: the   *)
(* ready transition of start and the end of a reflex.                      *)
(***************************************************************************)
EXTENDS BotActor, SequenceTheorems, TLAPS

Decisions == [to : BotStatus, accepted : BOOLEAN, events : Seq(RuntimeEvents)]

(* What each decision of the state machine can do to the status.           *)
LEMMA DecideIfType ==
  ASSUME NEW from \in BotStatus, NEW to \in BotStatus,
         NEW events \in Seq(RuntimeEvents), NEW accepted \in BOOLEAN
  PROVE  DecideIf(from, to, events, accepted) \in Decisions
<1>1. <<"state.transition">> \in Seq(RuntimeEvents)
  BY DEF RuntimeEvents
<1>2. <<"state.transition">> \o events \in Seq(RuntimeEvents)
  BY <1>1
<1>3. << >> \in Seq(RuntimeEvents)
  OBVIOUS
<1> QED
  BY <1>2, <1>3 DEF DecideIf, Decisions

(* The transition table answers yes or no for every pair of statuses.      *)
LEMMA CanTransitionType ==
  ASSUME NEW from \in BotStatus, NEW to \in BotStatus
  PROVE  CanTransition(from, to) \in BOOLEAN
  BY DEF CanTransition

(* A login that is pending keeps start from making the bot ready; otherwise *)
(* the ready transition leads to idle, and never out of shutdown.           *)
LEMMA ReadyDecisionFacts ==
  ASSUME NEW st \in BotStatus, NEW auth \in AuthStatus
  PROVE  /\ ReadyDecision(st, auth) \in Decisions
         /\ ReadyDecision(st, auth).accepted => /\ ReadyDecision(st, auth).to = "idle"
                                                /\ auth # "pending"
                                                /\ st # "shutdown"
<1>1. <<"bot.ready">> \in Seq(RuntimeEvents)
  BY DEF RuntimeEvents
<1>2. /\ CanTransition(st, "idle") \in BOOLEAN
      /\ ReadyGate("idle", auth) \in BOOLEAN
  BY DEF CanTransition, ReadyGate
<1>3. ReadyDecision(st, auth) \in Decisions
  BY <1>1, <1>2, DecideIfType, ZenonT(40) DEF ReadyDecision, BotStatus
<1>4. CanTransition("shutdown", "idle") = FALSE
  BY DEF CanTransition
<1> QED
  BY <1>3, <1>4 DEF ReadyDecision, DecideIf, ReadyGate

(* An idle bot with an open gate accepts an exec job and is then executing. *)
LEMMA ExecJobPulledFacts ==
  /\ ExecJobPulledDecision("idle", TRUE) \in Decisions
  /\ ExecJobPulledDecision("idle", TRUE).accepted
  /\ ExecJobPulledDecision("idle", TRUE).to = "executing"
<1>1. <<"task.started">> \in Seq(RuntimeEvents)
  BY DEF RuntimeEvents
<1>2. CanTransition("idle", "executing") = TRUE
  BY DEF CanTransition
<1>3. ExecJobPulledDecision("idle", TRUE) \in Decisions
  BY <1>1, <1>2, DecideIfType DEF ExecJobPulledDecision, Decide, BotStatus
<1> QED
  BY <1>2, <1>3 DEF ExecJobPulledDecision, Decide, DecideIf

(* The end of a task is accepted by an executing bot, never after shutdown, *)
(* and leads to idle.                                                       *)
LEMMA TaskSettledFacts ==
  ASSUME NEW st \in BotStatus, NEW ok \in BOOLEAN
  PROVE  /\ TaskSettledDecision(st, ok) \in Decisions
         /\ TaskSettledDecision(st, ok).accepted => TaskSettledDecision(st, ok).to = "idle"
         /\ st = "executing" => TaskSettledDecision(st, ok).accepted
         /\ st = "shutdown" => ~TaskSettledDecision(st, ok).accepted
<1>1. <<IF ok THEN "task.completed" ELSE "task.failed">> \in Seq(RuntimeEvents)
  BY DEF RuntimeEvents
<1>2. CanTransition(st, "idle") \in BOOLEAN
  BY DEF CanTransition
<1>3. TaskSettledDecision(st, ok) \in Decisions
  BY <1>1, <1>2, DecideIfType DEF TaskSettledDecision, Decide, BotStatus
<1>4. /\ CanTransition("executing", "idle") = TRUE
      /\ CanTransition("shutdown", "idle") = FALSE
  BY DEF CanTransition
<1> QED
  BY <1>3, <1>4 DEF TaskSettledDecision, Decide, DecideIf

(* The end of a reflex is accepted by a reflexing bot, never after          *)
(* shutdown, and leads to idle.                                             *)
LEMMA ReflexDoneFacts ==
  ASSUME NEW st \in BotStatus
  PROVE  /\ ReflexDoneDecision(st) \in Decisions
         /\ ReflexDoneDecision(st).accepted => ReflexDoneDecision(st).to = "idle"
         /\ st = "reflexing" => ReflexDoneDecision(st).accepted
         /\ st = "shutdown" => ~ReflexDoneDecision(st).accepted
<1>1. <<"reflex.done">> \in Seq(RuntimeEvents)
  BY DEF RuntimeEvents
<1>2. CanTransition(st, "idle") \in BOOLEAN
  BY DEF CanTransition
<1>3. ReflexDoneDecision(st) \in Decisions
  BY <1>1, <1>2, DecideIfType DEF ReflexDoneDecision, Decide, BotStatus
<1>4. /\ CanTransition("reflexing", "idle") = TRUE
      /\ CanTransition("shutdown", "idle") = FALSE
  BY DEF CanTransition
<1> QED
  BY <1>3, <1>4 DEF ReflexDoneDecision, Decide, DecideIf

(* A shutdown that is accepted leads to shutdown.                          *)
LEMMA ShutdownFacts ==
  ASSUME NEW st \in BotStatus
  PROVE  /\ ShutdownDecision(st) \in Decisions
         /\ ShutdownDecision(st).accepted => ShutdownDecision(st).to = "shutdown"
<1>1. <<"bot.offline">> \in Seq(RuntimeEvents)
  BY DEF RuntimeEvents
<1>2. CanTransition(st, "shutdown") \in BOOLEAN
  BY DEF CanTransition
<1>3. ShutdownDecision(st) \in Decisions
  BY <1>1, <1>2, DecideIfType DEF ShutdownDecision, Decide, BotStatus
<1> QED
  BY <1>3 DEF ShutdownDecision, Decide, DecideIf

(* A reflex that is accepted makes an idle or executing bot reflexing; any  *)
(* other source is accepted by an executing bot only and makes it idle.     *)
LEMMA InterruptFacts ==
  ASSUME NEW st \in BotStatus, NEW source \in {"reflex", "control"}
  PROVE  LET d == InterruptDecision(st, source)
         IN  /\ d \in Decisions
             /\ d.accepted => /\ st \in {"idle", "executing"}
                              /\ d.to = IF source = "reflex" THEN "reflexing" ELSE "idle"
                              /\ st = "idle" => source = "reflex"
<1>1. /\ InterruptEvents(st, source) \in Seq(RuntimeEvents)
      /\ << >> \in Seq(RuntimeEvents)
  <2>1. /\ <<"task.interrupted">> \in Seq(RuntimeEvents)
        /\ <<"reflex.triggered">> \in Seq(RuntimeEvents)
        /\ << >> \in Seq(RuntimeEvents)
    BY DEF RuntimeEvents
  <2> QED
    BY <2>1 DEF InterruptEvents
<1>2. \A to \in BotStatus : CanTransition(st, to) \in BOOLEAN
  BY DEF CanTransition
<1> DEFINE target == IF source = "reflex" THEN "reflexing" ELSE "idle"
<1>3. target \in BotStatus
  BY DEF BotStatus
<1>4. CASE InterruptVerdict(st, source) = "transition"
  <2>1. InterruptDecision(st, source) = Decide(st, target, InterruptEvents(st, source))
    BY <1>4 DEF InterruptDecision
  <2>2. Decide(st, target, InterruptEvents(st, source)) \in Decisions
    BY <1>1, <1>2, <1>3, DecideIfType DEF Decide
  <2>3. /\ st \in {"idle", "executing"}
        /\ st = "idle" => source = "reflex"
    BY <1>4 DEF InterruptVerdict, BotStatus
  <2>4. Decide(st, target, InterruptEvents(st, source)).to = target
    BY DEF Decide, DecideIf
  <2> QED
    BY <2>1, <2>2, <2>3, <2>4
<1>5. CASE InterruptVerdict(st, source) # "transition"
  <2>1. InterruptDecision(st, source) = DecideIf(st, st, << >>, FALSE)
    BY <1>5 DEF InterruptDecision
  <2>2. DecideIf(st, st, << >>, FALSE) \in Decisions
    BY <1>1, DecideIfType
  <2>3. DecideIf(st, st, << >>, FALSE).accepted = FALSE
    BY DEF DecideIf
  <2> QED
    BY <2>1, <2>2, <2>3
<1> QED
  BY <1>4, <1>5

-----------------------------------------------------------------------------
(***************************************************************************)
(* The inductive invariant.  None of the safety properties is inductive by *)
(* itself: whether the ready transition of start or the end of a reflex    *)
(* may free a bot that executes depends on where those two calls stand.    *)
(***************************************************************************)
(* The execution object names the one call that is live.                   *)
ExecutionInv == \A j \in Jobs : Live(j) <=> currentExecution = j

(* Until start is over nobody but shutdown has moved the status.           *)
StartInv == startPc # "started" => status \in {"initializing", "shutdown"}

(* At most one reflex is awaited, and it keeps the bot in "reflexing".     *)
ReflexInv ==
  \A s \in Reflexes : signalPc[s] = "reacting" =>
    /\ status \in {"reflexing", "shutdown"}
    /\ \A r \in Reflexes : signalPc[r] = "reacting" => r = s

(* Flag, signal and outcome of an execution go together.                   *)
InterruptInv ==
  \A j \in Jobs :
    /\ interrupted[j] <=> interruptSignal[j] # None
    /\ interrupted[j] => execPc[j] \notin {"new", "refused"}
    /\ outcome[j] = "interrupted" => interrupted[j]
    /\ execPc[j] = "returned" => outcome[j] # "none"
    /\ execPc[j] = "ended" /\ interrupted[j] => outcome[j] \in {"interrupted", "raised"}

(* The slot names the pending write; nothing runs before the login.        *)
ChatInv ==
  /\ \A w \in Writers : chatPc[w] = "pending" => chatWriteInFlight = w
  /\ \A w \in Writers \ {Login} :
       chatPc[w] \in {"pending", "delivered", "failed"} => externalAuth # "pending"
  /\ \A j \in Jobs :
       execPc[j] \in {"running", "returned", "ended"} => externalAuth # "pending"

IInv ==
  /\ TypeOK
  /\ ExecutionInv
  /\ StatusMatchesExecution
  /\ StartInv
  /\ ReflexInv
  /\ InterruptInv
  /\ ChatInv

(* Applying a decision keeps the status and the event log in their types.  *)
LEMMA ApplyFacts ==
  ASSUME TypeOK, NEW d \in Decisions, Apply(d)
  PROVE  /\ status' = IF d.accepted THEN d.to ELSE status
         /\ status' \in BotStatus
         /\ emittedEvents' \in Seq(RuntimeEvents)
<1>1. d.events \in Seq(RuntimeEvents) /\ emittedEvents \in Seq(RuntimeEvents)
  BY DEF Decisions, TypeOK
<1>2. emittedEvents \o d.events \in Seq(RuntimeEvents)
  BY <1>1
<1> QED
  BY <1>2 DEF Apply, Decisions, TypeOK

(* The initial states satisfy the inductive invariant.                     *)
LEMMA InitInv == Init => IInv
<1> SUFFICES ASSUME Init PROVE IInv
  OBVIOUS
<1>1. TypeOK
  BY ActorAssumption DEF Init, TypeOK, BotStatus, AuthStatus, ExecPc, Outcomes,
     StartPc, SignalPc, ChatPc, ReflexSummary
<1>2. ExecutionInv /\ StatusMatchesExecution
  BY ActorAssumption DEF Init, ExecutionInv, StatusMatchesExecution, Live
<1>3. StartInv /\ ReflexInv /\ InterruptInv /\ ChatInv
  BY ActorAssumption DEF Init, StartInv, ReflexInv, InterruptInv, ChatInv, Signals, Writers
<1> QED
  BY <1>1, <1>2, <1>3 DEF IInv

(* actor.start, with its connect, login and ready awaits, keeps the        
   invariant.                                                              *)
LEMMA StartSteps ==
  ASSUME IInv, StartStep
  PROVE  IInv'
<1> USE ActorAssumption DEF IInv, TypeOK, Writers, Signals
<1>1. CASE StartConnecting
  BY <1>1 DEF StartConnecting, StartPc, ExecutionInv, StatusMatchesExecution, Live,
     StartInv, ReflexInv, InterruptInv, ChatInv, actorVars, execVars
<1>2. ASSUME NEW ok \in BOOLEAN, ConnectSettled(ok)
      PROVE  IInv'
  BY <1>2 DEF ConnectSettled, BeginChatWrite, StartPc, ChatPc, ExecutionInv,
     StatusMatchesExecution, Live, StartInv, ReflexInv, InterruptInv, ChatInv, execVars
<1>3. ASSUME NEW ok \in BOOLEAN, LoginSettled(ok)
      PROVE  IInv'
  BY <1>3 DEF LoginSettled, EndChatWrite, StartPc, ChatPc, AuthStatus, RuntimeEvents, ExecutionInv,
     StatusMatchesExecution, Live, StartInv, ReflexInv, InterruptInv, ChatInv, execVars
<1>4. CASE StartReady
  BY <1>4, ReadyDecisionFacts, ApplyFacts DEF StartReady, StartPc, ExecutionInv,
     StatusMatchesExecution, Live, StartInv, ReflexInv, InterruptInv, ChatInv, execVars
<1> QED
  BY <1>1, <1>2, <1>3, <1>4 DEF StartStep

(* broadcastReply and the end of any chat write keep the invariant.        *)
LEMMA ChatSteps ==
  ASSUME IInv,
         \/ \E r \in Replies : BroadcastReply(r)
         \/ \E j \in Jobs : SandboxChat(j)
         \/ \E w \in Writers, ok \in BOOLEAN : ChatSettled(w, ok)
  PROVE  IInv'
<1> USE ActorAssumption DEF IInv, TypeOK, Writers, Signals
<1>1. ASSUME NEW r \in Replies, BroadcastReply(r)
      PROVE  IInv'
  BY <1>1 DEF BroadcastReply, BroadcastReplyGate, BeginChatWrite, ChatPc, ExecutionInv,
     StatusMatchesExecution, Live, StartInv, ReflexInv, InterruptInv, ChatInv, execVars
<1>2. ASSUME NEW j \in Jobs, SandboxChat(j)
      PROVE  IInv'
  BY <1>2 DEF SandboxChat, BeginChatWrite, ChatPc, ExecutionInv,
     StatusMatchesExecution, Live, StartInv, ReflexInv, InterruptInv, ChatInv, execVars
<1>3. ASSUME NEW w \in Writers, NEW ok \in BOOLEAN, ChatSettled(w, ok)
      PROVE  IInv'
  BY <1>3 DEF ChatSettled, EndChatWrite, ChatPc, RuntimeEvents, ExecutionInv,
     StatusMatchesExecution, Live, StartInv, ReflexInv, InterruptInv, ChatInv, execVars
<1> QED
  BY <1>1, <1>2, <1>3

(* executeCode up to its await of the sandbox keeps the invariant.         *)
LEMMA ExecuteCodeStep ==
  ASSUME IInv, NEW j \in Jobs, NEW ready \in BOOLEAN, ExecuteCode(j, ready)
  PROVE  IInv'
<1> USE ActorAssumption DEF IInv, TypeOK, Writers, Signals
<1>1. CASE ~ExecuteGate(ready)
  <2>1. /\ execPc' = [execPc EXCEPT ![j] = "refused"] /\ execPc[j] = "new"
        /\ UNCHANGED <<actorVars, interrupted, interruptSignal, outcome, callerVars>>
    BY <1>1 DEF ExecuteCode, actorVars
  <2>2. TypeOK'
    BY <2>1 DEF ExecPc, actorVars, callerVars
  <2>3. ExecutionInv' /\ StatusMatchesExecution' /\ StartInv' /\ ReflexInv'
    BY <2>1 DEF ExecutionInv, StatusMatchesExecution, Live, StartInv, ReflexInv,
       actorVars, callerVars
  <2>4. InterruptInv' /\ ChatInv'
    BY <2>1 DEF InterruptInv, ChatInv, actorVars, callerVars
  <2> QED
    BY <2>2, <2>3, <2>4
<1>2. CASE ExecuteGate(ready)
  <2>1. /\ status = "idle" /\ externalAuth # "pending"
        /\ currentExecution = None
        /\ execPc[j] = "new"
    BY <1>2 DEF ExecuteGate, ReadyGate, ExecuteCode
  <2>2. /\ status' = "executing"
        /\ emittedEvents' \in Seq(RuntimeEvents)
    BY <1>2, <2>1, ExecJobPulledFacts, ApplyFacts DEF ExecuteCode
  <2>3. /\ currentTask' = j /\ currentExecution' = j
        /\ execPc' = [execPc EXCEPT ![j] = "running"]
        /\ UNCHANGED <<externalAuth, chatWriteInFlight, recentReflex, interrupted,
                       interruptSignal, outcome, callerVars>>
    BY <1>2 DEF ExecuteCode
  <2>4. ~interrupted[j]
    BY <2>1 DEF InterruptInv
  <2>5. TypeOK'
    BY <2>2, <2>3 DEF ExecPc, BotStatus, callerVars
  <2>6. ExecutionInv' /\ StatusMatchesExecution'
    BY <2>1, <2>2, <2>3, <2>4 DEF ExecutionInv, StatusMatchesExecution, Live
  <2>7. StartInv' /\ ReflexInv' /\ InterruptInv' /\ ChatInv'
    BY <2>1, <2>2, <2>3 DEF StartInv, ReflexInv, InterruptInv, ChatInv, callerVars
  <2> QED
    BY <2>5, <2>6, <2>7
<1> QED
  BY <1>1, <1>2

(* The sandbox settling, before the continuation runs, keeps the           
   invariant.                                                              *)
LEMMA SandboxSettlesStep ==
  ASSUME IInv, NEW j \in Jobs, NEW r \in Outcomes \ {"none"}, SandboxSettles(j, r)
  PROVE  IInv'
BY DEF IInv, TypeOK, SandboxSettles, ExecPc, ExecutionInv, StatusMatchesExecution, Live,
   StartInv, ReflexInv, InterruptInv, ChatInv, callerVars, actorVars

(* The continuation of executeCode with its finally block keeps the        
   invariant.                                                              *)
LEMMA ExecuteCodeResumesStep ==
  ASSUME IInv, NEW j \in Jobs, ExecuteCodeResumes(j)
  PROVE  IInv'
<1> USE ActorAssumption DEF IInv, TypeOK, Writers, Signals
<1>1. /\ execPc[j] = "returned" /\ execPc' = [execPc EXCEPT ![j] = "ended"]
      /\ currentExecution = j /\ currentExecution' = None
      /\ UNCHANGED <<externalAuth, chatWriteInFlight, recentReflex, interrupted,
                     interruptSignal, callerVars>>
  BY DEF ExecuteCodeResumes, ExecutionInv, Live
<1>2. ExecutionInv'
  BY <1>1 DEF ExecutionInv, Live
<1>3. CASE interrupted[j]
  <2>1. /\ UNCHANGED <<status, emittedEvents, currentTask>>
        /\ outcome' = [outcome EXCEPT ![j] = IF @ = "raised" THEN @ ELSE "interrupted"]
    BY <1>3 DEF ExecuteCodeResumes, WasInterrupted
  <2>2. TypeOK'
    BY <1>1, <2>1 DEF ExecPc, Outcomes, callerVars
  <2>3. StatusMatchesExecution'
    BY <1>1, <1>3, <2>1 DEF StatusMatchesExecution, ExecutionInv, Live
  <2>4. StartInv' /\ ReflexInv' /\ InterruptInv' /\ ChatInv'
    BY <1>1, <1>3, <2>1 DEF StartInv, ReflexInv, InterruptInv, ChatInv, callerVars
  <2> QED
    BY <1>2, <2>2, <2>3, <2>4
<1>4. CASE ~interrupted[j]
  <2> DEFINE d == TaskSettledDecision(status, outcome[j] = "completed")
  <2>1. status \in {"executing", "shutdown"}
    BY <1>1, <1>4 DEF StatusMatchesExecution, Live
  <2>2. /\ currentTask' = None /\ UNCHANGED outcome /\ Apply(d)
    BY <1>4 DEF ExecuteCodeResumes, WasInterrupted
  <2>3. /\ status' = IF status = "executing" THEN "idle" ELSE "shutdown"
        /\ emittedEvents' \in Seq(RuntimeEvents)
    BY <2>1, <2>2, TaskSettledFacts, ApplyFacts
  <2>4. TypeOK'
    BY <1>1, <2>2, <2>3 DEF ExecPc, BotStatus, callerVars
  <2>5. StatusMatchesExecution'
    BY <1>1, <2>2, <2>3 DEF StatusMatchesExecution, ExecutionInv, Live
  <2>6. StartInv' /\ ReflexInv'
    BY <1>1, <2>1, <2>3 DEF StartInv, ReflexInv, callerVars
  <2>7. InterruptInv' /\ ChatInv'
    BY <1>1, <1>4, <2>2 DEF InterruptInv, ChatInv, callerVars
  <2> QED
    BY <1>2, <2>4, <2>5, <2>6, <2>7
<1> QED
  BY <1>3, <1>4

(* interrupt, for a reflex and for any other source, keeps the invariant.  *)
LEMMA InterruptSteps ==
  ASSUME IInv, NEW s \in Signals, Interrupt(s)
  PROVE  IInv'
<1> USE ActorAssumption DEF IInv, TypeOK, Writers, Signals
<1>1. CASE InterruptDecision(status, SourceOf(s)).accepted
  <2> DEFINE d == InterruptDecision(status, SourceOf(s))
  <2>1. /\ d \in Decisions
        /\ status \in {"idle", "executing"}
        /\ d.to = IF s \in Reflexes THEN "reflexing" ELSE "idle"
        /\ status = "idle" => s \in Reflexes
    BY <1>1, InterruptFacts DEF SourceOf
  <2>2. /\ status' = IF s \in Reflexes THEN "reflexing" ELSE "idle"
        /\ emittedEvents' \in Seq(RuntimeEvents)
    <3>1. Apply(d)
      BY <1>1 DEF Interrupt
    <3> QED
      BY <1>1, <2>1, <3>1, ApplyFacts
  <2>3. /\ currentTask' = None
        /\ AbortExecution(s)
        /\ signalPc' = [signalPc EXCEPT ![s] = IF s \in Reflexes THEN "reacting" ELSE "handled"]
        /\ reflexAction' \in [Reflexes -> {"none", "running", "ended"}]
        /\ UNCHANGED <<externalAuth, currentExecution, chatWriteInFlight, recentReflex,
                       execPc, outcome, startPc, chatPc>>
    BY <1>1 DEF Interrupt
  <2>4. ASSUME NEW k \in Jobs, Live(k)
        PROVE  interrupted'[k] /\ currentExecution = k
    BY <2>3, <2>4 DEF AbortExecution, ExecutionInv
  <2>5. TypeOK'
    <3>1. /\ interrupted' \in [Jobs -> BOOLEAN]
          /\ interruptSignal' \in [Jobs -> Signals \cup {None}]
      BY <2>3 DEF AbortExecution
    <3>2. signalPc' \in [Signals -> SignalPc]
      BY <2>3 DEF SignalPc
    <3> QED
      BY <2>2, <2>3, <3>1, <3>2 DEF BotStatus
  <2>6. ExecutionInv' /\ StatusMatchesExecution'
    BY <2>2, <2>3, <2>4 DEF ExecutionInv, StatusMatchesExecution, Live
  <2>7. StartInv' /\ ReflexInv' /\ ChatInv'
    BY <2>1, <2>2, <2>3 DEF StartInv, ReflexInv, ChatInv
  <2>8. InterruptInv'
    BY <2>3 DEF InterruptInv, AbortExecution, ExecutionInv, Live
  <2> QED
    BY <2>5, <2>6, <2>7, <2>8
<1>2. CASE ~InterruptDecision(status, SourceOf(s)).accepted
  BY <1>2 DEF Interrupt, SignalPc, ExecutionInv, StatusMatchesExecution, Live, StartInv,
     ReflexInv, InterruptInv, ChatInv
<1> QED
  BY <1>1, <1>2

(* The end of a reflex, its time limit and its action keep the invariant.  *)
LEMMA ReflexSteps ==
  ASSUME IInv, NEW s \in Reflexes, ReflexStep(s) \/ LateReflexActionEnds(s)
  PROVE  IInv'
<1> USE ActorAssumption DEF IInv, TypeOK, Writers, Signals
<1>1. ASSUME NEW r \in ReflexSummary \ {"none"}, ReflexSettles(s, r)
      PROVE  IInv'
  BY <1>1, ReflexDoneFacts, ApplyFacts DEF ReflexSettles, SignalPc, ExecutionInv,
     StatusMatchesExecution, Live, StartInv, ReflexInv, InterruptInv, ChatInv, execVars
<1>2. CASE LateReflexActionEnds(s)
  BY <1>2 DEF LateReflexActionEnds, ExecutionInv, StatusMatchesExecution, Live, StartInv,
     ReflexInv, InterruptInv, ChatInv, execVars, actorVars
<1> QED
  BY <1>1, <1>2 DEF ReflexStep

(* shutdown keeps the invariant.                                           *)
LEMMA ShutdownStep ==
  ASSUME IInv, Shutdown
  PROVE  IInv'
BY ShutdownFacts, ApplyFacts DEF IInv, TypeOK, Shutdown, ExecutionInv,
   StatusMatchesExecution, Live, StartInv, ReflexInv, InterruptInv, ChatInv,
   execVars, callerVars

(* A step that changes no variable keeps the invariant.                    *)
LEMMA StutterStep ==
  ASSUME IInv, UNCHANGED vars
  PROVE  IInv'
BY DEF IInv, TypeOK, vars, actorVars, execVars, callerVars, ExecutionInv,
   StatusMatchesExecution, Live, StartInv, ReflexInv, InterruptInv, ChatInv

(* The inductive invariant holds in every reachable state, for any jobs,   
   signals and replies: the three facts Init, step and stutter combined.   *)
THEOREM Invariance == Spec => []IInv
<1>1. IInv /\ [Next]_vars => IInv'
  <2> SUFFICES ASSUME IInv, [Next]_vars
               PROVE  IInv'
    OBVIOUS
  <2>1. ASSUME NEW w \in Writers, NEW ok \in BOOLEAN, ChatSettled(w, ok)
        PROVE  IInv'
    BY <2>1, ChatSteps
  <2>2. CASE StartStep \/ \E r \in Replies : BroadcastReply(r)
    BY <2>2, StartSteps, ChatSteps
  <2>3. ASSUME NEW j \in Jobs,
               \/ \E ready \in BOOLEAN : ExecuteCode(j, ready)
               \/ SandboxChat(j)
               \/ SandboxStep(j)
               \/ ExecuteCodeResumes(j)
        PROVE  IInv'
    BY <2>3, ExecuteCodeStep, SandboxSettlesStep, ExecuteCodeResumesStep, ChatSteps
       DEF SandboxStep
  <2>4. ASSUME NEW s \in Signals, Interrupt(s)
        PROVE  IInv'
    BY <2>4, InterruptSteps
  <2>5. ASSUME NEW s \in Reflexes, ReflexStep(s) \/ LateReflexActionEnds(s)
        PROVE  IInv'
    BY <2>5, ReflexSteps
  <2>6. CASE Shutdown \/ Terminated \/ UNCHANGED vars
    BY <2>6, ShutdownStep, StutterStep DEF Terminated
  <2> QED
    BY <2>1, <2>2, <2>3, <2>4, <2>5, <2>6 DEF Next
<1> QED
  BY InitInv, <1>1, PTL DEF Spec

(* Every variable keeps its type.                                          *)
THEOREM TypeCorrect == Spec => []TypeOK
<1>1. IInv => TypeOK
  BY DEF IInv
<1> QED
  BY Invariance, <1>1, PTL

(* Two executeCode calls never hold the bot together, whatever the number  *)
(* of callers, signals and replies.                                        *)
THEOREM OneWriter == Spec => []SingleWriter
<1>1. IInv => SingleWriter
  BY DEF IInv, ExecutionInv, SingleWriter
<1> QED
  BY Invariance, <1>1, PTL

(* Status, projected task and execution object always agree.               *)
THEOREM StatusAgrees == Spec => []StatusMatchesExecution
<1>1. IInv => StatusMatchesExecution
  BY DEF IInv
<1> QED
  BY Invariance, <1>1, PTL

(* An interrupted execution never ends as completed or failed.             *)
THEOREM InterruptionSticks == Spec => []InterruptWins
<1>1. IInv => InterruptWins
  BY DEF IInv, InterruptInv, InterruptWins
<1> QED
  BY Invariance, <1>1, PTL

(* While a reflex reacts, whatever execution is left was told to stop.     *)
THEOREM ReflexIsAlone == Spec => []ReflexExcludesTask
<1>1. IInv => ReflexExcludesTask
  BY ActorAssumption DEF IInv, TypeOK, StatusMatchesExecution, ReflexExcludesTask
<1> QED
  BY Invariance, <1>1, PTL

(* Chat writes never overlap and none precedes the login.                  *)
THEOREM ChatSerialised == Spec => []ChatIsSerial
<1>1. IInv => ChatIsSerial
  BY DEF IInv, ChatInv, ChatIsSerial
<1> QED
  BY Invariance, <1>1, PTL

(* The steps other than interrupt leave the flags and signals alone.       *)
LEMMA OnlyInterruptAborts ==
  ASSUME [Next]_vars
  PROVE  \/ UNCHANGED <<interrupted, interruptSignal>>
         \/ \E s \in Signals : Interrupt(s)
BY DEF Next, vars, actorVars, execVars, callerVars, StartStep, StartConnecting, ConnectSettled,
   LoginSettled, StartReady, BroadcastReply, ChatSettled, ExecuteCode, SandboxChat,
   SandboxStep, SandboxSettles, ExecuteCodeResumes, ReflexStep, ReflexSettles,
   LateReflexActionEnds, Shutdown, Terminated

(* The reason of an interruption is replaced by nothing but a reflex that  *)
(* finds the execution still draining.                                     *)
THEOREM CauseSticks == Spec => CauseReplacedOnlyByReflex
<1> DEFINE A == \A j \in Jobs :
       interruptSignal[j] # None /\ interruptSignal'[j] # interruptSignal[j] =>
         /\ interruptSignal'[j] \in Reflexes
         /\ Live(j)
<1>1. IInv /\ [Next]_vars => A
  <2> SUFFICES ASSUME IInv, [Next]_vars, NEW j \in Jobs,
                      interruptSignal[j] # None,
                      interruptSignal'[j] # interruptSignal[j]
               PROVE  interruptSignal'[j] \in Reflexes /\ Live(j)
    OBVIOUS
  <2>1. PICK s \in Signals : Interrupt(s)
    BY OnlyInterruptAborts
  <2>2. InterruptDecision(status, SourceOf(s)).accepted
    BY <2>1 DEF Interrupt
  <2>3. /\ AbortExecution(s)
        /\ status = "idle" => SourceOf(s) = "reflex"
        /\ status \in {"idle", "executing"}
    BY <2>1, <2>2, InterruptFacts DEF Interrupt, SourceOf, IInv, TypeOK
  <2>4. j = currentExecution /\ interruptSignal'[j] = s
    BY <2>3 DEF AbortExecution, IInv, TypeOK
  <2>5. interrupted[j] /\ Live(j)
    BY <2>4, ActorAssumption DEF IInv, InterruptInv, ExecutionInv
  <2>6. status # "executing"
    BY <2>4, <2>5 DEF IInv, StatusMatchesExecution
  <2> QED
    BY <2>3, <2>4, <2>5, <2>6, ActorAssumption DEF SourceOf, Signals
<1> QED
  BY Invariance, <1>1, PTL DEF Spec, CauseReplacedOnlyByReflex

(* Nothing leaves SHUTDOWN: no task starts and no signal is acted upon.    *)
THEOREM ShutdownSticks == Spec => ShutdownIsFinal
<1> DEFINE A == status = "shutdown" =>
       /\ status' = "shutdown"
       /\ UNCHANGED <<interrupted, interruptSignal>>
       /\ \A j \in Jobs : execPc'[j] = "running" => execPc[j] = "running"
<1>1. IInv /\ [Next]_vars => A
  <2> SUFFICES ASSUME IInv, [Next]_vars, status = "shutdown"
               PROVE  /\ status' = "shutdown"
                      /\ UNCHANGED <<interrupted, interruptSignal>>
                      /\ \A j \in Jobs : execPc'[j] = "running" => execPc[j] = "running"
    OBVIOUS
  <2> USE DEF IInv
  <2>1. CASE StartStep
    BY <2>1, ReadyDecisionFacts DEF StartStep, StartConnecting, ConnectSettled, LoginSettled,
       StartReady, Apply, TypeOK, actorVars, execVars
  <2>2. ASSUME NEW w \in Writers, NEW ok \in BOOLEAN, ChatSettled(w, ok)
        PROVE  A
    BY <2>2 DEF ChatSettled, execVars
  <2>3. CASE \E r \in Replies : BroadcastReply(r)
    BY <2>3 DEF BroadcastReply, execVars
  <2>4. ASSUME NEW j \in Jobs, NEW ready \in BOOLEAN, ExecuteCode(j, ready)
        PROVE  A
    BY <2>4 DEF ExecuteCode, ExecuteGate, ReadyGate, TypeOK
  <2>5. ASSUME NEW j \in Jobs, SandboxChat(j) \/ SandboxStep(j)
        PROVE  A
    BY <2>5 DEF SandboxChat, SandboxStep, SandboxSettles, execVars, actorVars, TypeOK
  <2>6. ASSUME NEW j \in Jobs, ExecuteCodeResumes(j)
        PROVE  A
    <3>1. ~TaskSettledDecision(status, outcome[j] = "completed").accepted
      BY TaskSettledFacts DEF TypeOK
    <3> QED
      BY <2>6, <3>1 DEF ExecuteCodeResumes, Apply, TypeOK
  <2>7. ASSUME NEW s \in Signals, Interrupt(s)
        PROVE  A
    <3>1. ~InterruptDecision(status, SourceOf(s)).accepted
      BY InterruptFacts DEF SourceOf, TypeOK
    <3> QED
      BY <2>7, <3>1 DEF Interrupt
  <2>8. ASSUME NEW s \in Reflexes, ReflexStep(s) \/ LateReflexActionEnds(s)
        PROVE  A
    BY <2>8, ReflexDoneFacts DEF ReflexStep, ReflexSettles, LateReflexActionEnds, Apply,
       TypeOK, execVars, actorVars
  <2>9. CASE Shutdown \/ Terminated \/ UNCHANGED vars
    BY <2>9, ShutdownFacts DEF Shutdown, Terminated, Apply, TypeOK, vars, actorVars,
       execVars, callerVars
  <2> QED
    BY <2>1, <2>2, <2>3, <2>4, <2>5, <2>6, <2>7, <2>8, <2>9 DEF Next
<1> QED
  BY Invariance, <1>1, PTL DEF Spec, ShutdownIsFinal

-----------------------------------------------------------------------------
(***************************************************************************)
(* BotActor implements ActorContract: every step is a step of the contract *)
(* or leaves its three variables alone.                                    *)
(***************************************************************************)
told   == currentExecution # None /\ interrupted[currentExecution]
answer == [j \in Jobs |-> Answered(j)]

(* The steps that leave the execution objects alone are invisible.         *)
LEMMA InvisibleStep ==
  ASSUME UNCHANGED <<currentExecution, execPc, interrupted, outcome>>
  PROVE  UNCHANGED <<currentExecution, told, answer>>
BY DEF told, answer, Answered

(* A call that passes the gate takes the bot; one that does not is refused. *)
LEMMA ExecuteCodeRefines ==
  ASSUME IInv, NEW j \in Jobs, NEW ready \in BOOLEAN, ExecuteCode(j, ready)
  PROVE  Contract!Take(j) \/ Contract!Refuse(j)
<1> USE ActorAssumption DEF IInv, TypeOK
<1>1. CASE ExecuteGate(ready)
  <2>1. /\ currentExecution = None /\ currentExecution' = j
        /\ execPc[j] = "new" /\ execPc' = [execPc EXCEPT ![j] = "running"]
        /\ UNCHANGED <<interrupted, outcome>>
    BY <1>1 DEF ExecuteCode, ExecuteGate
  <2>2. ~interrupted[j]
    BY <2>1 DEF InterruptInv
  <2>3. told' = FALSE
    BY <2>1, <2>2 DEF told
  <2>4. answer' = [answer EXCEPT ![j] = "none"]
    BY <2>1 DEF answer, Answered
  <2> QED
    BY <2>1, <2>3, <2>4 DEF Contract!Take, told, answer
<1>2. CASE ~ExecuteGate(ready)
  <2>1. /\ execPc[j] = "new" /\ execPc' = [execPc EXCEPT ![j] = "refused"]
        /\ UNCHANGED <<currentExecution, interrupted, outcome>>
    BY <1>2 DEF ExecuteCode
  <2>2. answer' = [answer EXCEPT ![j] = "refused"]
    BY <2>1 DEF answer, Answered
  <2>3. UNCHANGED <<currentExecution, told>>
    BY <2>1 DEF told
  <2> QED
    BY <2>2, <2>3 DEF Contract!Refuse, told, answer
<1> QED
  BY <1>1, <1>2

(* The continuation answers the call; what it may answer depends on the    *)
(* flag of the execution object.                                           *)
LEMMA ExecuteCodeResumesRefines ==
  ASSUME IInv, NEW j \in Jobs, ExecuteCodeResumes(j)
  PROVE  \E r \in Contract!Answers : Contract!Answer(j, r)
<1> USE ActorAssumption DEF IInv, TypeOK
<1>1. /\ currentExecution = j /\ currentExecution' = None
      /\ execPc[j] = "returned" /\ execPc' = [execPc EXCEPT ![j] = "ended"]
      /\ UNCHANGED interrupted
  BY DEF ExecuteCodeResumes, ExecutionInv, Live
<1> DEFINE r == outcome'[j]
<1>2. /\ outcome' = [outcome EXCEPT ![j] = r]
      /\ r \in IF interrupted[j] THEN {"interrupted", "raised"}
                                 ELSE {"completed", "failed", "raised"}
  BY DEF ExecuteCodeResumes, WasInterrupted, Outcomes, InterruptInv
<1>3. /\ told = interrupted[j]
      /\ told' = FALSE
  BY <1>1 DEF told
<1>4. answer' = [answer EXCEPT ![j] = r]
  BY <1>1, <1>2 DEF answer, Answered
<1> HIDE DEF r
<1> QED
  BY <1>1, <1>2, <1>3, <1>4 DEF Contract!Answers, Contract!Answer, Contract!MayAnswer,
     told, answer

(* An accepted interrupt tells the holder, if there is one.                *)
LEMMA InterruptRefines ==
  ASSUME IInv, NEW s \in Signals, Interrupt(s)
  PROVE  Contract!Tell \/ UNCHANGED <<currentExecution, told, answer>>
<1> USE ActorAssumption DEF IInv, TypeOK
<1>1. CASE ~InterruptDecision(status, SourceOf(s)).accepted
  BY <1>1, InvisibleStep DEF Interrupt
<1>2. CASE InterruptDecision(status, SourceOf(s)).accepted
  <2>1. AbortExecution(s) /\ UNCHANGED <<currentExecution, execPc, outcome>>
    BY <1>2 DEF Interrupt
  <2>2. told' = (currentExecution # None)
    BY <2>1 DEF AbortExecution, told
  <2>3. UNCHANGED answer
    BY <2>1 DEF answer, Answered
  <2> QED
    BY <2>1, <2>2, <2>3 DEF Contract!Tell, told, answer
<1> QED
  BY <1>1, <1>2

(* The actor implements the contract that TaskPipeline is built from: the  *)
(* worker's view of it as "refused, or alone until answered, and never     *)
(* answered with a result once told to stop" is right for any callers.     *)
THEOREM ActorKeepsContract == Spec => ContractSpec
<1> DEFINE mapped == <<currentExecution, told, answer>>
<1>1. Init => Contract!ActorInit
  BY DEF Init, Contract!ActorInit, Answered
<1>2. IInv /\ [Next]_vars => [Contract!ActorNext]_mapped
  <2> SUFFICES ASSUME IInv, [Next]_vars
               PROVE  Contract!ActorNext \/ UNCHANGED mapped
    OBVIOUS
  <2>1. CASE StartStep
    BY <2>1, InvisibleStep DEF StartStep, StartConnecting, ConnectSettled, LoginSettled,
       StartReady, actorVars, execVars
  <2>2. ASSUME NEW w \in Writers, NEW ok \in BOOLEAN, ChatSettled(w, ok)
        PROVE  UNCHANGED mapped
    BY <2>2, InvisibleStep DEF ChatSettled, execVars
  <2>3. CASE \E r \in Replies : BroadcastReply(r)
    BY <2>3, InvisibleStep DEF BroadcastReply, execVars
  <2>4. ASSUME NEW j \in Jobs, NEW ready \in BOOLEAN, ExecuteCode(j, ready)
        PROVE  Contract!ActorNext
    BY <2>4, ExecuteCodeRefines DEF Contract!ActorNext
  <2>5. ASSUME NEW j \in Jobs, SandboxChat(j)
        PROVE  UNCHANGED mapped
    BY <2>5, InvisibleStep DEF SandboxChat, execVars
  <2>6. ASSUME NEW j \in Jobs, NEW r \in Outcomes \ {"none"}, SandboxSettles(j, r)
        PROVE  UNCHANGED mapped
    <3>1. /\ execPc[j] = "running" /\ execPc' = [execPc EXCEPT ![j] = "returned"]
          /\ UNCHANGED <<currentExecution, interrupted>>
          /\ outcome' = [outcome EXCEPT ![j] = r]
      BY <2>6 DEF SandboxSettles, actorVars
    <3> QED
      BY <3>1 DEF told, answer, Answered, IInv, TypeOK
  <2>7. ASSUME NEW j \in Jobs, ExecuteCodeResumes(j)
        PROVE  Contract!ActorNext
    BY <2>7, ExecuteCodeResumesRefines DEF Contract!ActorNext
  <2>8. ASSUME NEW s \in Signals, Interrupt(s)
        PROVE  Contract!ActorNext \/ UNCHANGED mapped
    BY <2>8, InterruptRefines DEF Contract!ActorNext
  <2>9. ASSUME NEW s \in Reflexes, ReflexStep(s) \/ LateReflexActionEnds(s)
        PROVE  UNCHANGED mapped
    BY <2>9, InvisibleStep DEF ReflexStep, ReflexSettles, LateReflexActionEnds,
       actorVars, execVars
  <2>10. CASE Shutdown \/ Terminated \/ UNCHANGED vars
    BY <2>10, InvisibleStep DEF Shutdown, Terminated, vars, actorVars, execVars
  <2> QED
    BY <2>1, <2>2, <2>3, <2>4, <2>5, <2>6, <2>7, <2>8, <2>9, <2>10 DEF Next, SandboxStep
<1> QED
  BY Invariance, <1>1, <1>2, PTL DEF Spec, ContractSpec, Contract!ActorSpec,
     Contract!actorVars, told, answer

-----------------------------------------------------------------------------
(***************************************************************************)
(* The event log.  A log is told when its task events alternate; it is     *)
(* then open or closed, as its last task event says.                       *)
(***************************************************************************)
Told(log) == log \in Seq(RuntimeEvents) /\ Alternate(log)
Opened(log) == Told(log) /\ TaskOpen(log, Len(log))
Closed(log) == Told(log) /\ ~TaskOpen(log, Len(log))

(* The log is open exactly while the bot executes; a shutdown stops it     *)
(* wherever it is.                                                         *)
LogInv ==
  /\ Told(emittedEvents)
  /\ status = "executing" => Opened(emittedEvents)
  /\ status \notin {"executing", "shutdown"} => Closed(emittedEvents)

(* One more event leaves what was open before each earlier event as it was. *)
LEMMA EarlierStaysOpen ==
  ASSUME NEW log \in Seq(RuntimeEvents), NEW e \in RuntimeEvents, NEW n \in 0 .. Len(log)
  PROVE  TaskOpen(log \o <<e>>, n) <=> TaskOpen(log, n)
<1>1. \A i \in 1 .. n : (log \o <<e>>)[i] = log[i]
  BY ConcatProperties
<1> QED
  BY <1>1 DEF TaskOpen

(* An event that is none of a task's leaves an alternating log open or     *)
(* closed; a start opens a closed one and an end closes an open one.       *)
LEMMA EventIsTold ==
  ASSUME NEW log, Told(log), NEW e \in RuntimeEvents,
         e \in TaskEvents => (e = "task.started" <=> Closed(log))
  PROVE  /\ Told(log \o <<e>>)
         /\ e = "task.started" => Opened(log \o <<e>>)
         /\ e \in TaskEvents \ {"task.started"} => Closed(log \o <<e>>)
         /\ e \notin TaskEvents => /\ Opened(log) => Opened(log \o <<e>>)
                                   /\ Closed(log) => Closed(log \o <<e>>)
<1> DEFINE new == log \o <<e>>
<1>1. log \in Seq(RuntimeEvents) /\ <<e>> \in Seq(RuntimeEvents)
  BY DEF Told
<1>2. /\ new \in Seq(RuntimeEvents) /\ Len(new) = Len(log) + 1 /\ Len(log) \in Nat
      /\ new[Len(log) + 1] = e
      /\ \A i \in 1 .. Len(log) : new[i] = log[i]
  BY <1>1, ConcatProperties
<1>3. \A n \in 0 .. Len(log) : TaskOpen(new, n) <=> TaskOpen(log, n)
  BY <1>1, EarlierStaysOpen
<1> HIDE DEF new
<1>4. Alternate(new)
  <2> SUFFICES ASSUME NEW k \in 1 .. Len(new), new[k] \in TaskEvents
               PROVE  new[k] = "task.started" <=> ~TaskOpen(new, k - 1)
    BY DEF Alternate
  <2>1. CASE k \in 1 .. Len(log)
    <3>1. k - 1 \in 0 .. Len(log)
      BY <1>2, <2>1
    <3> QED
      BY <1>2, <1>3, <2>1, <3>1 DEF Told, Alternate
  <2>2. CASE k = Len(log) + 1
    <3>1. k - 1 = Len(log) /\ Len(log) \in 0 .. Len(log)
      BY <1>2, <2>2
    <3> QED
      BY <1>2, <1>3, <2>2, <3>1 DEF Told, Closed
  <2> QED
    BY <1>2, <2>1, <2>2
<1>5. TaskOpen(new, Len(new)) <=>
        e = "task.started" \/ (e \notin TaskEvents /\ TaskOpen(log, Len(log)))
  <2>1. ASSUME e = "task.started" PROVE TaskOpen(new, Len(new))
    BY <1>2, <2>1 DEF TaskOpen
  <2>2. ASSUME e \notin TaskEvents, TaskOpen(log, Len(log)) PROVE TaskOpen(new, Len(new))
    <3>1. PICK i \in 1 .. Len(log) :
            log[i] = "task.started" /\ \A k \in i + 1 .. Len(log) : log[k] \notin TaskEvents
      BY <2>2 DEF TaskOpen
    <3>2. \A k \in i + 1 .. Len(new) : k = Len(log) + 1 \/ k \in i + 1 .. Len(log)
      BY <1>2
    <3>3. /\ i \in 1 .. Len(new) /\ new[i] = "task.started"
          /\ \A k \in i + 1 .. Len(new) : new[k] \notin TaskEvents
      BY <1>2, <2>2, <3>1, <3>2
    <3> QED
      BY <3>3 DEF TaskOpen
  <2>3. ASSUME TaskOpen(new, Len(new)), e # "task.started"
        PROVE  e \notin TaskEvents /\ TaskOpen(log, Len(log))
    <3>1. PICK i \in 1 .. Len(new) :
            new[i] = "task.started" /\ \A k \in i + 1 .. Len(new) : new[k] \notin TaskEvents
      BY <2>3 DEF TaskOpen
    <3>2. i \in 1 .. Len(log)
      BY <1>2, <2>3, <3>1
    <3>3. \A k \in i + 1 .. Len(log) : k \in i + 1 .. Len(new) /\ k \in 1 .. Len(log)
      BY <1>2, <3>2
    <3>4. Len(log) + 1 \in i + 1 .. Len(new)
      BY <1>2, <3>2
    <3> QED
      BY <1>2, <3>1, <3>2, <3>3, <3>4 DEF TaskOpen
  <2> QED
    BY <2>1, <2>2, <2>3
<1>6. "task.started" \in TaskEvents
  BY DEF TaskEvents
<1>7. Told(new)
  BY <1>2, <1>4 DEF Told
<1> QED
  BY <1>5, <1>6, <1>7 DEF Opened, Closed, new

(* What a decision that was accepted tells, after the transition.          *)
LEMMA TransitionIsTold ==
  ASSUME NEW log, Told(log), NEW e \in RuntimeEvents
  PROVE  /\ Told(log \o <<"state.transition">>)
         /\ Opened(log) => Opened(log \o <<"state.transition">>)
         /\ Closed(log) => Closed(log \o <<"state.transition">>)
         /\ log \o (<<"state.transition">> \o <<e>>) = (log \o <<"state.transition">>) \o <<e>>
<1>1. "state.transition" \in RuntimeEvents \ TaskEvents
  BY DEF RuntimeEvents, TaskEvents
<1>2. <<"state.transition">> \in Seq(RuntimeEvents) /\ <<e>> \in Seq(RuntimeEvents)
  BY <1>1
<1> QED
  BY <1>1, <1>2, EventIsTold, ConcatAssociative DEF Told

(* A decision whose events are none of a task's keeps an alternating log   *)
(* open or closed, accepted or not.                                        *)
LEMMA QuietDecision ==
  ASSUME NEW e \in RuntimeEvents \ TaskEvents, NEW from, NEW to, NEW accepted \in BOOLEAN,
         Told(emittedEvents), Apply(DecideIf(from, to, <<e>>, accepted))
  PROVE  /\ Told(emittedEvents')
         /\ Opened(emittedEvents) => Opened(emittedEvents')
         /\ Closed(emittedEvents) => Closed(emittedEvents')
<1> DEFINE moved == emittedEvents \o <<"state.transition">>
<1>1. /\ Told(moved)
      /\ Opened(emittedEvents) => Opened(moved)
      /\ Closed(emittedEvents) => Closed(moved)
      /\ emittedEvents \o (<<"state.transition">> \o <<e>>) = moved \o <<e>>
  BY TransitionIsTold
<1>2. emittedEvents \o << >> = emittedEvents
  BY ConcatEmptySeq DEF Told
<1>3. \/ emittedEvents' = emittedEvents
      \/ emittedEvents' = emittedEvents \o <<e>>
      \/ emittedEvents' = moved \o <<e>>
  BY <1>1, <1>2 DEF Apply, DecideIf
<1> HIDE DEF moved
<1> QED
  BY <1>1, <1>3, EventIsTold

(* What an accepted decision with a task's event does to the log.          *)
LEMMA TaskDecision ==
  ASSUME NEW e \in TaskEvents, NEW from, NEW to, from # to,
         Told(emittedEvents), e = "task.started" <=> Closed(emittedEvents),
         Apply(DecideIf(from, to, <<e>>, TRUE))
  PROVE  /\ e = "task.started" => Opened(emittedEvents')
         /\ e # "task.started" => Closed(emittedEvents')
<1> DEFINE moved == emittedEvents \o <<"state.transition">>
<1>1. e \in RuntimeEvents
  BY DEF TaskEvents, RuntimeEvents
<1>2. /\ Told(moved)
      /\ Opened(emittedEvents) => Opened(moved)
      /\ Closed(emittedEvents) => Closed(moved)
      /\ emittedEvents \o (<<"state.transition">> \o <<e>>) = moved \o <<e>>
  BY <1>1, TransitionIsTold
<1>3. emittedEvents' = moved \o <<e>>
  BY <1>2 DEF Apply, DecideIf
<1>4. e = "task.started" <=> Closed(moved)
  BY <1>2 DEF Opened, Closed
<1> HIDE DEF moved
<1> QED
  BY <1>1, <1>2, <1>3, <1>4, EventIsTold

(* An interrupt that is accepted closes the log of an executing bot, and   *)
(* leaves that of an idle one closed.                                      *)
LEMMA InterruptIsTold ==
  ASSUME IInv, LogInv, NEW s \in Signals, Interrupt(s)
  PROVE  LogInv'
<1> DEFINE source == SourceOf(s)
           d      == InterruptDecision(status, source)
           target == IF source = "reflex" THEN "reflexing" ELSE "idle"
           moved  == emittedEvents \o <<"state.transition">>
           reflex == IF source = "reflex" THEN <<"reflex.triggered">> ELSE << >>
<1>1. /\ source \in {"reflex", "control"} /\ status \in BotStatus
      /\ emittedEvents \in Seq(RuntimeEvents)
  BY DEF SourceOf, IInv, TypeOK
<1>2. CASE ~d.accepted
  BY <1>2 DEF Interrupt, LogInv, Told, Opened, Closed
<1>3. CASE d.accepted
  <2>1. /\ status \in {"idle", "executing"} /\ d.to = target
        /\ status = "idle" => source = "reflex"
    BY <1>1, <1>3, InterruptFacts
  <2>2. d.events = <<"state.transition">> \o InterruptEvents(status, source)
    BY <1>3, <2>1 DEF InterruptDecision, Decide, DecideIf
  <2>3. status' = target /\ emittedEvents' = emittedEvents \o d.events
    BY <1>3, <2>1 DEF Interrupt, Apply
  <2>4. /\ {"task.interrupted", "reflex.triggered", "state.transition"} \subseteq RuntimeEvents
        /\ "task.interrupted" \in TaskEvents \ {"task.started"}
        /\ "reflex.triggered" \notin TaskEvents
    BY DEF RuntimeEvents, TaskEvents
  <2>5. /\ <<"state.transition">> \in Seq(RuntimeEvents) /\ reflex \in Seq(RuntimeEvents)
        /\ <<"task.interrupted">> \in Seq(RuntimeEvents)
    BY <2>4
  <2>6. /\ Told(moved)
        /\ Opened(emittedEvents) => Opened(moved)
        /\ Closed(emittedEvents) => Closed(moved)
    BY <2>4, TransitionIsTold DEF LogInv
  <2>7. ASSUME NEW log, Closed(log)
        PROVE  Closed(log \o reflex)
    <3>1. log \o << >> = log
      BY <2>7, ConcatEmptySeq DEF Closed, Told
    <3> QED
      BY <2>4, <2>7, <3>1, EventIsTold DEF Closed
  <2>8. CASE status = "executing"
    <3>1. Closed(moved \o <<"task.interrupted">>)
      BY <2>4, <2>6, <2>8, EventIsTold DEF LogInv, Opened, Closed
    <3>2. InterruptEvents(status, source) = <<"task.interrupted">> \o reflex
      BY <2>8 DEF InterruptEvents
    <3>3. emittedEvents' = moved \o (<<"task.interrupted">> \o reflex)
      <4>1. <<"task.interrupted">> \o reflex \in Seq(RuntimeEvents)
        BY <2>5
      <4> QED
        BY <1>1, <2>2, <2>3, <2>5, <3>2, <4>1, ConcatAssociative
    <3>4. emittedEvents' = (moved \o <<"task.interrupted">>) \o reflex
      BY <2>5, <2>6, <3>3, ConcatAssociative DEF Told
    <3> HIDE DEF moved, reflex
    <3>5. Closed(emittedEvents')
      BY <2>7, <3>1, <3>4
    <3> QED
      BY <2>3, <3>5 DEF LogInv, Closed
  <2>9. CASE status = "idle"
    <3>1. InterruptEvents(status, source) = << >> \o reflex
      BY <2>9 DEF InterruptEvents
    <3>2. << >> \o reflex = reflex
      BY <2>5, ConcatEmptySeq
    <3>3. emittedEvents' = moved \o reflex
      BY <1>1, <2>2, <2>3, <2>5, <3>1, <3>2, ConcatAssociative
    <3>4. Closed(moved)
      BY <2>6, <2>9 DEF LogInv
    <3> HIDE DEF moved, reflex
    <3>5. Closed(emittedEvents')
      BY <2>7, <3>3, <3>4
    <3> QED
      BY <2>3, <3>5 DEF LogInv, Closed
  <2> QED
    BY <2>1, <2>8, <2>9
<1> QED
  BY <1>2, <1>3

(* Every step keeps the log in agreement with the status.                  *)
LEMMA LogIsKept ==
  ASSUME IInv, LogInv, [Next]_vars
  PROVE  LogInv'
<1> USE DEF IInv, TypeOK
<1>1. /\ "chat.reply" \in RuntimeEvents \ TaskEvents
      /\ {"bot.ready", "reflex.done", "bot.offline"} \subseteq RuntimeEvents \ TaskEvents
      /\ {"task.completed", "task.failed"} \subseteq TaskEvents \ {"task.started"}
      /\ "task.started" \in TaskEvents
  BY DEF RuntimeEvents, TaskEvents
<1>2. /\ Told(emittedEvents) /\ emittedEvents \in Seq(RuntimeEvents)
      /\ Opened(emittedEvents) => ~Closed(emittedEvents)
  BY DEF LogInv, Told, Opened, Closed
<1>3. CASE UNCHANGED <<status, emittedEvents>>
  BY <1>3 DEF LogInv, Told, Opened, Closed
<1>4. ASSUME NEW w \in Writers, NEW ok \in BOOLEAN, EndChatWrite(w, ok), UNCHANGED status
      PROVE  LogInv'
  <2>1. \/ emittedEvents' = emittedEvents
        \/ emittedEvents' = emittedEvents \o <<"chat.reply">>
    BY <1>1, <1>2, <1>4, AppendIsConcat DEF EndChatWrite
  <2>2. LET new == emittedEvents \o <<"chat.reply">>
        IN  /\ Told(new)
            /\ Opened(emittedEvents) => Opened(new)
            /\ Closed(emittedEvents) => Closed(new)
    BY <1>1, <1>2, EventIsTold
  <2>3. CASE emittedEvents' = emittedEvents \o <<"chat.reply">>
    BY <1>4, <2>2, <2>3 DEF LogInv
  <2> QED
    BY <1>3, <1>4, <2>1, <2>3
<1>5. CASE StartReady
  <2>1. CanTransition(status, "idle") \in BOOLEAN /\ ReadyGate("idle", externalAuth) \in BOOLEAN
    BY DEF CanTransition, ReadyGate
  <2>2. /\ Told(emittedEvents')
        /\ Opened(emittedEvents) => Opened(emittedEvents')
        /\ Closed(emittedEvents) => Closed(emittedEvents')
    BY <1>1, <1>2, <1>5, <2>1, QuietDecision DEF StartReady, ReadyDecision
  <2>3. status \in {"initializing", "shutdown"}
    BY <1>5 DEF StartReady, StartInv
  <2>4. status' = status \/ (status = "initializing" /\ status' = "idle")
    BY <1>5, <2>3, ReadyDecisionFacts DEF StartReady, Apply
  <2> QED
    BY <2>2, <2>3, <2>4 DEF LogInv
<1>6. ASSUME NEW j \in Jobs, NEW ready \in BOOLEAN, ExecuteCode(j, ready), ExecuteGate(ready)
      PROVE  LogInv'
  <2>1. status = "idle" /\ CanTransition("idle", "executing") = TRUE
    BY <1>6 DEF ExecuteGate, ReadyGate, CanTransition
  <2>2. Apply(DecideIf("idle", "executing", <<"task.started">>, TRUE))
    BY <1>6, <2>1 DEF ExecuteCode, ExecJobPulledDecision, Decide
  <2>3. Opened(emittedEvents')
    BY <1>1, <1>2, <2>1, <2>2, TaskDecision DEF LogInv
  <2>4. status' = "executing"
    BY <2>2 DEF Apply, DecideIf
  <2> QED
    BY <2>3, <2>4 DEF LogInv, Opened
<1>7. ASSUME NEW j \in Jobs, ExecuteCodeResumes(j), ~interrupted[j]
      PROVE  LogInv'
  <2> DEFINE e == IF outcome[j] = "completed" THEN "task.completed" ELSE "task.failed"
  <2>1. status \in {"executing", "shutdown"}
    BY <1>7 DEF ExecuteCodeResumes, StatusMatchesExecution, Live
  <2>2. Apply(DecideIf(status, "idle", <<e>>, CanTransition(status, "idle")))
    BY <1>7 DEF ExecuteCodeResumes, WasInterrupted, TaskSettledDecision, Decide
  <2>3. CASE status = "shutdown"
    <3>1. CanTransition(status, "idle") = FALSE /\ emittedEvents \o << >> = emittedEvents
      BY <1>2, <2>3, ConcatEmptySeq DEF CanTransition
    <3> QED
      BY <1>3, <2>2, <3>1 DEF Apply, DecideIf
  <2>4. CASE status = "executing"
    <3>1. CanTransition(status, "idle") = TRUE
      BY <2>4 DEF CanTransition
    <3>2. e \in TaskEvents \ {"task.started"}
      BY <1>1
    <3> HIDE DEF e
    <3>3. Closed(emittedEvents')
      BY <1>2, <2>2, <2>4, <3>1, <3>2, TaskDecision DEF LogInv
    <3>4. status' = "idle"
      BY <2>2, <3>1 DEF Apply, DecideIf
    <3> QED
      BY <3>3, <3>4 DEF LogInv, Closed
  <2> QED
    BY <2>1, <2>3, <2>4
<1>8. ASSUME NEW s \in Reflexes, NEW r \in ReflexSummary, ReflexSettles(s, r)
      PROVE  LogInv'
  <2>1. status \in {"reflexing", "shutdown"} /\ CanTransition(status, "idle") \in BOOLEAN
    BY <1>8 DEF ReflexSettles, ReflexInv, CanTransition
  <2>2. /\ Told(emittedEvents')
        /\ Closed(emittedEvents) => Closed(emittedEvents')
    BY <1>1, <1>2, <1>8, <2>1, QuietDecision DEF ReflexSettles, ReflexDoneDecision, Decide
  <2>3. IF status = "reflexing" THEN status' = "idle" ELSE status' = "shutdown"
    BY <1>8, <2>1, ReflexDoneFacts DEF ReflexSettles, Apply
  <2> QED
    BY <2>1, <2>2, <2>3 DEF LogInv
<1>9. CASE Shutdown
  <2>1. CanTransition(status, "shutdown") \in BOOLEAN
    BY DEF CanTransition
  <2>2. Told(emittedEvents')
    BY <1>1, <1>2, <1>9, <2>1, QuietDecision DEF Shutdown, ShutdownDecision, Decide
  <2>3. status' = "shutdown"
    BY <1>9, ShutdownFacts DEF Shutdown, Apply
  <2> QED
    BY <2>2, <2>3 DEF LogInv
<1>10. ASSUME NEW s \in Signals, Interrupt(s)
       PROVE  LogInv'
  BY <1>10, InterruptIsTold
<1>11. \/ UNCHANGED <<status, emittedEvents>>
       \/ \E w \in Writers, ok \in BOOLEAN : EndChatWrite(w, ok) /\ UNCHANGED status
       \/ StartReady
       \/ \E j \in Jobs, ready \in BOOLEAN : ExecuteCode(j, ready) /\ ExecuteGate(ready)
       \/ \E j \in Jobs : ExecuteCodeResumes(j) /\ ~interrupted[j]
       \/ \E s \in Reflexes, r \in ReflexSummary : ReflexSettles(s, r)
       \/ \E s \in Signals : Interrupt(s)
       \/ Shutdown
  <2>1. ASSUME NEW ok \in BOOLEAN, LoginSettled(ok)
        PROVE  Login \in Writers /\ EndChatWrite(Login, ok) /\ UNCHANGED status
    BY <2>1 DEF LoginSettled, Writers
  <2>2. ASSUME NEW j \in Jobs, NEW ready \in BOOLEAN, ExecuteCode(j, ready)
        PROVE  UNCHANGED <<status, emittedEvents>> \/ ExecuteGate(ready)
    BY <2>2 DEF ExecuteCode
  <2>3. ASSUME NEW j \in Jobs, ExecuteCodeResumes(j)
        PROVE  UNCHANGED <<status, emittedEvents>> \/ ~interrupted[j]
    BY <2>3 DEF ExecuteCodeResumes, WasInterrupted
  <2> QED
    BY <2>1, <2>2, <2>3
       DEF Next, vars, actorVars, StartStep, StartConnecting, ConnectSettled, BroadcastReply,
           ChatSettled, SandboxChat, SandboxStep, SandboxSettles, ReflexStep,
           LateReflexActionEnds, Terminated
<1> QED
  BY <1>3, <1>4, <1>5, <1>6, <1>7, <1>8, <1>9, <1>10, <1>11

(* Between two task.started of the log there is one end, none comes        *)
(* without its start, and an idle or reflexing bot has closed its last     *)
(* task, for any number of executions and signals.                         *)
THEOREM LogAlternates == Spec => []TaskEventsAlternate
<1>1. Init => LogInv
  <2>1. ASSUME Init PROVE emittedEvents = << >> /\ Len(emittedEvents) = 0
                          /\ status = "initializing"
    BY <2>1 DEF Init
  <2> QED
    BY <2>1 DEF LogInv, Told, Opened, Closed, Alternate, TaskOpen
<1>2. LogInv => TaskEventsAlternate
  BY DEF LogInv, Told, Closed, TaskEventsAlternate
<1> QED
  BY Invariance, LogIsKept, <1>1, <1>2, PTL DEF Spec
=============================================================================
