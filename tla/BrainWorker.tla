---------------------------- MODULE BrainWorker ----------------------------
(***************************************************************************)
(* The brain worker (ts-core/src/workers/brain-worker.ts) and the rows it  *)
(* writes (db/brain-memory.ts, db/task-events.ts).  A job is the card of a *)
(* finished task or a fact from a conversation.  The queue gives the       *)
(* worker two jobs at a time, so two of them may be anywhere between their *)
(* awaits; what they read of the summary and the memory is then a private  *)
(* copy.  The process may crash: jobs in hand are given out again, once.   *)
(*                                                                         *)
(* Summary and memory are sequences of lines, each of size one, so that    *)
(* the limits on characters become limits on lines.  Answers of the LLM    *)
(* are free choices; its candidates are drawn when they are looked at, as  *)
(* nothing looks ahead.  One of the three kinds of memory is modelled;     *)
(* they are separate rows that are treated alike.                          *)
(***************************************************************************)
EXTENDS Naturals, Sequences, FiniteSets, Functions

CONSTANTS
  Tasks,             \* jobs that carry a task card
  Facts,             \* jobs that carry a fact of a conversation
  Failed,            \* the tasks whose card says failed
  Lines,             \* what a memory candidate can say
  Digest,            \* a line of a compressed summary
  None,
  Concurrency,       \* jobs in hand at a time
  SummaryThreshold,  \* a longer summary is compressed
  SummaryCompressed, \* what a compressed summary is cut to
  MemoryLimit,
  MaxJobs,           \* bound: jobs added
  MaxCandidates,     \* bound: candidates of one answer of the LLM
  MaxCrashes         \* bound

Jobs == Tasks \cup Facts

ASSUME BrainAssumption ==
  /\ Tasks \cap Facts = {} /\ Failed \subseteq Tasks
  /\ Digest \notin Tasks /\ None \notin Tasks
  /\ {Concurrency, SummaryThreshold, SummaryCompressed, MemoryLimit} \subseteq Nat \ {0}
  /\ SummaryCompressed <= SummaryThreshold
  /\ {MaxJobs, MaxCandidates, MaxCrashes} \subseteq Nat

VARIABLES
  \* Redis
  brainQueue,      \* the state of each job
  stalledOnce,     \* jobs given out a second time
  \* PostgreSQL
  taskEvents,      \* the tasks with a task_events row
  takeaway,        \* the takeaway column of those rows
  rollingSummary,  \* the content of the bot's summary row
  botMemory,       \* the content of its memory row
  candidateRows,   \* the status of each memory_candidates row
  auditRows,       \* the memory_audit rows
  \* the worker
  jobPc, loadedSummary, mutableMemory, candidate, index, afterContent,
  sessionTimer,    \* the task whose silence timer is armed, or None
  asking,          \* the task whose session takeaway the LLM is asked for, or None
  crashes

queueVars  == <<brainQueue, stalledOnce>>
eventVars  == <<taskEvents, takeaway>>
memoryRows == <<botMemory, candidateRows, auditRows>>
jobVars    == <<loadedSummary, mutableMemory, candidate, index, afterContent>>
vars == <<queueVars, eventVars, rollingSummary, memoryRows, jobPc, jobVars,
          sessionTimer, asking, crashes>>

Candidates == [line : Lines, confidence : {"reject", "keep", "apply"}]
CandidateIds == Jobs \X (1 .. MaxCandidates)
MemoryTexts == UNION {[1 .. n -> Lines] : n \in 0 .. MemoryLimit}

Init ==
  /\ brainQueue = [j \in Jobs |-> "absent"] /\ stalledOnce = {}
  /\ taskEvents = {} /\ takeaway = [t \in Tasks |-> "none"]
  /\ rollingSummary \in {<< >>, <<Digest>>}
  /\ botMemory = << >> /\ auditRows = {}
  /\ candidateRows = [c \in CandidateIds |-> "none"]
  /\ jobPc = [j \in Jobs |-> "idle"]
  /\ loadedSummary = [j \in Jobs |-> << >>]
  /\ mutableMemory = [j \in Jobs |-> << >>]
  /\ afterContent = [j \in Jobs |-> << >>]
  /\ candidate = [j \in Jobs |-> None] /\ index = [j \in Jobs |-> 0]
  /\ sessionTimer = None /\ asking = None
  /\ crashes = 0

-----------------------------------------------------------------------------
AtPc(j, pc) == jobPc[j] = pc
GoTo(j, pc) == jobPc' = [jobPc EXCEPT ![j] = pc]

(* What a job remembers is gone when it ends. *)
Forget(js) ==
  /\ loadedSummary' = [j \in Jobs |-> IF j \in js THEN << >> ELSE loadedSummary[j]]
  /\ mutableMemory' = [j \in Jobs |-> IF j \in js THEN << >> ELSE mutableMemory[j]]
  /\ candidate' = [j \in Jobs |-> IF j \in js THEN None ELSE candidate[j]]
  /\ index' = [j \in Jobs |-> IF j \in js THEN 0 ELSE index[j]]
  /\ afterContent' = [j \in Jobs |-> IF j \in js THEN << >> ELSE afterContent[j]]

JobEnds(j, status) ==
  /\ brainQueue' = [brainQueue EXCEPT ![j] = status]
  /\ GoTo(j, "idle") /\ Forget({j})

Added == {j \in Jobs : brainQueue[j] # "absent"}

(* The bot worker or the conversation worker adds a job. *)
AddJob(j) ==
  /\ brainQueue[j] = "absent" /\ Cardinality(Added) < MaxJobs
  /\ brainQueue' = [brainQueue EXCEPT ![j] = "waiting"]
  /\ UNCHANGED <<stalledOnce, eventVars, rollingSummary, memoryRows, jobPc, jobVars,
                 sessionTimer, asking, crashes>>

InHand == {j \in Jobs : jobPc[j] # "idle"}

PullJob(j) ==
  /\ brainQueue[j] = "waiting" /\ Cardinality(InHand) < Concurrency
  /\ brainQueue' = [brainQueue EXCEPT ![j] = "active"]
  /\ GoTo(j, IF j \in Tasks THEN "embedding" ELSE "load_memory")
  /\ UNCHANGED <<stalledOnce, eventVars, rollingSummary, memoryRows, jobVars,
                 sessionTimer, asking, crashes>>

(* An await throws; a write that took effect before is the step before. *)
Throws(j) ==
  /\ jobPc[j] # "idle"
  /\ JobEnds(j, "failed")
  /\ UNCHANGED <<stalledOnce, eventVars, rollingSummary, memoryRows, sessionTimer,
                 asking, crashes>>

-----------------------------------------------------------------------------
(***************************************************************************)
(* The task event and its takeaway.  The row's key is made of bot and      *)
(* message, so a job that is given out again cannot insert it: it fails    *)
(* here, before it touches anything else.                                  *)
(***************************************************************************)
\* Mutant: a conflict is ignored.
PersistTaskEvent_OnConflictDoNothing(t) ==
  taskEvents' = taskEvents \cup {t} /\ GoTo(t, "failure_takeaway")
                                   /\ UNCHANGED <<brainQueue, jobVars>>

PersistTaskEvent(t) ==
  IF t \in taskEvents
  THEN JobEnds(t, "failed") /\ UNCHANGED taskEvents
  ELSE /\ taskEvents' = taskEvents \cup {t} /\ GoTo(t, "failure_takeaway")
       /\ UNCHANGED <<brainQueue, jobVars>>

RecordTaskEvent(t) ==
  /\ AtPc(t, "embedding")
  /\ PersistTaskEvent(t)
  /\ UNCHANGED <<stalledOnce, takeaway, rollingSummary, memoryRows, sessionTimer,
                 asking, crashes>>

UpdateTakeaway(t, kind) ==
  takeaway' = IF t \in taskEvents THEN [takeaway EXCEPT ![t] = kind] ELSE takeaway

UpdateFailureTakeawayIfNeeded(t) ==
  /\ AtPc(t, "failure_takeaway") /\ GoTo(t, "load_summary")
  /\ IF t \in Failed THEN UpdateTakeaway(t, "failure") ELSE UNCHANGED takeaway
  /\ UNCHANGED <<queueVars, taskEvents, rollingSummary, memoryRows, jobVars, sessionTimer,
                 asking, crashes>>

(***************************************************************************)
(* The rolling summary: read, extend by one line, compress if it is too    *)
(* long, write.                                                            *)
(***************************************************************************)
LoadRollingSummary(t) ==
  /\ AtPc(t, "load_summary") /\ GoTo(t, "write_summary")
  /\ loadedSummary' = [loadedSummary EXCEPT ![t] = rollingSummary]
  /\ UNCHANGED <<queueVars, eventVars, rollingSummary, memoryRows, mutableMemory, candidate,
                 index, afterContent, sessionTimer, asking, crashes>>

(* compressRollingSummary, cut by clampByChars. *)
Digests == UNION {[1 .. n -> {Digest}] : n \in 0 .. SummaryCompressed}

SummaryAfter(content, t) ==
  IF Len(Append(content, t)) > SummaryThreshold THEN Digests ELSE {Append(content, t)}

WriteRollingSummary(t) ==
  /\ AtPc(t, "write_summary") /\ GoTo(t, "load_memory")
  /\ rollingSummary' \in SummaryAfter(loadedSummary[t], t)
  /\ loadedSummary' = [loadedSummary EXCEPT ![t] = << >>]
  /\ UNCHANGED <<queueVars, eventVars, memoryRows, mutableMemory, candidate, index,
                 afterContent, sessionTimer, asking, crashes>>

-----------------------------------------------------------------------------
(***************************************************************************)
(* Memory candidates.  The job keeps its own copy of the memory and brings *)
(* it up to date with its own promotions only.                             *)
(***************************************************************************)
LoadBotMemory(j) ==
  /\ AtPc(j, "load_memory") /\ GoTo(j, "generate")
  /\ mutableMemory' = [mutableMemory EXCEPT ![j] = botMemory]
  /\ UNCHANGED <<queueVars, eventVars, rollingSummary, memoryRows, loadedSummary, candidate,
                 index, afterContent, sessionTimer, asking, crashes>>

GenerateMemoryCandidates(j) ==
  /\ AtPc(j, "generate") /\ GoTo(j, "next")
  /\ UNCHANGED <<queueVars, eventVars, rollingSummary, memoryRows, jobVars, sessionTimer,
                 asking, crashes>>

NextCandidate(j) ==
  /\ AtPc(j, "next") /\ index[j] < MaxCandidates
  /\ \E c \in Candidates : candidate' = [candidate EXCEPT ![j] = c]
  /\ index' = [index EXCEPT ![j] = index[j] + 1] /\ GoTo(j, "insert")
  /\ UNCHANGED <<queueVars, eventVars, rollingSummary, memoryRows, loadedSummary, mutableMemory,
                 afterContent, sessionTimer, asking, crashes>>

(* scheduleSessionTakeaway: after its candidates a task arms the one timer *)
(* of the bot; a fact is done.                                             *)
CandidatesDone(j) ==
  /\ AtPc(j, "next") /\ JobEnds(j, "completed")
  /\ sessionTimer' = IF j \in Tasks THEN j ELSE sessionTimer
  /\ UNCHANGED <<stalledOnce, eventVars, rollingSummary, memoryRows, asking, crashes>>

Duplicate(j) == candidate[j].line \in Range(mutableMemory[j])

InitialStatus(j) ==
  IF Duplicate(j) \/ candidate[j].confidence = "reject" THEN "rejected" ELSE "pending"

Promotable(j) == candidate[j].confidence = "apply" /\ ~Duplicate(j)

(* Rows have keys of their own: inserting one a second time fails the job. *)
InsertMemoryCandidate(j) ==
  LET id == <<j, index[j]>>
  IN  /\ AtPc(j, "insert")
      /\ \/ /\ candidateRows[id] # "none"
            /\ JobEnds(j, "failed") /\ UNCHANGED candidateRows
         \/ /\ candidateRows[id] = "none"
            /\ candidateRows' = [candidateRows EXCEPT ![id] = InitialStatus(j)]
            /\ IF Promotable(j)
               THEN GoTo(j, "promote") /\ UNCHANGED candidate
               ELSE GoTo(j, "next") /\ candidate' = [candidate EXCEPT ![j] = None]
            /\ UNCHANGED <<brainQueue, loadedSummary, mutableMemory, index, afterContent>>
      /\ UNCHANGED <<stalledOnce, eventVars, rollingSummary, botMemory, auditRows,
                     sessionTimer, asking, crashes>>

(* resolveMemoryOverflow: the LLM rewrites the memory, in its own words or *)
(* by the deletion of the oldest lines; the result is cut to the limit.    *)
Resolutions(appended) ==
  IF Len(appended) <= MemoryLimit THEN {appended} ELSE MemoryTexts

ResolveMemoryOverflow(j) ==
  /\ AtPc(j, "promote") /\ GoTo(j, "write_memory")
  /\ \E text \in Resolutions(Append(mutableMemory[j], candidate[j].line)) :
       afterContent' = [afterContent EXCEPT ![j] = text]
  /\ UNCHANGED <<queueVars, eventVars, rollingSummary, memoryRows, loadedSummary, mutableMemory,
                 candidate, index, sessionTimer, asking, crashes>>

WriteBotMemory(j) ==
  /\ AtPc(j, "write_memory") /\ GoTo(j, "audit")
  /\ botMemory' = afterContent[j]
  /\ UNCHANGED <<queueVars, eventVars, rollingSummary, candidateRows, auditRows, jobVars,
                 sessionTimer, asking, crashes>>

AppendMemoryAudit(j) ==
  /\ AtPc(j, "audit") /\ GoTo(j, "decide")
  /\ auditRows' = auditRows \cup {[id |-> <<j, index[j]>>, before |-> mutableMemory[j],
                                   after |-> afterContent[j]]}
  /\ UNCHANGED <<queueVars, eventVars, rollingSummary, botMemory, candidateRows, jobVars,
                 sessionTimer, asking, crashes>>

\* Mutant: the private copy is not brought up to date.
CopyAfterPromotion_Stale(j) == mutableMemory

CopyAfterPromotion(j) == [mutableMemory EXCEPT ![j] = afterContent[j]]

DecideMemoryCandidate(j) ==
  /\ AtPc(j, "decide") /\ GoTo(j, "next")
  /\ candidateRows' = [candidateRows EXCEPT ![<<j, index[j]>>] = "applied"]
  /\ mutableMemory' = CopyAfterPromotion(j)
  /\ afterContent' = [afterContent EXCEPT ![j] = << >>]
  /\ candidate' = [candidate EXCEPT ![j] = None]
  /\ UNCHANGED <<queueVars, eventVars, rollingSummary, botMemory, auditRows, loadedSummary,
                 index, sessionTimer, asking, crashes>>

-----------------------------------------------------------------------------
(***************************************************************************)
(* The session takeaway.  When the timer fires, the run looks whether it   *)
(* is still silent (the owner did not speak, no task is active, no brain   *)
(* job waits) and then awaits the LLM, while the rest goes on.  Two such   *)
(* runs write different rows, so one at a time is modelled.                *)
(***************************************************************************)
BrainQueueIsIdle == \A j \in Jobs : brainQueue[j] \notin {"waiting", "active"}

SessionTimerFires(silent) ==
  /\ sessionTimer # None /\ asking = None
  /\ sessionTimer' = None
  /\ asking' = IF silent /\ BrainQueueIsIdle /\ rollingSummary # << >>
               THEN sessionTimer ELSE None
  /\ UNCHANGED <<queueVars, eventVars, rollingSummary, memoryRows, jobPc, jobVars, crashes>>

SessionAnswered(useful) ==
  /\ asking # None /\ asking' = None
  /\ IF useful THEN UpdateTakeaway(asking, "session") ELSE UNCHANGED takeaway
  /\ UNCHANGED <<queueVars, taskEvents, rollingSummary, memoryRows, jobPc, jobVars,
                 sessionTimer, crashes>>

-----------------------------------------------------------------------------
Crash ==
  /\ crashes < MaxCrashes /\ crashes' = crashes + 1
  /\ jobPc' = [j \in Jobs |-> "idle"] /\ Forget(Jobs)
  /\ sessionTimer' = None /\ asking' = None
  /\ UNCHANGED <<queueVars, eventVars, rollingSummary, memoryRows>>

StalledJob(j) ==
  /\ brainQueue[j] = "active" /\ jobPc[j] = "idle"
  /\ brainQueue' = [brainQueue EXCEPT ![j] = IF j \in stalledOnce THEN "failed" ELSE "waiting"]
  /\ stalledOnce' = stalledOnce \cup {j}
  /\ UNCHANGED <<eventVars, rollingSummary, memoryRows, jobPc, jobVars, sessionTimer, asking,
                 crashes>>

TaskStep(t) ==
  \/ RecordTaskEvent(t) \/ UpdateFailureTakeawayIfNeeded(t)
  \/ LoadRollingSummary(t) \/ WriteRollingSummary(t)

MemoryStep(j) ==
  \/ LoadBotMemory(j) \/ GenerateMemoryCandidates(j) \/ NextCandidate(j)
  \/ CandidatesDone(j) \/ InsertMemoryCandidate(j) \/ ResolveMemoryOverflow(j)
  \/ WriteBotMemory(j) \/ AppendMemoryAudit(j) \/ DecideMemoryCandidate(j)

SessionStep == \E b \in BOOLEAN : SessionTimerFires(b) \/ SessionAnswered(b)

Terminated ==
  /\ \A j \in Added : brainQueue[j] \in {"completed", "failed"}
  /\ sessionTimer = None /\ asking = None
  /\ UNCHANGED vars

Next ==
  \/ \E j \in Jobs : AddJob(j) \/ PullJob(j) \/ Throws(j) \/ MemoryStep(j) \/ StalledJob(j)
  \/ \E t \in Tasks : TaskStep(t)
  \/ SessionStep \/ Crash \/ Terminated

Spec == Init /\ [][Next]_vars

-----------------------------------------------------------------------------
(* No task has two lines in the summary, although a job whose worker died  *)
(* is carried out again, only tasks with a task_events row have one, and   *)
(* the summary stays below the length at which it is compressed.           *)
Mentions(t) == {i \in 1 .. Len(rollingSummary) : rollingSummary[i] = t}

SummaryMentionsOnce ==
  /\ Len(rollingSummary) <= SummaryThreshold
  /\ \A t \in Tasks : /\ Cardinality(Mentions(t)) <= 1
                      /\ Mentions(t) # {} => t \in taskEvents

(* The promotions of one job build on each other: what the second changed  *)
(* is what the first left.  What is applied is in the audit, and a         *)
(* duplicate or a candidate that is too uncertain never is.  However the   *)
(* promotions of two jobs interleave, the memory keeps its limit.          *)
PromotionsChain ==
  /\ Len(botMemory) <= MemoryLimit
  /\ \A a, b \in auditRows :
       /\ a.id[1] = b.id[1] /\ a.id[2] < b.id[2]
       /\ \A c \in auditRows : ~(c.id[1] = a.id[1] /\ a.id[2] < c.id[2] /\ c.id[2] < b.id[2])
       => b.before = a.after
  /\ \A c \in CandidateIds :
       /\ candidateRows[c] = "applied" => \E a \in auditRows : a.id = c
       /\ candidateRows[c] = "rejected" => \A a \in auditRows : a.id # c

(***************************************************************************)
(* 05_DATA_SPEC.md, section 7: every task card adds its line to the        *)
(* summary; only a compression takes lines away.                           *)
(***************************************************************************)
SummaryKeepsEveryTask ==
  (\A i \in 1 .. Len(rollingSummary) : rollingSummary[i] # Digest) =>
    \A t \in Tasks : brainQueue[t] = "completed" => Mentions(t) # {}
=============================================================================
