------------------------- MODULE BrainWorkerProofs -------------------------
(***************************************************************************)
(* Proofs about BrainWorker for any tasks, facts, limits and number of     *)
(* crashes.  The inductive invariant says of every private copy what the   *)
(* properties say of the rows, and of every job how far its own candidates *)
(* have come: a job that is given out again either fails at its first      *)
(* insertion or was never there before.                                    *)
(***************************************************************************)
EXTENDS BrainWorker, FiniteSetTheorems, SequenceTheorems, TLAPS

TaskPcs == {"embedding", "failure_takeaway", "load_summary", "write_summary"}
CandidatePcs == {"insert", "promote", "write_memory", "audit", "decide"}
Pcs == {"idle", "load_memory", "generate", "next"} \cup TaskPcs \cup CandidatePcs
SummaryLines == Tasks \cup {Digest}

TypeOK ==
  /\ brainQueue \in [Jobs -> {"absent", "waiting", "active", "completed", "failed"}]
  /\ taskEvents \subseteq Tasks /\ takeaway \in [Tasks -> {"none", "failure", "session"}]
  /\ rollingSummary \in Seq(SummaryLines) /\ loadedSummary \in [Jobs -> Seq(SummaryLines)]
  /\ jobPc \in [Jobs -> Pcs] /\ index \in [Jobs -> 0 .. MaxCandidates]
  /\ candidate \in [Jobs -> Candidates \cup {None}]
  /\ candidateRows \in [CandidateIds -> {"none", "rejected", "pending", "applied"}]
  /\ auditRows \subseteq [id : CandidateIds, before : Seq(Lines), after : Seq(Lines)]
  /\ sessionTimer \in Tasks \cup {None} /\ asking \in Tasks \cup {None}

(* The memory, and every copy of it, keeps the limit.                      *)
Texts == {s \in Seq(Lines) : Len(s) <= MemoryLimit}
LimitInv ==
  botMemory \in Texts /\ mutableMemory \in [Jobs -> Texts] /\ afterContent \in [Jobs -> Texts]

(* Where a job stands.                                                     *)
PlaceInv ==
  \A j \in Jobs :
    /\ jobPc[j] # "idle" => brainQueue[j] = "active"
    /\ jobPc[j] \in TaskPcs => j \in Tasks
    /\ j \in Tasks /\ jobPc[j] \notin {"idle", "embedding"} => j \in taskEvents
    /\ jobPc[j] \in CandidatePcs => candidate[j] \in Candidates /\ index[j] >= 1
    /\ jobPc[j] \notin CandidatePcs \cup {"next"} => index[j] = 0

(* A summary is sound for a set of events if it is short enough and says   *)
(* one line, at most, of each task, and only of those with an event.       *)
Sound(s, events) ==
  /\ Len(s) <= SummaryThreshold
  /\ \A i, k \in 1 .. Len(s) :
       s[i] \in Tasks => s[i] \in events /\ (s[k] = s[i] => k = i)

Says(s, t) == \E i \in 1 .. Len(s) : s[i] = t

BeforeItsLine(t) == jobPc[t] \in TaskPcs \ {"embedding"}

SummaryInv ==
  /\ Sound(rollingSummary, taskEvents)
  /\ \A j \in Jobs : Sound(loadedSummary[j], taskEvents)
  /\ \A t \in Tasks : BeforeItsLine(t) =>
       ~Says(rollingSummary, t) /\ \A j \in Jobs : ~Says(loadedSummary[j], t)

(* Rows are inserted in the order of the candidates, the audit has none    *)
(* that was rejected, and every one that was applied.                      *)
RowsInv ==
  /\ \A j \in Jobs : \A i, k \in 1 .. MaxCandidates :
       k <= i /\ candidateRows[<<j, i>>] # "none" => candidateRows[<<j, k>>] # "none"
  /\ \A a \in auditRows : candidateRows[a.id] \in {"pending", "applied"}
  /\ \A c \in CandidateIds :
       candidateRows[c] = "applied" => \E a \in auditRows : a.id = c

(* A job that has not yet inserted its first candidate in this handling,   *)
(* and may have left rows behind in an earlier one.                        *)
Fresh(j) == index[j] = 0 \/ (jobPc[j] = "insert" /\ index[j] = 1)

Last(a) == \A b \in auditRows : b.id[1] = a.id[1] => b.id[2] <= a.id[2]

(* Any other job has inserted the rows up to where it is and finds none    *)
(* ahead, and its copy of the memory is what its last promotion left.      *)
RunOf(j) ==
  ~Fresh(j) =>
    /\ \A i \in 1 .. MaxCandidates :
         candidateRows[<<j, i>>] = "none" <=> i > index[j] \/ (i = index[j] /\ jobPc[j] = "insert")
    /\ jobPc[j] \in CandidatePcs \ {"insert"} => candidateRows[<<j, index[j]>>] = "pending"
    /\ jobPc[j] = "decide" => \E a \in auditRows : a.id = <<j, index[j]>>
    /\ \A a \in auditRows : a.id[1] = j =>
         /\ jobPc[j] \in {"promote", "write_memory", "audit"} => a.id[2] < index[j]
         /\ Last(a) => a.after = IF jobPc[j] = "decide" THEN afterContent[j] ELSE mutableMemory[j]

RunInv == \A j \in Jobs : RunOf(j)

ChainInv ==
  \A a, b \in auditRows :
    /\ a.id[1] = b.id[1] /\ a.id[2] < b.id[2]
    /\ \A c \in auditRows : ~(c.id[1] = a.id[1] /\ a.id[2] < c.id[2] /\ c.id[2] < b.id[2])
    => b.before = a.after

IInv ==
  TypeOK /\ LimitInv /\ PlaceInv /\ SummaryInv /\ RowsInv /\ RunInv /\ ChainInv

-----------------------------------------------------------------------------
(* What the bounded sequences of the model are.                            *)
LEMMA TextFacts ==
  /\ MemoryTexts \subseteq Texts
  /\ Texts \subseteq Seq(Lines)
  /\ \A s \in Digests : /\ s \in Seq(SummaryLines) /\ Len(s) <= SummaryThreshold
                        /\ \A i \in 1 .. Len(s) : s[i] = Digest
<1> USE BrainAssumption
<1>1. ASSUME NEW s \in MemoryTexts PROVE s \in Texts
  <2>1. PICK n \in 0 .. MemoryLimit : s \in [1 .. n -> Lines]
    BY <1>1 DEF MemoryTexts
  <2>2. s \in Seq(Lines) /\ Len(s) = n
    BY <2>1
  <2> QED BY <2>1, <2>2 DEF Texts
<1>2. ASSUME NEW s \in Digests
      PROVE /\ s \in Seq(SummaryLines) /\ Len(s) <= SummaryThreshold
            /\ \A i \in 1 .. Len(s) : s[i] = Digest
  <2>1. PICK n \in 0 .. SummaryCompressed : s \in [1 .. n -> {Digest}]
    BY <1>2 DEF Digests
  <2>2. s \in [1 .. n -> SummaryLines]
    BY <2>1 DEF SummaryLines
  <2>3. s \in Seq(SummaryLines) /\ Len(s) = n
    BY <2>2
  <2>4. \A i \in 1 .. Len(s) : s[i] = Digest
    BY <2>1, <2>3
  <2> QED BY <2>1, <2>3, <2>4
<1> QED BY <1>1, <1>2 DEF Texts

(* A step that writes no summary and no event keeps what is said of them:  *)
(* copies are kept or forgotten and no task comes before its line again.   *)
LEMMA SummaryKept ==
  ASSUME IInv, UNCHANGED <<taskEvents, rollingSummary>>,
         \A j \in Jobs : loadedSummary'[j] = loadedSummary[j] \/ loadedSummary'[j] = << >>,
         \A t \in Tasks : jobPc'[t] \in TaskPcs \ {"embedding"}
                            => jobPc[t] \in TaskPcs \ {"embedding"}
  PROVE  SummaryInv'
<1> USE BrainAssumption DEF IInv, SummaryInv, BeforeItsLine
<1>1. Sound(<< >>, taskEvents) /\ \A t \in Tasks : ~Says(<< >>, t)
  BY DEF Sound, Says
<1> QED BY <1>1

(* What is said of a job depends on its own rows only.                     *)
LEMMA RunKept ==
  ASSUME IInv, NEW j \in Jobs,
         \A i \in 1 .. MaxCandidates : candidateRows'[<<j, i>>] = candidateRows[<<j, i>>],
         \A a : a.id[1] = j => (a \in auditRows' <=> a \in auditRows),
         \/ index'[j] = 0
         \/ /\ index'[j] = index[j] /\ jobPc'[j] = jobPc[j]
            /\ mutableMemory'[j] = mutableMemory[j] /\ afterContent'[j] = afterContent[j]
  PROVE  RunOf(j)'
<1>1. CASE index'[j] = 0
  BY <1>1 DEF RunOf, Fresh
<1>2. CASE index'[j] # 0
  <2>1. RunOf(j) /\ index[j] \in 0 .. MaxCandidates
    BY DEF IInv, RunInv, TypeOK
  <2>2. \A a \in auditRows : a.id[1] = j => (Last(a)' <=> Last(a))
    BY DEF Last
  <2>3. SUFFICES ASSUME ~Fresh(j)' PROVE RunOf(j)'
    BY DEF RunOf
  <2>4. ~Fresh(j)
    BY <1>2, <2>3 DEF Fresh
  <2>5. /\ \A i \in 1 .. MaxCandidates :
              candidateRows[<<j, i>>] = "none"
                <=> i > index[j] \/ (i = index[j] /\ jobPc[j] = "insert")
        /\ jobPc[j] \in CandidatePcs \ {"insert"} => candidateRows[<<j, index[j]>>] = "pending"
        /\ jobPc[j] = "decide" => \E a \in auditRows : a.id = <<j, index[j]>>
        /\ \A a \in auditRows : a.id[1] = j =>
             /\ jobPc[j] \in {"promote", "write_memory", "audit"} => a.id[2] < index[j]
             /\ Last(a) => a.after = IF jobPc[j] = "decide" THEN afterContent[j]
                                                            ELSE mutableMemory[j]
    BY <2>1, <2>4 DEF RunOf
  <2>6. candidateRows'[<<j, index[j]>>] = candidateRows[<<j, index[j]>>]
    BY <1>2, <2>1
  <2> QED BY <1>2, <2>2, <2>5, <2>6 DEF RunOf
<1> QED BY <1>1, <1>2

(* A step that writes no rows of the memory and changes no job's copy but  *)
(* by ending it keeps what is said of them.                                *)
LEMMA MemoryKept ==
  ASSUME IInv, UNCHANGED <<candidateRows, auditRows>>,
         \A j \in Jobs :
           \/ index'[j] = 0
           \/ /\ index'[j] = index[j] /\ jobPc'[j] = jobPc[j]
              /\ mutableMemory'[j] = mutableMemory[j] /\ afterContent'[j] = afterContent[j]
  PROVE  RowsInv' /\ RunInv' /\ ChainInv'
<1>1. RowsInv' /\ ChainInv'
  BY DEF IInv, RowsInv, ChainInv
<1>2. ASSUME NEW j \in Jobs PROVE RunOf(j)'
  BY <1>2, RunKept
<1> QED BY <1>1, <1>2 DEF RunInv

LEMMA ForgetFacts ==
  ASSUME IInv, NEW js \in SUBSET Jobs, Forget(js)
  PROVE  /\ loadedSummary' \in [Jobs -> Seq(SummaryLines)]
         /\ mutableMemory' \in [Jobs -> Texts] /\ afterContent' \in [Jobs -> Texts]
         /\ candidate' \in [Jobs -> Candidates \cup {None}]
         /\ index' \in [Jobs -> 0 .. MaxCandidates]
         /\ \A j \in js : index'[j] = 0 /\ loadedSummary'[j] = << >>
         /\ \A j \in Jobs \ js :
              /\ loadedSummary'[j] = loadedSummary[j] /\ mutableMemory'[j] = mutableMemory[j]
              /\ afterContent'[j] = afterContent[j]
              /\ candidate'[j] = candidate[j] /\ index'[j] = index[j]
<1> USE BrainAssumption DEF IInv, Forget
<1>1. << >> \in Seq(SummaryLines) /\ << >> \in Texts
  BY DEF Texts
<1>2. 0 \in 0 .. MaxCandidates
  OBVIOUS
<1>3. loadedSummary' \in [Jobs -> Seq(SummaryLines)]
  BY <1>1 DEF TypeOK
<1>4. mutableMemory' \in [Jobs -> Texts] /\ afterContent' \in [Jobs -> Texts]
  BY <1>1 DEF LimitInv
<1>5. candidate' \in [Jobs -> Candidates \cup {None}] /\ index' \in [Jobs -> 0 .. MaxCandidates]
  BY <1>2 DEF TypeOK
<1>6. \A j \in js : index'[j] = 0 /\ loadedSummary'[j] = << >>
  OBVIOUS
<1>7. \A j \in Jobs \ js :
        /\ loadedSummary'[j] = loadedSummary[j] /\ mutableMemory'[j] = mutableMemory[j]
        /\ afterContent'[j] = afterContent[j]
        /\ candidate'[j] = candidate[j] /\ index'[j] = index[j]
  OBVIOUS
<1> QED BY <1>3, <1>4, <1>5, <1>6, <1>7

-----------------------------------------------------------------------------
(* The life of a job in the queue.                                         *)
LEMMA AddJobStep ==
  ASSUME IInv, NEW j \in Jobs, AddJob(j)
  PROVE  IInv'
<1> USE BrainAssumption DEF IInv, AddJob, eventVars, memoryRows, jobVars
<1>1. TypeOK'
  BY DEF TypeOK
<1>2. LimitInv'
  BY DEF LimitInv
<1>3. PlaceInv'
  BY DEF PlaceInv, TypeOK
<1>4. SummaryInv'
  BY SummaryKept
<1>5. RowsInv' /\ RunInv' /\ ChainInv'
  BY MemoryKept
<1> QED BY <1>1, <1>2, <1>3, <1>4, <1>5

LEMMA PullJobStep ==
  ASSUME IInv, NEW j \in Jobs, PullJob(j)
  PROVE  IInv'
<1> USE BrainAssumption DEF IInv, PullJob, GoTo, eventVars, memoryRows, jobVars
<1>1. /\ jobPc'[j] = IF j \in Tasks THEN "embedding" ELSE "load_memory"
      /\ brainQueue'[j] = "active" /\ index[j] = 0
      /\ \A k \in Jobs \ {j} : jobPc'[k] = jobPc[k] /\ brainQueue'[k] = brainQueue[k]
  BY ZenonT(40) DEF TypeOK, PlaceInv, Pcs, CandidatePcs, TaskPcs
<1>2. TypeOK'
  BY DEF TypeOK, Pcs, TaskPcs
<1>3. LimitInv'
  BY DEF LimitInv
<1>4. PlaceInv'
  BY <1>1 DEF PlaceInv, TaskPcs, CandidatePcs, Jobs
<1>5. SummaryInv'
  <2>1. \A t \in Tasks : jobPc'[t] \in TaskPcs \ {"embedding"}
                            => jobPc[t] \in TaskPcs \ {"embedding"}
    BY <1>1 DEF TaskPcs, Jobs
  <2> QED BY <2>1, SummaryKept
<1>6. RowsInv' /\ RunInv' /\ ChainInv'
  BY <1>1, MemoryKept
<1> QED BY <1>2, <1>3, <1>4, <1>5, <1>6

(* However it ends, a job leaves only rows behind.                         *)
LEMMA JobEndsFacts ==
  ASSUME IInv, NEW j \in Jobs, NEW status \in {"completed", "failed"}, JobEnds(j, status),
         UNCHANGED <<eventVars, rollingSummary, memoryRows, asking>>,
         sessionTimer' \in Tasks \cup {None}
  PROVE  IInv'
<1> USE BrainAssumption DEF IInv, JobEnds, GoTo, eventVars, memoryRows
<1>1. /\ jobPc'[j] = "idle" /\ jobPc' \in [Jobs -> Pcs]
      /\ \A k \in Jobs \ {j} : jobPc'[k] = jobPc[k] /\ brainQueue'[k] = brainQueue[k]
  BY DEF TypeOK, Pcs
<1>2. Forget({j}) /\ {j} \in SUBSET Jobs
  OBVIOUS
<1>3. /\ loadedSummary' \in [Jobs -> Seq(SummaryLines)]
      /\ mutableMemory' \in [Jobs -> Texts] /\ afterContent' \in [Jobs -> Texts]
      /\ candidate' \in [Jobs -> Candidates \cup {None}]
      /\ index' \in [Jobs -> 0 .. MaxCandidates]
      /\ index'[j] = 0 /\ loadedSummary'[j] = << >>
      /\ \A k \in Jobs \ {j} :
           /\ loadedSummary'[k] = loadedSummary[k] /\ mutableMemory'[k] = mutableMemory[k]
           /\ afterContent'[k] = afterContent[k]
           /\ candidate'[k] = candidate[k] /\ index'[k] = index[k]
  <2> HIDE DEF IInv, JobEnds, GoTo
  <2> QED BY <1>2, ForgetFacts
<1>4. TypeOK'
  BY <1>1, <1>3 DEF TypeOK
<1>5. LimitInv'
  BY <1>3 DEF LimitInv
<1>6. PlaceInv'
  BY <1>1, <1>3, ZenonT(40) DEF PlaceInv, TaskPcs, CandidatePcs, Jobs
<1>7. SummaryInv'
  <2>1. \A t \in Tasks : jobPc'[t] \in TaskPcs \ {"embedding"}
                            => jobPc[t] \in TaskPcs \ {"embedding"}
    BY <1>1 DEF TaskPcs, Jobs
  <2>2. \A k \in Jobs : loadedSummary'[k] = loadedSummary[k] \/ loadedSummary'[k] = << >>
    BY <1>3
  <2> QED BY <2>1, <2>2, SummaryKept
<1>8. RowsInv' /\ RunInv' /\ ChainInv'
  BY <1>1, <1>3, MemoryKept
<1> QED BY <1>4, <1>5, <1>6, <1>7, <1>8

LEMMA ThrowsStep ==
  ASSUME IInv, NEW j \in Jobs, Throws(j)
  PROVE  IInv'
<1>1. sessionTimer' \in Tasks \cup {None}
  BY DEF IInv, TypeOK, Throws
<1> QED BY <1>1, JobEndsFacts DEF Throws

LEMMA CandidatesDoneStep ==
  ASSUME IInv, NEW j \in Jobs, CandidatesDone(j)
  PROVE  IInv'
<1>1. sessionTimer' \in Tasks \cup {None}
  BY DEF IInv, TypeOK, CandidatesDone
<1> QED BY <1>1, JobEndsFacts DEF CandidatesDone

LEMMA StalledJobStep ==
  ASSUME IInv, NEW j \in Jobs, StalledJob(j)
  PROVE  IInv'
<1> USE BrainAssumption DEF IInv, StalledJob, eventVars, memoryRows, jobVars
<1>1. /\ jobPc[j] = "idle" /\ brainQueue'[j] \in {"failed", "waiting"}
      /\ \A k \in Jobs \ {j} : brainQueue'[k] = brainQueue[k]
  BY DEF TypeOK
<1>2. TypeOK'
  BY DEF TypeOK
<1>3. LimitInv'
  BY DEF LimitInv
<1>4. PlaceInv'
  BY <1>1 DEF PlaceInv
<1>5. SummaryInv'
  BY SummaryKept
<1>6. RowsInv' /\ RunInv' /\ ChainInv'
  BY MemoryKept
<1> QED BY <1>2, <1>3, <1>4, <1>5, <1>6

LEMMA CrashStep ==
  ASSUME IInv, Crash
  PROVE  IInv'
<1> USE BrainAssumption DEF IInv, Crash, queueVars, eventVars, memoryRows
<1>1. jobPc' \in [Jobs -> Pcs] /\ \A j \in Jobs : jobPc'[j] = "idle"
  BY DEF Pcs
<1>2. /\ loadedSummary' \in [Jobs -> Seq(SummaryLines)]
      /\ mutableMemory' \in [Jobs -> Texts] /\ afterContent' \in [Jobs -> Texts]
      /\ candidate' \in [Jobs -> Candidates \cup {None}]
      /\ index' \in [Jobs -> 0 .. MaxCandidates]
      /\ \A j \in Jobs : index'[j] = 0 /\ loadedSummary'[j] = << >>
  <2>1. Forget(Jobs)
    OBVIOUS
  <2> HIDE DEF IInv, Crash
  <2> QED BY <2>1, ForgetFacts
<1>3. TypeOK'
  BY <1>1, <1>2 DEF TypeOK
<1>4. LimitInv'
  BY <1>2 DEF LimitInv
<1>5. PlaceInv'
  BY <1>1, <1>2 DEF PlaceInv, TaskPcs, CandidatePcs
<1>6. SummaryInv'
  <2>1. \A t \in Tasks : jobPc'[t] \notin TaskPcs
    BY <1>1 DEF TaskPcs, Jobs
  <2>2. \A j \in Jobs : loadedSummary'[j] = << >>
    BY <1>2
  <2> QED BY <2>1, <2>2, SummaryKept
<1>7. RowsInv' /\ RunInv' /\ ChainInv'
  BY <1>2, MemoryKept
<1> QED BY <1>3, <1>4, <1>5, <1>6, <1>7

(* The session takeaway.                                                   *)
LEMMA SessionTimerFiresStep ==
  ASSUME IInv, NEW silent \in BOOLEAN, SessionTimerFires(silent)
  PROVE  IInv'
<1> USE BrainAssumption DEF IInv, SessionTimerFires, queueVars, eventVars, memoryRows, jobVars
<1>1. TypeOK'
  BY DEF TypeOK
<1>2. LimitInv' /\ PlaceInv'
  BY DEF LimitInv, PlaceInv
<1>3. SummaryInv'
  BY SummaryKept
<1>4. RowsInv' /\ RunInv' /\ ChainInv'
  BY MemoryKept
<1> QED BY <1>1, <1>2, <1>3, <1>4

LEMMA SessionAnsweredStep ==
  ASSUME IInv, NEW useful \in BOOLEAN, SessionAnswered(useful)
  PROVE  IInv'
<1> USE BrainAssumption DEF IInv, SessionAnswered, queueVars, memoryRows, jobVars
<1>1. TypeOK'
  BY DEF TypeOK, UpdateTakeaway
<1>2. LimitInv' /\ PlaceInv'
  BY DEF LimitInv, PlaceInv
<1>3. SummaryInv'
  BY SummaryKept
<1>4. RowsInv' /\ RunInv' /\ ChainInv'
  BY MemoryKept
<1> QED BY <1>1, <1>2, <1>3, <1>4

-----------------------------------------------------------------------------
(* The event and the summary of a task.                                    *)
LEMMA RecordTaskEventStep ==
  ASSUME IInv, NEW t \in Tasks, RecordTaskEvent(t)
  PROVE  IInv'
<1> USE BrainAssumption DEF RecordTaskEvent, PersistTaskEvent
<1> t \in Jobs
  BY DEF Jobs
<1>1. CASE t \in taskEvents
  <2>1. sessionTimer' \in Tasks \cup {None}
    BY DEF IInv, TypeOK
  <2> QED BY <1>1, <2>1, JobEndsFacts DEF eventVars
<1>2. CASE t \notin taskEvents
  <2> USE DEF IInv, AtPc, GoTo, memoryRows, jobVars
  <2>1. /\ jobPc[t] = "embedding" /\ jobPc'[t] = "failure_takeaway"
        /\ taskEvents' = taskEvents \cup {t} /\ index[t] = 0
        /\ \A k \in Jobs \ {t} : jobPc'[k] = jobPc[k]
    BY <1>2 DEF TypeOK, PlaceInv, CandidatePcs, TaskPcs
  <2>2. TypeOK'
    BY <1>2, ZenonT(40) DEF TypeOK, Pcs, TaskPcs
  <2>3. LimitInv'
    BY <1>2 DEF LimitInv
  <2>4. PlaceInv'
    BY <1>2, <2>1 DEF PlaceInv, TaskPcs, CandidatePcs
  <2>5. SummaryInv'
    <3>1. ~Says(rollingSummary, t) /\ \A j \in Jobs : ~Says(loadedSummary[j], t)
      BY <1>2 DEF SummaryInv, Sound, Says
    <3>2. Sound(rollingSummary, taskEvents') /\ \A j \in Jobs : Sound(loadedSummary[j], taskEvents')
      BY <2>1 DEF SummaryInv, Sound
    <3>3. \A u \in Tasks \ {t} : jobPc'[u] = jobPc[u]
      BY <2>1 DEF Jobs
    <3> QED BY <1>2, <3>1, <3>2, <3>3 DEF SummaryInv, BeforeItsLine
  <2>6. RowsInv' /\ RunInv' /\ ChainInv'
    BY <1>2, <2>1, MemoryKept
  <2> QED BY <2>2, <2>3, <2>4, <2>5, <2>6
<1> QED BY <1>1, <1>2

LEMMA UpdateFailureTakeawayStep ==
  ASSUME IInv, NEW t \in Tasks, UpdateFailureTakeawayIfNeeded(t)
  PROVE  IInv'
<1> USE BrainAssumption DEF IInv, UpdateFailureTakeawayIfNeeded, AtPc, GoTo, queueVars,
                            memoryRows, jobVars
<1> t \in Jobs
  BY DEF Jobs
<1>1. /\ jobPc[t] = "failure_takeaway" /\ jobPc'[t] = "load_summary" /\ index[t] = 0
      /\ \A k \in Jobs \ {t} : jobPc'[k] = jobPc[k]
  BY DEF TypeOK, PlaceInv, CandidatePcs, TaskPcs
<1>2. takeaway' \in [Tasks -> {"none", "failure", "session"}]
  BY DEF TypeOK, UpdateTakeaway
<1>3. TypeOK'
  BY <1>2 DEF TypeOK, Pcs, TaskPcs
<1>4. LimitInv'
  BY DEF LimitInv
<1>5. PlaceInv'
  BY <1>1 DEF PlaceInv, TaskPcs, CandidatePcs
<1>6. SummaryInv'
  <2>1. \A u \in Tasks : jobPc'[u] \in TaskPcs \ {"embedding"}
                            => jobPc[u] \in TaskPcs \ {"embedding"}
    BY <1>1 DEF TaskPcs, Jobs
  <2> QED BY <2>1, SummaryKept
<1>7. RowsInv' /\ RunInv' /\ ChainInv'
  BY <1>1, MemoryKept
<1> QED BY <1>3, <1>4, <1>5, <1>6, <1>7

LEMMA LoadRollingSummaryStep ==
  ASSUME IInv, NEW t \in Tasks, LoadRollingSummary(t)
  PROVE  IInv'
<1> USE BrainAssumption DEF IInv, LoadRollingSummary, AtPc, GoTo, queueVars, eventVars, memoryRows
<1> t \in Jobs
  BY DEF Jobs
<1>1. /\ jobPc[t] = "load_summary" /\ jobPc'[t] = "write_summary" /\ index[t] = 0
      /\ loadedSummary'[t] = rollingSummary
      /\ \A k \in Jobs \ {t} : jobPc'[k] = jobPc[k] /\ loadedSummary'[k] = loadedSummary[k]
  BY DEF TypeOK, PlaceInv, CandidatePcs, TaskPcs
<1>2. TypeOK'
  BY DEF TypeOK, Pcs, TaskPcs
<1>3. LimitInv'
  BY DEF LimitInv
<1>4. PlaceInv'
  BY <1>1 DEF PlaceInv, TaskPcs, CandidatePcs
<1>5. SummaryInv'
  <2>1. \A j \in Jobs : loadedSummary'[j] \in {loadedSummary[j], rollingSummary}
    BY <1>1
  <2>2. \A u \in Tasks : BeforeItsLine(u)' => BeforeItsLine(u)
    BY <1>1 DEF BeforeItsLine, TaskPcs, Jobs
  <2> QED BY <2>1, <2>2 DEF SummaryInv
<1>6. RowsInv' /\ RunInv' /\ ChainInv'
  BY <1>1, MemoryKept
<1> QED BY <1>2, <1>3, <1>4, <1>5, <1>6

(* The one step that adds a line: the task's own, which nobody has said.   *)
LEMMA WriteRollingSummaryStep ==
  ASSUME IInv, NEW t \in Tasks, WriteRollingSummary(t)
  PROVE  IInv'
<1> USE BrainAssumption DEF IInv, WriteRollingSummary, AtPc, GoTo, queueVars, eventVars, memoryRows
<1> t \in Jobs
  BY DEF Jobs
<1>1. /\ jobPc[t] = "write_summary" /\ jobPc'[t] = "load_memory" /\ index[t] = 0
      /\ loadedSummary'[t] = << >> /\ t \in taskEvents
      /\ \A k \in Jobs \ {t} : jobPc'[k] = jobPc[k] /\ loadedSummary'[k] = loadedSummary[k]
  BY DEF TypeOK, PlaceInv, CandidatePcs, TaskPcs
<1>2. /\ rollingSummary' \in Seq(SummaryLines) /\ Sound(rollingSummary', taskEvents)
      /\ \A u \in Tasks \ {t} : ~Says(loadedSummary[t], u) => ~Says(rollingSummary', u)
  <2> DEFINE s == loadedSummary[t]
  <2>1. s \in Seq(SummaryLines) /\ t \in SummaryLines /\ Sound(s, taskEvents) /\ ~Says(s, t)
    BY <1>1 DEF TypeOK, SummaryInv, BeforeItsLine, TaskPcs, SummaryLines
  <2>2. CASE rollingSummary' \in Digests
    BY <2>2, TextFacts DEF Sound, Says
  <2>3. CASE rollingSummary' = Append(s, t) /\ Len(Append(s, t)) <= SummaryThreshold
    <3>1. /\ Append(s, t) \in Seq(SummaryLines) /\ Len(Append(s, t)) = Len(s) + 1
          /\ Len(s) \in Nat /\ Append(s, t)[Len(s) + 1] = t
          /\ \A i \in 1 .. Len(s) : Append(s, t)[i] = s[i] /\ s[i] # t
      BY <2>1 DEF Says
    <3>2. Sound(Append(s, t), taskEvents)
      BY <1>1, <2>1, <2>3, <3>1, SMTT(30) DEF Sound
    <3>3. \A u \in Tasks \ {t} : ~Says(s, u) => ~Says(Append(s, t), u)
      BY <3>1 DEF Says
    <3> QED BY <2>3, <3>1, <3>2, <3>3
  <2> QED BY <2>1, <2>2, <2>3 DEF SummaryAfter
<1>3. TypeOK'
  BY <1>2, SMTT(30) DEF TypeOK, Pcs, TaskPcs
<1>4. LimitInv'
  BY DEF LimitInv
<1>5. PlaceInv'
  BY <1>1 DEF PlaceInv, TaskPcs, CandidatePcs
<1>6. SummaryInv'
  <2>1. Sound(<< >>, taskEvents) /\ \A u \in Tasks : ~Says(<< >>, u)
    BY DEF Sound, Says
  <2>2. \A j \in Jobs : loadedSummary'[j] \in {loadedSummary[j], << >>}
    BY <1>1
  <2>3. \A u \in Tasks : BeforeItsLine(u)' => BeforeItsLine(u) /\ u # t
    BY <1>1 DEF BeforeItsLine, TaskPcs, Jobs
  <2> QED BY <1>2, <2>1, <2>2, <2>3 DEF SummaryInv
<1>7. RowsInv' /\ RunInv' /\ ChainInv'
  BY <1>1, MemoryKept
<1> QED BY <1>3, <1>4, <1>5, <1>6, <1>7

-----------------------------------------------------------------------------
(* The candidates of a job.                                                *)
LEMMA LoadBotMemoryStep ==
  ASSUME IInv, NEW j \in Jobs, LoadBotMemory(j)
  PROVE  IInv'
<1> USE BrainAssumption DEF IInv, LoadBotMemory, AtPc, GoTo, queueVars, eventVars, memoryRows
<1>1. /\ jobPc[j] = "load_memory" /\ jobPc'[j] = "generate" /\ index[j] = 0
      /\ \A k \in Jobs \ {j} : jobPc'[k] = jobPc[k] /\ mutableMemory'[k] = mutableMemory[k]
  BY DEF TypeOK, LimitInv, PlaceInv, CandidatePcs, TaskPcs
<1>2. TypeOK'
  BY DEF TypeOK, Pcs
<1>3. LimitInv'
  BY DEF LimitInv
<1>4. PlaceInv'
  BY <1>1 DEF PlaceInv, TaskPcs, CandidatePcs
<1>5. SummaryInv'
  <2>1. \A u \in Tasks : jobPc'[u] \in TaskPcs \ {"embedding"}
                            => jobPc[u] \in TaskPcs \ {"embedding"}
    BY <1>1 DEF TaskPcs, Jobs
  <2> QED BY <2>1, SummaryKept
<1>6. RowsInv' /\ RunInv' /\ ChainInv'
  BY <1>1, MemoryKept
<1> QED BY <1>2, <1>3, <1>4, <1>5, <1>6

LEMMA GenerateMemoryCandidatesStep ==
  ASSUME IInv, NEW j \in Jobs, GenerateMemoryCandidates(j)
  PROVE  IInv'
<1> USE BrainAssumption DEF IInv, GenerateMemoryCandidates, AtPc, GoTo, queueVars, eventVars,
                            memoryRows, jobVars
<1>1. /\ jobPc[j] = "generate" /\ jobPc'[j] = "next" /\ index[j] = 0
      /\ \A k \in Jobs \ {j} : jobPc'[k] = jobPc[k]
  BY DEF TypeOK, PlaceInv, CandidatePcs, TaskPcs
<1>2. TypeOK'
  BY DEF TypeOK, Pcs
<1>3. LimitInv'
  BY DEF LimitInv
<1>4. PlaceInv'
  BY <1>1 DEF PlaceInv, TaskPcs, CandidatePcs
<1>5. SummaryInv'
  <2>1. \A u \in Tasks : jobPc'[u] \in TaskPcs \ {"embedding"}
                            => jobPc[u] \in TaskPcs \ {"embedding"}
    BY <1>1 DEF TaskPcs, Jobs
  <2> QED BY <2>1, SummaryKept
<1>6. RowsInv' /\ RunInv' /\ ChainInv'
  BY <1>1, MemoryKept
<1> QED BY <1>2, <1>3, <1>4, <1>5, <1>6

LEMMA NextCandidateStep ==
  ASSUME IInv, NEW j \in Jobs, NextCandidate(j)
  PROVE  IInv'
<1> USE BrainAssumption DEF IInv, NextCandidate, AtPc, GoTo, queueVars, eventVars, memoryRows
<1>1. /\ jobPc[j] = "next" /\ jobPc'[j] = "insert" /\ candidate'[j] \in Candidates
      /\ index[j] \in 0 .. MaxCandidates /\ index'[j] = index[j] + 1
      /\ index' \in [Jobs -> 0 .. MaxCandidates] /\ candidate' \in [Jobs -> Candidates \cup {None}]
      /\ \A k \in Jobs \ {j} : /\ jobPc'[k] = jobPc[k] /\ index'[k] = index[k]
                               /\ candidate'[k] = candidate[k]
  BY DEF TypeOK
<1>2. TypeOK'
  BY <1>1 DEF TypeOK, Pcs, CandidatePcs
<1>3. LimitInv'
  BY DEF LimitInv
<1>4. PlaceInv'
  BY <1>1 DEF PlaceInv, TaskPcs, CandidatePcs
<1>5. SummaryInv'
  <2>1. \A u \in Tasks : jobPc'[u] \in TaskPcs \ {"embedding"}
                            => jobPc[u] \in TaskPcs \ {"embedding"}
    BY <1>1 DEF TaskPcs, Jobs
  <2> QED BY <2>1, SummaryKept
<1>6. RowsInv' /\ ChainInv'
  BY DEF RowsInv, ChainInv
<1>7. RunOf(j)'
  <2>1. RunOf(j) /\ (~Fresh(j)' => ~Fresh(j))
    BY <1>1 DEF RunInv, Fresh
  <2>2. SUFFICES ASSUME ~Fresh(j)' PROVE RunOf(j)'
    BY DEF RunOf
  <2>3. /\ \A i \in 1 .. MaxCandidates : candidateRows[<<j, i>>] = "none" <=> i > index[j]
        /\ \A a \in auditRows : a.id[1] = j /\ Last(a) => a.after = mutableMemory[j]
    BY <1>1, <2>1, <2>2 DEF RunOf
  <2>4. /\ \A i \in 1 .. MaxCandidates :
             candidateRows'[<<j, i>>] = "none" <=> i > index'[j] \/ i = index'[j]
        /\ \A a \in auditRows' : a.id[1] = j /\ Last(a)' => a.after = mutableMemory'[j]
    BY <1>1, <2>3 DEF Last
  <2> QED BY <1>1, <2>4 DEF RunOf, CandidatePcs
<1>8. \A k \in Jobs \ {j} : RunOf(k)'
  BY <1>1, RunKept
<1> QED BY <1>2, <1>3, <1>4, <1>5, <1>6, <1>7, <1>8 DEF RunInv

(* A new row is the first of a fresh job, or the next one.                 *)
LEMMA InsertMemoryCandidateStep ==
  ASSUME IInv, NEW j \in Jobs, InsertMemoryCandidate(j)
  PROVE  IInv'
<1> DEFINE id == <<j, index[j]>>
<1>1. CASE candidateRows[id] # "none" /\ JobEnds(j, "failed") /\ UNCHANGED candidateRows
  <2>1. sessionTimer' \in Tasks \cup {None}
    BY DEF IInv, TypeOK, InsertMemoryCandidate
  <2> QED BY <1>1, <2>1, JobEndsFacts DEF InsertMemoryCandidate, eventVars, memoryRows
<1>2. CASE /\ candidateRows[id] = "none"
           /\ candidateRows' = [candidateRows EXCEPT ![id] = InitialStatus(j)]
           /\ IF Promotable(j)
              THEN GoTo(j, "promote") /\ UNCHANGED candidate
              ELSE GoTo(j, "next") /\ candidate' = [candidate EXCEPT ![j] = None]
           /\ UNCHANGED <<brainQueue, loadedSummary, mutableMemory, index, afterContent>>
  <2> USE BrainAssumption DEF IInv
  <2>1. /\ jobPc[j] = "insert"
        /\ UNCHANGED <<stalledOnce, taskEvents, takeaway, rollingSummary, botMemory, auditRows,
                       sessionTimer, asking, crashes>>
    BY DEF InsertMemoryCandidate, AtPc, eventVars
  <2>2. /\ candidate[j] \in Candidates /\ index[j] \in 1 .. MaxCandidates /\ id \in CandidateIds
        /\ j \in Tasks => j \in taskEvents
        /\ brainQueue[j] = "active"
    BY <2>1 DEF TypeOK, PlaceInv, CandidatePcs, TaskPcs, CandidateIds
  <2>3. /\ jobPc'[j] \in {"promote", "next"}
        /\ jobPc'[j] = "promote" => InitialStatus(j) = "pending" /\ candidate'[j] = candidate[j]
        /\ jobPc' \in [Jobs -> Pcs] /\ candidate' \in [Jobs -> Candidates \cup {None}]
        /\ \A k \in Jobs \ {j} : jobPc'[k] = jobPc[k] /\ candidate'[k] = candidate[k]
    BY <1>2, <2>1, <2>2, ZenonT(40) DEF TypeOK, GoTo, Promotable, InitialStatus, Pcs, CandidatePcs
  <2>4. /\ InitialStatus(j) \in {"pending", "rejected"} /\ candidateRows'[id] = InitialStatus(j)
        /\ \A c \in CandidateIds \ {id} : candidateRows'[c] = candidateRows[c]
        /\ candidateRows' \in [CandidateIds -> {"none", "rejected", "pending", "applied"}]
    BY <1>2, <2>2 DEF InitialStatus, TypeOK
  <2>5. TypeOK'
    BY <1>2, <2>1, <2>3, <2>4 DEF TypeOK
  <2>6. LimitInv'
    BY <1>2, <2>1 DEF LimitInv
  <2>7. PlaceInv'
    BY <1>2, <2>1, <2>2, <2>3 DEF PlaceInv, TaskPcs, CandidatePcs
  <2>8. SummaryInv'
    <3>1. \A u \in Tasks : jobPc'[u] \in TaskPcs \ {"embedding"}
                              => jobPc[u] \in TaskPcs \ {"embedding"}
      BY <2>1, <2>3 DEF TaskPcs, Jobs
    <3> QED BY <1>2, <2>1, <3>1, SummaryKept
  <2>9. \A a \in auditRows : a.id # id /\ a.id \in CandidateIds
    BY <1>2 DEF RowsInv, TypeOK
  <2>10. \A i \in 1 .. MaxCandidates : /\ i < index[j] => candidateRows[<<j, i>>] # "none"
                                       /\ i >= index[j] => candidateRows[<<j, i>>] = "none"
    <3>1. CASE Fresh(j)
      <4>1. index[j] = 1
        BY <2>2, <3>1 DEF Fresh
      <4> QED BY <1>2, <2>2, <4>1 DEF RowsInv
    <3>2. CASE ~Fresh(j)
      BY <2>1, <2>2, <3>2 DEF RunInv, RunOf
    <3> QED BY <3>1, <3>2
  <2>11. RowsInv'
    <3>1. \A k \in Jobs : \A i \in 1 .. MaxCandidates :
            candidateRows'[<<k, i>>] = "none" <=> candidateRows[<<k, i>>] = "none" /\ <<k, i>> # id
      BY <2>2, <2>4 DEF CandidateIds
    <3>2. ASSUME NEW k \in Jobs, NEW i \in 1 .. MaxCandidates, NEW m \in 1 .. MaxCandidates,
                 m <= i, candidateRows'[<<k, i>>] # "none"
          PROVE  candidateRows'[<<k, m>>] # "none"
      BY <2>2, <2>10, <3>1, <3>2 DEF RowsInv
    <3>3. \A a \in auditRows' : candidateRows'[a.id] \in {"pending", "applied"}
      BY <2>1, <2>4, <2>9 DEF RowsInv
    <3>4. \A c \in CandidateIds :
            candidateRows'[c] = "applied" => \E a \in auditRows' : a.id = c
      BY <2>1, <2>4 DEF RowsInv
    <3> QED BY <3>2, <3>3, <3>4 DEF RowsInv
  <2>12. \A k \in Jobs \ {j} : RunOf(k)'
    BY <1>2, <2>1, <2>2, <2>3, <2>4, RunKept DEF CandidateIds
  <2>13. RunOf(j)'
    <3>1. \A a \in auditRows : a.id[1] = j =>
            a.id[2] < index[j] /\ ~Fresh(j) /\ a.id[2] \in 1 .. MaxCandidates
      BY <2>1, <2>2, <2>9, <2>10 DEF Fresh, CandidateIds, RowsInv
    <3>2. \A i \in 1 .. MaxCandidates : candidateRows'[<<j, i>>] = "none" <=> i > index[j]
      BY <2>2, <2>4, <2>10 DEF CandidateIds
    <3>3. jobPc'[j] = "promote" => candidateRows'[<<j, index[j]>>] = "pending"
      BY <2>3, <2>4
    <3>4. \A a \in auditRows : a.id[1] = j /\ Last(a) => a.after = mutableMemory[j]
      BY <2>1, <3>1 DEF RunInv, RunOf
    <3>5. /\ index' = index /\ mutableMemory' = mutableMemory /\ auditRows' = auditRows
          /\ jobPc'[j] \in {"promote", "next"}
      BY <1>2, <2>1, <2>3
    <3>6. \A a \in auditRows' : a.id[1] = j =>
            a.id[2] < index'[j] /\ (Last(a)' => a.after = mutableMemory'[j])
      BY <3>1, <3>4, <3>5 DEF Last
    <3> QED BY <2>2, <3>2, <3>3, <3>5, <3>6 DEF RunOf, CandidatePcs
  <2>14. ChainInv'
    BY <2>1 DEF ChainInv
  <2> QED BY <2>5, <2>6, <2>7, <2>8, <2>11, <2>12, <2>13, <2>14 DEF RunInv
<1> QED BY <1>1, <1>2 DEF InsertMemoryCandidate

(* The promotion of a candidate: of the rows it touches the audit alone,   *)
(* then the candidate's own.                                               *)
LEMMA ResolveMemoryOverflowStep ==
  ASSUME IInv, NEW j \in Jobs, ResolveMemoryOverflow(j)
  PROVE  IInv'
<1> USE BrainAssumption DEF IInv, ResolveMemoryOverflow, AtPc, GoTo, queueVars, eventVars, memoryRows
<1>1. /\ jobPc[j] = "promote" /\ jobPc'[j] = "write_memory" /\ jobPc' \in [Jobs -> Pcs]
      /\ candidate[j] \in Candidates /\ ~Fresh(j)
      /\ \A k \in Jobs \ {j} : jobPc'[k] = jobPc[k]
  BY DEF TypeOK, PlaceInv, Fresh, CandidatePcs, Pcs
<1>2. /\ afterContent' \in [Jobs -> Texts]
      /\ \A k \in Jobs \ {j} : afterContent'[k] = afterContent[k]
  <2>1. PICK text \in Resolutions(Append(mutableMemory[j], candidate[j].line)) :
          afterContent' = [afterContent EXCEPT ![j] = text]
    OBVIOUS
  <2>2. Append(mutableMemory[j], candidate[j].line) \in Seq(Lines)
    BY <1>1 DEF LimitInv, Texts, Candidates
  <2>3. text \in Texts
    BY <2>1, <2>2, TextFacts DEF Resolutions, Texts
  <2> QED BY <2>1, <2>3 DEF LimitInv
<1>3. TypeOK'
  BY <1>1 DEF TypeOK
<1>4. LimitInv'
  BY <1>2 DEF LimitInv
<1>5. PlaceInv'
  BY <1>1 DEF PlaceInv, TaskPcs, CandidatePcs
<1>6. SummaryInv'
  <2>1. \A u \in Tasks : jobPc'[u] \in TaskPcs \ {"embedding"}
                            => jobPc[u] \in TaskPcs \ {"embedding"}
    BY <1>1 DEF TaskPcs, Jobs
  <2> QED BY <2>1, SummaryKept
<1>7. RowsInv' /\ ChainInv'
  BY DEF RowsInv, ChainInv
<1>8. RunOf(j)'
  BY <1>1 DEF RunInv, RunOf, Last, CandidatePcs
<1>9. \A k \in Jobs \ {j} : RunOf(k)'
  BY <1>1, <1>2, RunKept
<1> QED BY <1>3, <1>4, <1>5, <1>6, <1>7, <1>8, <1>9 DEF RunInv

LEMMA WriteBotMemoryStep ==
  ASSUME IInv, NEW j \in Jobs, WriteBotMemory(j)
  PROVE  IInv'
<1> USE BrainAssumption DEF IInv, WriteBotMemory, AtPc, GoTo, queueVars, eventVars, jobVars
<1>1. /\ jobPc[j] = "write_memory" /\ jobPc'[j] = "audit" /\ jobPc' \in [Jobs -> Pcs] /\ ~Fresh(j)
      /\ \A k \in Jobs \ {j} : jobPc'[k] = jobPc[k]
  BY DEF TypeOK, PlaceInv, Fresh, CandidatePcs, Pcs
<1>2. TypeOK'
  BY <1>1 DEF TypeOK
<1>3. LimitInv'
  BY DEF LimitInv
<1>4. PlaceInv'
  BY <1>1 DEF PlaceInv, TaskPcs, CandidatePcs
<1>5. SummaryInv'
  <2>1. \A u \in Tasks : jobPc'[u] \in TaskPcs \ {"embedding"}
                            => jobPc[u] \in TaskPcs \ {"embedding"}
    BY <1>1 DEF TaskPcs, Jobs
  <2> QED BY <2>1, SummaryKept
<1>6. RowsInv' /\ ChainInv'
  BY DEF RowsInv, ChainInv
<1>7. RunOf(j)'
  BY <1>1 DEF RunInv, RunOf, Last, CandidatePcs
<1>8. \A k \in Jobs \ {j} : RunOf(k)'
  BY <1>1, RunKept
<1> QED BY <1>2, <1>3, <1>4, <1>5, <1>6, <1>7, <1>8 DEF RunInv

(* The new row of the audit comes after every other of its job, and the    *)
(* last one before it left what this one found.                            *)
LEMMA AppendMemoryAuditStep ==
  ASSUME IInv, NEW j \in Jobs, AppendMemoryAudit(j)
  PROVE  IInv'
<1> USE BrainAssumption DEF IInv
<1> DEFINE new == [id |-> <<j, index[j]>>, before |-> mutableMemory[j], after |-> afterContent[j]]
<1>1. /\ jobPc[j] = "audit" /\ jobPc'[j] = "decide" /\ jobPc' \in [Jobs -> Pcs]
      /\ index[j] \in 1 .. MaxCandidates /\ ~Fresh(j)
      /\ \A k \in Jobs \ {j} : jobPc'[k] = jobPc[k]
      /\ auditRows' = auditRows \cup {new}
      /\ UNCHANGED <<brainQueue, stalledOnce, taskEvents, takeaway, rollingSummary, botMemory,
                     candidateRows, loadedSummary, mutableMemory, candidate, index, afterContent,
                     sessionTimer, asking, crashes>>
  BY DEF TypeOK, PlaceInv, Fresh, CandidatePcs, Pcs, AppendMemoryAudit, AtPc, GoTo, queueVars,
         eventVars, jobVars
<1>2. new \in [id : CandidateIds, before : Seq(Lines), after : Seq(Lines)]
  BY <1>1 DEF LimitInv, Texts, CandidateIds
<1>3. TypeOK'
  BY <1>1, <1>2 DEF TypeOK
<1>4. LimitInv'
  BY <1>1 DEF LimitInv
<1>5. PlaceInv'
  BY <1>1 DEF PlaceInv, TaskPcs, CandidatePcs
<1>6. SummaryInv'
  <2>1. \A u \in Tasks : jobPc'[u] \in TaskPcs \ {"embedding"}
                            => jobPc[u] \in TaskPcs \ {"embedding"}
    BY <1>1 DEF TaskPcs, Jobs
  <2> QED BY <1>1, <2>1, SummaryKept
<1>7. /\ candidateRows[<<j, index[j]>>] = "pending"
      /\ \A i \in 1 .. MaxCandidates : candidateRows[<<j, i>>] = "none" <=> i > index[j]
      /\ \A a \in auditRows : a.id[1] = j =>
           a.id[2] < index[j] /\ (Last(a) => a.after = mutableMemory[j])
      /\ \A a \in auditRows : a.id[2] \in 1 .. MaxCandidates
  <2>1. \A a \in auditRows : a.id \in Jobs \X (1 .. MaxCandidates)
    BY DEF TypeOK, CandidateIds
  <2> QED BY <1>1, <2>1 DEF RunInv, RunOf, CandidatePcs
<1>8. new.id[1] = j /\ new.id[2] = index[j] /\ new.before = mutableMemory[j]
        /\ new.after = afterContent[j]
  OBVIOUS
<1>9. RowsInv'
  BY <1>1, <1>7 DEF RowsInv
<1>10. RunOf(j)'
  <2>1. \A a \in auditRows' : a.id[1] = j /\ Last(a)' => a.after = afterContent[j]
    <3>1. ASSUME NEW a \in auditRows, a.id[1] = j, Last(a)' PROVE FALSE
      <4>1. index[j] <= a.id[2]
        BY <1>1, <1>8, <3>1 DEF Last
      <4> QED BY <1>1, <1>7, <3>1, <4>1
    <3> QED BY <1>1, <1>8, <3>1
  <2>2. new \in auditRows' /\ new.id = <<j, index[j]>>
    BY <1>1
  <2> QED BY <1>1, <1>7, <2>1, <2>2 DEF RunOf
<1>11. \A k \in Jobs \ {j} : RunOf(k)'
  <2>1. \A k \in Jobs \ {j} : \A a : a.id[1] = k => (a \in auditRows' <=> a \in auditRows)
    BY <1>1, <1>8
  <2> QED BY <1>1, <2>1, RunKept
<1>12. ChainInv'
  <2>1. SUFFICES ASSUME NEW a \in auditRows', NEW b \in auditRows',
                        a.id[1] = b.id[1], a.id[2] < b.id[2],
                        \A c \in auditRows' :
                          ~(c.id[1] = a.id[1] /\ a.id[2] < c.id[2] /\ c.id[2] < b.id[2])
                 PROVE  b.before = a.after
    BY DEF ChainInv
  <2>2. CASE a \in auditRows /\ b \in auditRows
    BY <1>1, <2>1, <2>2 DEF ChainInv
  <2>3. CASE a \in auditRows /\ b = new
    <3>1. a.id[1] = j
      BY <1>8, <2>1, <2>3
    <3>2. Last(a)
      <4>1. ASSUME NEW c \in auditRows, c.id[1] = a.id[1], ~(c.id[2] <= a.id[2])
            PROVE  FALSE
        <5>1. c.id[2] < index[j] /\ c.id[2] \in Int /\ a.id[2] \in Int
          BY <1>1, <1>7, <2>3, <3>1, <4>1
        <5> QED BY <1>1, <1>8, <2>1, <2>3, <4>1, <5>1
      <4> QED BY <4>1 DEF Last
    <3> QED BY <1>7, <1>8, <2>3, <3>1, <3>2
  <2>4. CASE a = new
    <3>1. b.id[1] = j /\ index[j] < b.id[2]
      BY <1>8, <2>1, <2>4
    <3>2. b \in auditRows
      BY <1>1, <1>8, <3>1
    <3>3. b.id[2] < index[j] /\ b.id[2] \in Int
      BY <1>7, <3>1, <3>2
    <3> QED BY <1>1, <3>1, <3>3
  <2> QED BY <1>1, <2>2, <2>3, <2>4
<1> QED BY <1>3, <1>4, <1>5, <1>6, <1>9, <1>10, <1>11, <1>12 DEF RunInv

LEMMA DecideMemoryCandidateStep ==
  ASSUME IInv, NEW j \in Jobs, DecideMemoryCandidate(j)
  PROVE  IInv'
<1> USE BrainAssumption DEF IInv
<1> DEFINE id == <<j, index[j]>>
<1>1. /\ jobPc[j] = "decide" /\ jobPc'[j] = "next" /\ jobPc' \in [Jobs -> Pcs]
      /\ index[j] \in 1 .. MaxCandidates /\ id \in CandidateIds /\ ~Fresh(j)
      /\ candidateRows' = [candidateRows EXCEPT ![id] = "applied"]
      /\ mutableMemory' = [mutableMemory EXCEPT ![j] = afterContent[j]]
      /\ afterContent' = [afterContent EXCEPT ![j] = << >>]
      /\ candidate' = [candidate EXCEPT ![j] = None]
      /\ UNCHANGED <<brainQueue, stalledOnce, taskEvents, takeaway, rollingSummary, botMemory,
                     auditRows, loadedSummary, index, sessionTimer, asking, crashes>>
      /\ \A k \in Jobs \ {j} : jobPc'[k] = jobPc[k]
  BY DEF TypeOK, PlaceInv, Fresh, CandidatePcs, CandidateIds, Pcs, DecideMemoryCandidate, AtPc,
         GoTo, CopyAfterPromotion, queueVars, eventVars
<1>2. /\ mutableMemory' \in [Jobs -> Texts] /\ afterContent' \in [Jobs -> Texts]
      /\ mutableMemory'[j] = afterContent[j]
      /\ \A k \in Jobs \ {j} : /\ mutableMemory'[k] = mutableMemory[k]
                               /\ afterContent'[k] = afterContent[k]
                               /\ candidate'[k] = candidate[k]
  BY <1>1 DEF LimitInv, TypeOK, Texts
<1>3. /\ candidateRows' \in [CandidateIds -> {"none", "rejected", "pending", "applied"}]
      /\ candidateRows'[id] = "applied"
      /\ \A c \in CandidateIds \ {id} : candidateRows'[c] = candidateRows[c]
  BY <1>1 DEF TypeOK
<1>4. TypeOK'
  BY <1>1, <1>3 DEF TypeOK
<1>5. LimitInv'
  BY <1>1, <1>2 DEF LimitInv
<1>6. PlaceInv'
  BY <1>1, <1>2 DEF PlaceInv, TaskPcs, CandidatePcs
<1>7. SummaryInv'
  <2>1. \A u \in Tasks : jobPc'[u] \in TaskPcs \ {"embedding"}
                            => jobPc[u] \in TaskPcs \ {"embedding"}
    BY <1>1 DEF TaskPcs, Jobs
  <2> QED BY <1>1, <2>1, SummaryKept
<1>8. /\ candidateRows[id] = "pending" /\ \E a \in auditRows : a.id = id
      /\ \A i \in 1 .. MaxCandidates : candidateRows[<<j, i>>] = "none" <=> i > index[j]
      /\ \A a \in auditRows : a.id[1] = j /\ Last(a) => a.after = afterContent[j]
  <2>1. RunOf(j)
    BY DEF RunInv
  <2>2. \A i \in 1 .. MaxCandidates : candidateRows[<<j, i>>] = "none" <=> i > index[j]
    BY <1>1, <2>1 DEF RunOf
  <2>3. \A a \in auditRows : a.id[1] = j /\ Last(a) => a.after = afterContent[j]
    BY <1>1, <2>1 DEF RunOf
  <2>4. candidateRows[id] = "pending" /\ \E a \in auditRows : a.id = id
    BY <1>1, <2>1 DEF RunOf, CandidatePcs
  <2> QED BY <2>2, <2>3, <2>4
<1>9. RowsInv'
  <2>1. \A k \in Jobs : \A i \in 1 .. MaxCandidates :
          candidateRows'[<<k, i>>] = "none" <=> candidateRows[<<k, i>>] = "none"
    BY <1>3, <1>8 DEF CandidateIds
  <2>2. \A a \in auditRows' : candidateRows'[a.id] \in {"pending", "applied"}
    BY <1>1, <1>3 DEF RowsInv, TypeOK
  <2>3. \A c \in CandidateIds : candidateRows'[c] = "applied" => \E a \in auditRows' : a.id = c
    BY <1>1, <1>3, <1>8 DEF RowsInv
  <2> QED BY <2>1, <2>2, <2>3 DEF RowsInv
<1>10. RunOf(j)'
  <2>1. \A i \in 1 .. MaxCandidates : candidateRows'[<<j, i>>] = "none" <=> i > index'[j]
    BY <1>1, <1>3, <1>8 DEF CandidateIds
  <2>2. \A a \in auditRows' : a.id[1] = j /\ Last(a)' => a.after = mutableMemory'[j]
    BY <1>1, <1>2, <1>8 DEF Last
  <2> QED BY <1>1, <2>1, <2>2 DEF RunOf, CandidatePcs
<1>11. \A k \in Jobs \ {j} : RunOf(k)'
  <2>1. \A k \in Jobs \ {j} : \A i \in 1 .. MaxCandidates :
          candidateRows'[<<k, i>>] = candidateRows[<<k, i>>]
    BY <1>3 DEF CandidateIds
  <2> QED BY <1>1, <1>2, <2>1, RunKept
<1>12. ChainInv'
  BY <1>1 DEF ChainInv
<1> QED BY <1>4, <1>5, <1>6, <1>7, <1>9, <1>10, <1>11, <1>12 DEF RunInv

-----------------------------------------------------------------------------
LEMMA InitIInv == Init => IInv
<1> SUFFICES ASSUME Init PROVE IInv
  OBVIOUS
<1> USE BrainAssumption DEF Init
<1>1. TypeOK
  <2>1. << >> \in Seq(SummaryLines) /\ <<Digest>> \in Seq(SummaryLines)
    BY DEF SummaryLines
  <2>2. 0 \in 0 .. MaxCandidates
    OBVIOUS
  <2> QED BY <2>1, <2>2 DEF TypeOK, Pcs
<1>2. LimitInv
  BY DEF LimitInv, Texts
<1>3. PlaceInv
  BY DEF PlaceInv, TaskPcs, CandidatePcs
<1>4. SummaryInv
  <2>1. Sound(<< >>, {}) /\ Sound(<<Digest>>, {})
    BY DEF Sound
  <2>2. \A t \in Tasks : ~BeforeItsLine(t)
    BY DEF BeforeItsLine, TaskPcs, Jobs
  <2> QED BY <2>1, <2>2 DEF SummaryInv
<1>5. RowsInv
  BY DEF RowsInv, CandidateIds
<1>6. RunInv /\ ChainInv
  BY DEF RunInv, RunOf, Fresh, ChainInv
<1> QED BY <1>1, <1>2, <1>3, <1>4, <1>5, <1>6 DEF IInv

LEMMA NextIInv == IInv /\ [Next]_vars => IInv'
<1> SUFFICES ASSUME IInv, [Next]_vars PROVE IInv'
  OBVIOUS
<1>1. ASSUME NEW j \in Jobs,
             AddJob(j) \/ PullJob(j) \/ Throws(j) \/ MemoryStep(j) \/ StalledJob(j)
      PROVE  IInv'
  BY <1>1, AddJobStep, PullJobStep, ThrowsStep, StalledJobStep, LoadBotMemoryStep,
     GenerateMemoryCandidatesStep, NextCandidateStep, CandidatesDoneStep,
     InsertMemoryCandidateStep, ResolveMemoryOverflowStep, WriteBotMemoryStep,
     AppendMemoryAuditStep, DecideMemoryCandidateStep DEF MemoryStep
<1>2. ASSUME NEW t \in Tasks, TaskStep(t)
      PROVE  IInv'
  BY <1>2, RecordTaskEventStep, UpdateFailureTakeawayStep, LoadRollingSummaryStep,
     WriteRollingSummaryStep DEF TaskStep
<1>3. CASE SessionStep
  BY <1>3, SessionTimerFiresStep, SessionAnsweredStep DEF SessionStep
<1>4. CASE Crash
  BY <1>4, CrashStep
<1>5. CASE UNCHANGED vars
  <2> USE <1>5 DEF IInv, vars, queueVars, eventVars, memoryRows, jobVars
  <2>1. TypeOK' /\ LimitInv' /\ PlaceInv'
    BY DEF TypeOK, LimitInv, PlaceInv
  <2>2. SummaryInv'
    BY SummaryKept
  <2>3. RowsInv' /\ RunInv' /\ ChainInv'
    BY MemoryKept
  <2> QED BY <2>1, <2>2, <2>3
<1> QED BY <1>1, <1>2, <1>3, <1>4, <1>5 DEF Next, Terminated

(* The inductive invariant of the worker and its rows.                     *)
THEOREM Invariance == Spec => []IInv
<1>1. Init => IInv
  BY InitIInv
<1>2. IInv /\ [Next]_vars => IInv'
  BY NextIInv
<1> QED BY <1>1, <1>2, PTL DEF Spec

(* No task has two lines in the summary, in which only tasks with an event *)
(* are mentioned and which stays short, whatever is given out a second     *)
(* time and however the handlings of two jobs interleave.                  *)
THEOREM SummaryIsSound == Spec => []SummaryMentionsOnce
<1>1. IInv => SummaryMentionsOnce
  <2> SUFFICES ASSUME IInv PROVE SummaryMentionsOnce
    OBVIOUS
  <2>1. Sound(rollingSummary, taskEvents)
    BY DEF IInv, SummaryInv
  <2>2. ASSUME NEW t \in Tasks
        PROVE  Cardinality(Mentions(t)) <= 1 /\ (Mentions(t) # {} => t \in taskEvents)
    <3>1. CASE Mentions(t) = {}
      BY <3>1, FS_EmptySet
    <3>2. CASE Mentions(t) # {}
      <4>1. PICK i \in 1 .. Len(rollingSummary) : rollingSummary[i] = t
        BY <3>2 DEF Mentions
      <4>2. Mentions(t) = {i}
        BY <2>1, <4>1 DEF Mentions, Sound
      <4>3. Cardinality({i}) = 1
        BY FS_Singleton
      <4> QED BY <2>1, <4>1, <4>2, <4>3 DEF Sound
    <3> QED BY <3>1, <3>2
  <2> QED BY <2>1, <2>2 DEF SummaryMentionsOnce, Sound
<1> QED BY <1>1, Invariance, PTL

(* The promotions of one job build on each other, the audit has all that   *)
(* was applied and nothing that was rejected, and the memory keeps its     *)
(* limit, although a job works on a copy that others make stale.           *)
THEOREM PromotionsAreChained == Spec => []PromotionsChain
<1>1. IInv => PromotionsChain
  BY DEF IInv, LimitInv, Texts, RowsInv, ChainInv, PromotionsChain
<1> QED BY <1>1, Invariance, PTL
=============================================================================
