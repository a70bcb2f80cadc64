------------------------- MODULE TaskPipelineProofs -------------------------
(***************************************************************************)
(* Proofs about TaskPipeline for any sets of messages and control words,   *)
(* any number of crashes, with a sink that fails or not.  The inductive    *)
(* invariant says where a message can be found, what the worker's place    *)
(* says of the job in its hands, that the job it found fresh is not older  *)
(* than anything that started, and what the records say meanwhile.         *)
(***************************************************************************)
EXTENDS TaskPipeline, FiniteSetTheorems, SequenceTheorems, TLAPS

WorkerPc == {"idle", "reading_epoch", "emit_discarded", "emit_started", "calling",
             "executing", "emit_terminal", "emit_brain", "emit_experience"}
TalkPc   == {"idle", "triage", "planning", "accepting", "queueing"}

TypeOK ==
  /\ epoch \in Nat /\ intentEpoch \in [Messages -> Nat]
  /\ execQueue \in [Messages -> {"absent", "waiting", "active", "completed", "failed"}]
  /\ history \in [Messages -> {"none", "accepted", "started", "discarded"} \cup Verdicts]
  /\ brainQueue \in [Messages -> {"none"} \cup Verdicts]
  /\ starts \in Seq(Messages)
  /\ workerPc \in WorkerPc /\ current \in Messages \cup {None}
  /\ verdict \in {"none"} \cup Verdicts /\ inCatch \in BOOLEAN
  /\ holder \in Messages \cup {None} /\ told \in BOOLEAN
  /\ answer \in [Messages -> Answers \cup {"none"}]
  /\ bridge \in [Messages -> {"new", "stamped", "handled", "lost"}]
  /\ convQueue \in Seq(Messages)
  /\ talking \in Messages \cup {None} /\ talkPc \in TalkPc
  /\ orphans \subseteq Messages
  /\ stalledOnce \subseteq {"exec", "conversation"} \X Messages
  /\ crashes \in Nat
  /\ startsAtCancel \in [Messages -> Nat \cup {None}]

(* A message the bridge has not stamped is nowhere else.                   *)
PlaceInv ==
  \A m \in Messages :
    /\ intentEpoch[m] <= epoch
    /\ bridge[m] = "new" =>
         /\ execQueue[m] = "absent" /\ talking # m /\ m \notin orphans
         /\ \A i \in 1 .. Len(convQueue) : convQueue[i] # m
         /\ startsAtCancel[m] = None

(* The workers' places and what they hold; the actor is held only while    *)
(* the worker waits for it.                                                *)
WorkerInv ==
  /\ workerPc = "idle" <=> current = None
  /\ current # None => execQueue[current] = "active"
  /\ holder # None => holder = current /\ workerPc = "executing"
  /\ talkPc = "idle" <=> talking = None
  /\ workerPc \in {"emit_terminal", "emit_brain", "emit_experience"} => verdict \in Verdicts

(* The worker found its job fresh and has not yet given it to the actor.   *)
FoundFresh == workerPc \in {"emit_started", "calling"}

(* What started is in order, and no younger than a job found fresh.        *)
OrderInv ==
  /\ \A i \in 1 .. Len(starts) :
       /\ execQueue[starts[i]] # "absent"
       /\ \A k \in 1 .. Len(starts) :
            i < k => intentEpoch[starts[i]] <= intentEpoch[starts[k]]
  /\ FoundFresh =>
       \A i \in 1 .. Len(starts) : intentEpoch[starts[i]] <= intentEpoch[current]

(* The executions that began after c cancelled although they are older.    *)
Survivors(c) == {i \in startsAtCancel[c] + 1 .. Len(starts) :
                   intentEpoch[starts[i]] < intentEpoch[c]}

(* There is one at most, and none while an older job is still to start.    *)
CancelInv ==
  \A c \in Messages : startsAtCancel[c] # None =>
    /\ \A i, k \in Survivors(c) : i = k
    /\ FoundFresh /\ intentEpoch[current] < intentEpoch[c] => Survivors(c) = {}

Emitting == workerPc \in {"emit_terminal", "emit_brain", "emit_experience"}

(* What the records say of a job at each place of its first handling.      *)
RecordInv ==
  /\ talkPc = "queueing" => history[talking] # "none"
  /\ \A m \in Messages :
       /\ execQueue[m] # "absent" => history[m] # "none"
       /\ ~Redelivered(m) =>
            /\ execQueue[m] \in {"absent", "waiting"} =>
                 history[m] \in {"none", "accepted"} /\ brainQueue[m] = "none"
            /\ current = m /\ ~Emitting =>
                 history[m] \notin Verdicts /\ brainQueue[m] = "none"
            /\ current = m /\ Emitting /\ verdict \in {"completed", "interrupted"} =>
                 answer[m] = verdict
            /\ current = m /\ workerPc \in {"emit_brain", "emit_experience"} =>
                 history[m] \in Verdicts

IInv ==
  /\ TypeOK
  /\ PlaceInv
  /\ WorkerInv
  /\ OrderInv
  /\ CancelInv
  /\ RecordInv
  /\ RecordsAreTruthful

(* Appending to a sequence, in the words the proofs below need.            *)
LEMMA AppendFacts ==
  ASSUME NEW S, NEW s \in Seq(S), NEW e \in S
  PROVE  /\ Append(s, e) \in Seq(S)
         /\ Len(Append(s, e)) = Len(s) + 1
         /\ \A i \in 1 .. Len(s) : Append(s, e)[i] = s[i]
         /\ Append(s, e)[Len(s) + 1] = e
         /\ Len(s) \in Nat
  OBVIOUS

(* The initial states satisfy the inductive invariant.                     *)
LEMMA InitInv == Init => IInv
<1> SUFFICES ASSUME Init PROVE IInv
  OBVIOUS
<1> USE WorkerAssumption DEF Init, WorkerInit, ActorInit
<1>1. TypeOK
  <2>1. << >> \in Seq(Messages)
    OBVIOUS
  <2>2. history \in [Messages -> {"none", "accepted", "started", "discarded"} \cup Verdicts]
    OBVIOUS
  <2>3. /\ brainQueue \in [Messages -> {"none"} \cup Verdicts]
        /\ answer \in [Messages -> Answers \cup {"none"}]
        /\ startsAtCancel \in [Messages -> Nat \cup {None}]
    OBVIOUS
  <2> QED
    BY <2>1, <2>2, <2>3 DEF TypeOK, WorkerPc, TalkPc
<1>2. PlaceInv /\ WorkerInv /\ OrderInv
  BY DEF PlaceInv, WorkerInv, OrderInv, FoundFresh
<1>3. CancelInv
  BY DEF CancelInv
<1>4. RecordInv /\ RecordsAreTruthful
  BY DEF RecordInv, RecordsAreTruthful, Emitting, Verdicts, Redelivered
<1> QED
  BY <1>1, <1>2, <1>3, <1>4 DEF IInv

-----------------------------------------------------------------------------
(* Stamping a message moves the epoch past every other: only its own epoch
   changes, and nothing of it is under way.                                *)
LEMMA StampStep ==
  ASSUME IInv, NEW m \in Messages, Stamp(m)
  PROVE  IInv'
<1> USE WorkerAssumption DEF IInv, Stamp
<1> /\ UNCHANGED <<execQueue, history, brainQueue, starts, workerPc, current, verdict, inCatch,
                   holder, told, answer, convQueue, talking, talkPc, orphans, stalledOnce,
                   crashes, startsAtCancel>>
    /\ \A n \in Messages \ {m} : intentEpoch'[n] = intentEpoch[n] /\ bridge'[n] = bridge[n]
    /\ epoch' = epoch + 1 /\ intentEpoch'[m] = epoch + 1 /\ bridge'[m] = "stamped"
  BY DEF TypeOK, workerVars, actorVars, convVars, faultVars
<1>1. TypeOK'
  BY DEF TypeOK
<1>2. PlaceInv'
  BY DEF PlaceInv, TypeOK
<1>3. WorkerInv'
  BY DEF WorkerInv
<1>4. /\ \A i \in 1 .. Len(starts) : starts[i] \in Messages \ {m}
      /\ current # m
  BY DEF OrderInv, PlaceInv, WorkerInv, TypeOK
<1>5. OrderInv'
  BY <1>4, SMTT(30) DEF OrderInv, FoundFresh, WorkerInv, TypeOK
<1>6. CancelInv'
  <2> SUFFICES ASSUME NEW c \in Messages, startsAtCancel[c] # None
               PROVE  /\ \A i, k \in Survivors(c)' : i = k
                      /\ FoundFresh /\ intentEpoch'[current] < intentEpoch'[c] => Survivors(c)' = {}
    BY DEF CancelInv, FoundFresh
  <2>1. c # m
    BY DEF PlaceInv
  <2>2. Survivors(c)' = Survivors(c)
    BY <1>4, <2>1, SMTT(30) DEF Survivors, TypeOK
  <2>3. FoundFresh => current \in Messages \ {m}
    BY <1>4 DEF FoundFresh, WorkerInv, TypeOK
  <2> QED
    BY <2>1, <2>2, <2>3 DEF CancelInv
<1>7. RecordInv' /\ RecordsAreTruthful'
  BY DEF RecordInv, RecordsAreTruthful, Emitting, Redelivered
<1> QED
  BY <1>1, <1>2, <1>3, <1>5, <1>6, <1>7

(* The survivors of a cancel move with the epochs and the starts only, and
   the invariant about them with what the worker found fresh.              *)
LEMMA CancelFrame ==
  ASSUME IInv, UNCHANGED <<intentEpoch, starts, startsAtCancel>>,
         FoundFresh' => FoundFresh /\ UNCHANGED current
  PROVE  CancelInv'
<1>1. \A c \in Messages : Survivors(c)' = Survivors(c)
  BY DEF Survivors
<1> QED
  BY <1>1 DEF IInv, CancelInv

(* A message that cancels now has no survivors: nothing started since.     *)
LEMMA CancelNow ==
  ASSUME IInv, NEW m \in Messages, Cancel(m),
         UNCHANGED <<intentEpoch, starts, workerPc, current>>
  PROVE  CancelInv' /\ startsAtCancel' \in [Messages -> Nat \cup {None}]
<1>1. /\ Len(starts) \in Nat
      /\ startsAtCancel' = [startsAtCancel EXCEPT ![m] = Len(starts)]
      /\ startsAtCancel \in [Messages -> Nat \cup {None}]
  BY DEF IInv, TypeOK, Cancel
<1>2. \A c \in Messages \ {m} : startsAtCancel'[c] = startsAtCancel[c] /\ Survivors(c)' = Survivors(c)
  BY <1>1 DEF Survivors
<1>3. Survivors(m)' = {}
  BY <1>1 DEF Survivors
<1> QED
  BY <1>1, <1>2, <1>3 DEF IInv, CancelInv, FoundFresh

(* The control fast path and the queueing of a message keep the invariant. *)
LEMMA BridgeSteps ==
  ASSUME IInv, BridgeStep
  PROVE  IInv'
<1> USE WorkerAssumption DEF IInv
<1>1. ASSUME NEW m \in Messages, ControlFastPath(m)
      PROVE  IInv'
  <2> USE <1>1 DEF ControlFastPath, storeVars, workerVars, convVars, faultVars
  <2>1. Cancel(m) /\ UNCHANGED <<intentEpoch, starts, workerPc, current>>
    OBVIOUS
  <2>2. CancelInv' /\ startsAtCancel' \in [Messages -> Nat \cup {None}]
    BY <2>1, CancelNow
  <2>3. TypeOK'
    BY <2>2 DEF TypeOK, Cancel, Tell
  <2>4. PlaceInv' /\ WorkerInv' /\ OrderInv'
    BY DEF TypeOK, PlaceInv, WorkerInv, OrderInv, FoundFresh, Cancel, Tell
  <2>5. RecordInv' /\ RecordsAreTruthful'
    BY DEF RecordInv, RecordsAreTruthful, Emitting, Redelivered, Cancel, Tell
  <2> QED
    BY <2>2, <2>3, <2>4, <2>5
<1>2. ASSUME NEW m \in Messages, NEW ok \in BOOLEAN, EnqueueConversationTask(m, ok)
      PROVE  IInv'
  <2> USE <1>2 DEF EnqueueConversationTask, storeVars, workerVars, actorVars, faultVars
  <2>1. TypeOK'
    BY AppendFacts DEF TypeOK
  <2>2. PlaceInv'
    BY AppendFacts DEF TypeOK, PlaceInv
  <2>3. WorkerInv' /\ OrderInv'
    BY DEF WorkerInv, OrderInv, FoundFresh
  <2>4. CancelInv'
    BY CancelFrame DEF FoundFresh
  <2>5. RecordInv' /\ RecordsAreTruthful'
    BY DEF RecordInv, RecordsAreTruthful, Emitting, Redelivered
  <2> QED
    BY <2>1, <2>2, <2>3, <2>4, <2>5
<1> QED
  BY <1>1, <1>2, StampStep DEF BridgeStep, Oks, Failures

-----------------------------------------------------------------------------
(* Triage, planning, the accepted row and the exec job keep the invariant. *)
LEMMA ConversationSteps ==
  ASSUME IInv, ConversationStep
  PROVE  IInv'
<1> USE WorkerAssumption DEF IInv, storeVars, workerVars, actorVars, faultVars
<1>1. CASE PullConversation
  <2> USE <1>1 DEF PullConversation
  <2>1. /\ Head(convQueue) \in Messages /\ Tail(convQueue) \in Seq(Messages)
        /\ Head(convQueue) = convQueue[1] /\ Len(convQueue) >= 1
        /\ \A i \in 1 .. Len(Tail(convQueue)) :
             /\ i + 1 \in 1 .. Len(convQueue)
             /\ Tail(convQueue)[i] = convQueue[i + 1]
    BY DEF TypeOK
  <2>2. TypeOK'
    BY <2>1 DEF TypeOK, TalkPc
  <2>3. PlaceInv' /\ WorkerInv'
    BY <2>1 DEF TypeOK, PlaceInv, WorkerInv
  <2>4. OrderInv' /\ CancelInv'
    BY CancelFrame DEF OrderInv, FoundFresh
  <2>5. RecordInv' /\ RecordsAreTruthful'
    BY DEF RecordInv, RecordsAreTruthful, Emitting, Redelivered
  <2> QED
    BY <2>2, <2>3, <2>4, <2>5
<1>2. ASSUME NEW cancels \in BOOLEAN, Triage(cancels)
      PROVE  IInv'
  <2> USE <1>2 DEF Triage
  <2>1. talking \in Messages
    BY DEF TypeOK, WorkerInv
  <2>2. CASE cancels
    <3>1. CancelInv' /\ startsAtCancel' \in [Messages -> Nat \cup {None}]
      BY <2>1, <2>2, CancelNow
    <3>2. TypeOK'
      BY <2>2, <3>1 DEF TypeOK, Cancel, Tell, TalkPc
    <3>3. PlaceInv' /\ WorkerInv' /\ OrderInv'
      BY <2>1, <2>2 DEF TypeOK, PlaceInv, WorkerInv, OrderInv, FoundFresh, Cancel, Tell
    <3>4. RecordInv' /\ RecordsAreTruthful'
      BY <2>2 DEF RecordInv, RecordsAreTruthful, Emitting, Redelivered, Cancel, Tell
    <3> QED
      BY <3>1, <3>2, <3>3, <3>4
  <2>3. CASE ~cancels
    <3>1. TypeOK' /\ PlaceInv' /\ WorkerInv' /\ OrderInv' /\ CancelInv'
      BY <2>3, CancelFrame DEF TypeOK, TalkPc, PlaceInv, WorkerInv, OrderInv, FoundFresh
    <3>2. RecordInv' /\ RecordsAreTruthful'
      BY <2>3 DEF RecordInv, RecordsAreTruthful, Emitting, Redelivered
    <3> QED
      BY <3>1, <3>2
  <2> QED
    BY <2>2, <2>3
<1>3. ASSUME NEW acts \in BOOLEAN, Plan(acts)
      PROVE  IInv'
  <2> USE <1>3 DEF Plan, TalkEnds
  <2>1. TypeOK' /\ PlaceInv' /\ WorkerInv' /\ OrderInv' /\ CancelInv'
    BY CancelFrame DEF TypeOK, TalkPc, PlaceInv, WorkerInv, OrderInv, FoundFresh
  <2>2. RecordInv' /\ RecordsAreTruthful'
    BY DEF RecordInv, RecordsAreTruthful, Emitting, Redelivered
  <2> QED
    BY <2>1, <2>2
<1>4. ASSUME NEW ok \in BOOLEAN, AcceptTask(ok)
      PROVE  IInv'
  <2> USE <1>4 DEF AcceptTask, TalkEnds, AcceptedRow
  <2>1. talking \in Messages
    BY DEF TypeOK, WorkerInv
  <2>2. TypeOK'
    BY <2>1 DEF TypeOK, TalkPc
  <2>3. PlaceInv' /\ WorkerInv' /\ OrderInv' /\ CancelInv'
    BY <2>1, CancelFrame DEF TypeOK, PlaceInv, WorkerInv, OrderInv, FoundFresh
  <2>4. RecordInv' /\ RecordsAreTruthful'
    BY <2>1 DEF TypeOK, WorkerInv, RecordInv, RecordsAreTruthful, Emitting, Redelivered, Verdicts
  <2> QED
    BY <2>2, <2>3, <2>4
<1>5. ASSUME NEW ok \in BOOLEAN, EnqueueExecTask(ok)
      PROVE  IInv'
  <2> USE <1>5 DEF EnqueueExecTask, TalkEnds, AddedJob
  <2>1. talking \in Messages
    BY DEF TypeOK, WorkerInv
  <2>2. TypeOK' /\ PlaceInv' /\ CancelInv'
    BY <2>1, CancelFrame DEF TypeOK, TalkPc, PlaceInv, FoundFresh
  <2>3. WorkerInv' /\ OrderInv'
    BY <2>1 DEF TypeOK, WorkerInv, OrderInv, FoundFresh
  <2>4. RecordInv' /\ RecordsAreTruthful'
    BY <2>1 DEF TypeOK, WorkerInv, RecordInv, RecordsAreTruthful, Emitting, Redelivered
  <2> QED
    BY <2>2, <2>3, <2>4
<1> QED
  BY <1>1, <1>2, <1>3, <1>4, <1>5 DEF ConversationStep, Oks, Failures

-----------------------------------------------------------------------------
(* The steps of the worker change nothing of the bridge's, the conversation
   worker's or the faults' variables.                                      *)
LEMMA WorkerFrame ==
  ASSUME IInv, UNCHANGED <<storeVars, others>>,
         execQueue' \in [Messages -> {"absent", "waiting", "active", "completed", "failed"}],
         \A m \in Messages : execQueue'[m] = "absent" <=> execQueue[m] = "absent"
  PROVE  PlaceInv'
  BY DEF IInv, PlaceInv, storeVars, others, convVars, faultVars

(* How an await that throws, or the end of the job, leaves the worker.     *)
LEMMA ThrowsFacts ==
  ASSUME IInv, Throws, workerPc # "idle"
  PROVE  /\ \/ /\ Emitting /\ workerPc' = "emit_terminal" /\ verdict' = "failed"
               /\ UNCHANGED <<current, execQueue>>
            \/ /\ workerPc' = "idle" /\ current' = None /\ verdict' = "none"
               /\ execQueue' = [execQueue EXCEPT ![current] = "failed"]
         /\ inCatch' \in BOOLEAN
  BY DEF Throws, Settle, JobEnds, WorkerIdles, Emitting

(* A write of the sink changes the row of the job in hand or nothing.      *)
LEMMA WriteRowFacts ==
  ASSUME IInv, NEW ok \in BOOLEAN,
         NEW status \in {"none", "accepted", "started", "discarded"} \cup Verdicts,
         WriteRow(status, ok), current \in Messages
  PROVE  /\ history' \in [Messages -> {"none", "accepted", "started", "discarded"} \cup Verdicts]
         /\ \A m \in Messages \ {current} : history'[m] = history[m]
         /\ history[current] # "none"
         /\ history'[current] \in IF ok THEN {status} ELSE {history[current], status}
<1>1. history[current] # "none"
  BY WorkerAssumption DEF IInv, WorkerInv, RecordInv
<1> QED
  BY <1>1 DEF IInv, TypeOK, WriteRow, UpdatedRow

(* The worker takes a job.                                                 *)
LEMMA PullStep ==
  ASSUME IInv, NEW m \in Messages, PullJob(m), UNCHANGED others
  PROVE  IInv'
<1> USE WorkerAssumption DEF IInv, PullJob, storeVars, actorVars, others, convVars, faultVars
<1>1. TypeOK'
  BY DEF TypeOK, WorkerPc
<1>2. PlaceInv'
  BY WorkerFrame DEF TypeOK
<1>3. WorkerInv'
  BY DEF WorkerInv, TypeOK
<1>4. OrderInv' /\ CancelInv'
  BY CancelFrame DEF OrderInv, FoundFresh, TypeOK
<1>5. RecordInv' /\ RecordsAreTruthful'
  BY DEF RecordInv, RecordsAreTruthful, Emitting, Redelivered, TypeOK, Verdicts
<1> QED
  BY <1>1, <1>2, <1>3, <1>4, <1>5

(* The epoch guard: a job found fresh is not older than what started or
   cancelled, for all of them were stamped before.                         *)
LEMMA ReadEpochStep ==
  ASSUME IInv, NEW ok \in BOOLEAN, ReadEpoch(ok), UNCHANGED others
  PROVE  IInv'
<1> USE WorkerAssumption DEF IInv, ReadEpoch, storeVars, actorVars, others, convVars, faultVars
<1>1. current \in Messages /\ workerPc # "idle" /\ ~Emitting
  BY DEF TypeOK, WorkerInv, Emitting
<1>2. CASE ok
  <2>1. TypeOK' /\ WorkerInv'
    BY <1>1, <1>2 DEF TypeOK, WorkerInv, WorkerPc
  <2>2. PlaceInv'
    BY <1>2, WorkerFrame DEF TypeOK
  <2>3. FoundFresh' => intentEpoch[current] >= epoch
    BY <1>2 DEF FoundFresh, Fresh
  <2>4. \A m \in Messages : intentEpoch[m] <= epoch /\ intentEpoch[m] \in Nat /\ epoch \in Nat
    BY DEF PlaceInv, TypeOK
  <2>5. OrderInv'
    <3>1. \A i \in 1 .. Len(starts) : starts[i] \in Messages
      BY DEF TypeOK
    <3> QED
      BY <1>1, <1>2, <2>3, <2>4, <3>1 DEF OrderInv, FoundFresh
  <2>6. CancelInv'
    <3>1. \A c \in Messages : Survivors(c)' = Survivors(c)
      BY DEF Survivors
    <3>2. \A c \in Messages : ~(FoundFresh' /\ intentEpoch[current] < intentEpoch[c])
      BY <1>1, <2>3, <2>4
    <3> QED
      BY <1>2, <3>1, <3>2 DEF CancelInv
  <2>7. RecordInv' /\ RecordsAreTruthful'
    BY <1>1, <1>2 DEF RecordInv, RecordsAreTruthful, Emitting, Redelivered
  <2> QED
    BY <2>1, <2>2, <2>5, <2>6, <2>7
<1>3. CASE ~ok
  <2>1. /\ workerPc' = "idle" /\ current' = None /\ verdict' = "none" /\ inCatch' \in BOOLEAN
        /\ execQueue' = [execQueue EXCEPT ![current] = "failed"]
    BY <1>1, <1>3, ThrowsFacts
  <2>2. TypeOK' /\ WorkerInv'
    BY <1>1, <2>1 DEF TypeOK, WorkerInv, WorkerPc
  <2>3. PlaceInv'
    BY <1>1, <2>1, WorkerFrame DEF TypeOK, WorkerInv
  <2>4. OrderInv' /\ CancelInv'
    BY <1>1, <2>1, CancelFrame DEF OrderInv, FoundFresh, TypeOK
  <2>5. RecordInv' /\ RecordsAreTruthful'
    BY <1>1, <2>1 DEF RecordInv, RecordsAreTruthful, Emitting, Redelivered, WorkerInv, TypeOK
  <2> QED
    BY <2>2, <2>3, <2>4, <2>5
<1> QED
  BY <1>2, <1>3

(* The writes of the sink before the execution: a stale job ends with its  *)
(* row discarded, a fresh one is recorded as started.                      *)
LEMMA EarlyWriteSteps ==
  ASSUME IInv, NEW ok \in BOOLEAN, EmitDiscarded(ok) \/ EmitStarted(ok), UNCHANGED others
  PROVE  IInv'
<1> USE WorkerAssumption DEF IInv, storeVars, actorVars, others, convVars, faultVars
<1>1. /\ current \in Messages /\ workerPc \notin {"idle", "executing"} /\ ~Emitting
      /\ UNCHANGED <<epoch, intentEpoch, brainQueue, starts, holder, told, answer,
                     bridge, convQueue, talking, talkPc, orphans, stalledOnce, crashes,
                     startsAtCancel>>
  BY DEF TypeOK, WorkerInv, Emitting, EmitDiscarded, EmitStarted
<1>2. \E status \in {"discarded", "started"} : WriteRow(status, ok)
  BY DEF EmitDiscarded, EmitStarted
<1>3. /\ history' \in [Messages -> {"none", "accepted", "started", "discarded"} \cup Verdicts]
      /\ \A m \in Messages \ {current} : history'[m] = history[m]
      /\ history[current] # "none"
      /\ history'[current] \in {history[current], "discarded", "started"}
  BY <1>1, <1>2, WriteRowFacts
<1>4. /\ \/ /\ workerPc' = "calling" /\ workerPc = "emit_started"
            /\ current' = current /\ verdict' = verdict /\ execQueue'[current] = "active"
         \/ /\ workerPc' = "idle" /\ current' = None /\ verdict' = "none"
            /\ execQueue'[current] \in {"completed", "failed"}
      /\ inCatch' \in BOOLEAN
      /\ execQueue' \in [Messages -> {"absent", "waiting", "active", "completed", "failed"}]
      /\ \A m \in Messages \ {current} : execQueue'[m] = execQueue[m]
      /\ execQueue[current] = "active"
  BY <1>1, ThrowsFacts DEF EmitDiscarded, EmitStarted, JobEnds, WorkerIdles, WorkerInv, TypeOK
<1>5. TypeOK' /\ WorkerInv'
  <2>1. current' \in Messages \cup {None} /\ workerPc' \in WorkerPc
        /\ verdict' \in {"none"} \cup Verdicts
    BY <1>1, <1>4 DEF TypeOK, WorkerPc
  <2>2. TypeOK'
    BY <1>1, <1>3, <1>4, <2>1 DEF TypeOK
  <2>3. WorkerInv'
    BY <1>1, <1>4 DEF WorkerInv
  <2> QED
    BY <2>2, <2>3
<1>6. PlaceInv'
  BY <1>1, <1>4, WorkerFrame DEF TypeOK, WorkerInv
<1>7. OrderInv' /\ CancelInv'
  BY <1>1, <1>4, CancelFrame, SMTT(30) DEF OrderInv, FoundFresh, TypeOK
<1>8. RecordInv' /\ RecordsAreTruthful'
  <2>1. talkPc = "queueing" => history'[talking] # "none"
    BY <1>1, <1>3 DEF RecordInv, WorkerInv, TypeOK, TalkPc
  <2>2. \A m \in Messages \ {current} : current' # m
    BY <1>4
  <2>3. ~Redelivered(current) => history[current] \notin Verdicts /\ brainQueue[current] = "none"
    BY <1>1 DEF RecordInv
  <2>4. RecordInv'
    BY <1>1, <1>3, <1>4, <2>1, <2>2, <2>3 DEF RecordInv, Emitting, Redelivered, Verdicts
  <2>5. RecordsAreTruthful'
    BY <1>1, <1>3, <1>4, <2>3 DEF RecordsAreTruthful, Redelivered, Verdicts
  <2> QED
    BY <2>4, <2>5
<1> QED
  BY <1>5, <1>6, <1>7, <1>8

(* The actor takes the job, which was found fresh, or refuses it.          *)
LEMMA CallStep ==
  ASSUME IInv, CallExecuteCode, UNCHANGED others
  PROVE  IInv'
<1> USE WorkerAssumption DEF IInv, CallExecuteCode, storeVars, others, convVars, faultVars
<1>1. /\ current \in Messages /\ FoundFresh /\ ~Emitting
      /\ UNCHANGED <<current, execQueue, history, brainQueue, epoch, intentEpoch>>
  BY DEF TypeOK, WorkerInv, FoundFresh, Emitting, Settle
<1>2. CASE Take(current) /\ starts' = Append(starts, current)
           /\ workerPc' = "executing" /\ UNCHANGED <<verdict, inCatch>>
  <2>1. /\ starts' \in Seq(Messages) /\ Len(starts') = Len(starts) + 1 /\ Len(starts) \in Nat
        /\ \A i \in 1 .. Len(starts) : starts'[i] = starts[i]
        /\ starts'[Len(starts) + 1] = current
    BY <1>1, <1>2, AppendFacts DEF TypeOK
  <2>2. TypeOK' /\ WorkerInv'
    BY <1>1, <1>2, <2>1 DEF TypeOK, WorkerInv, WorkerPc, Take, Answers
  <2>3. PlaceInv'
    BY <1>1, WorkerFrame DEF TypeOK
  <2>4. OrderInv'
    <3>1. execQueue[current] = "active"
      BY <1>1 DEF WorkerInv
    <3>2. \A i \in 1 .. Len(starts) : intentEpoch[starts[i]] <= intentEpoch[current]
      BY <1>1 DEF OrderInv
    <3>3. \A i \in 1 .. Len(starts') : i \in 1 .. Len(starts) \/ i = Len(starts) + 1
      BY <2>1
    <3>4. intentEpoch[current] \in Nat /\ ~FoundFresh'
      BY <1>1, <1>2 DEF TypeOK, FoundFresh
    <3> QED
      BY <1>1, <2>1, <3>1, <3>2, <3>3, <3>4 DEF OrderInv
  <2>5. CancelInv'
    <3>1. SUFFICES ASSUME NEW c \in Messages, startsAtCancel[c] # None
                   PROVE  \A i, k \in Survivors(c)' : i = k
      BY <1>2 DEF CancelInv, FoundFresh
    <3>2. startsAtCancel[c] \in Nat /\ intentEpoch[c] \in Nat /\ intentEpoch[current] \in Nat
      BY <1>1, <3>1 DEF TypeOK
    <3>3. CASE intentEpoch[current] < intentEpoch[c]
      <4>1. Survivors(c) = {}
        BY <1>1, <3>1, <3>3 DEF CancelInv
      <4>2. Survivors(c)' \subseteq {Len(starts) + 1}
        BY <1>1, <2>1, <3>2, <4>1 DEF Survivors
      <4> QED
        BY <4>2
    <3>4. CASE ~(intentEpoch[current] < intentEpoch[c])
      <4>1. Survivors(c)' \subseteq Survivors(c)
        BY <1>1, <2>1, <3>2, <3>4 DEF Survivors
      <4> QED
        BY <3>1, <4>1 DEF CancelInv
    <3> QED
      BY <3>3, <3>4
  <2>6. RecordInv' /\ RecordsAreTruthful'
    BY <1>1, <1>2 DEF RecordInv, RecordsAreTruthful, Emitting, Redelivered, Take, TypeOK, Verdicts
  <2> QED
    BY <2>2, <2>3, <2>4, <2>5, <2>6
<1>3. CASE Refuse(current) /\ Settle("failed", TRUE) /\ UNCHANGED starts
  <2>1. TypeOK' /\ WorkerInv'
    BY <1>1, <1>3 DEF TypeOK, WorkerInv, WorkerPc, Refuse, Settle, Answers, Verdicts
  <2>2. PlaceInv'
    BY <1>1, WorkerFrame DEF TypeOK
  <2>3. OrderInv' /\ CancelInv'
    BY <1>1, <1>3, CancelFrame DEF OrderInv, FoundFresh, Settle
  <2>4. RecordInv' /\ RecordsAreTruthful'
    BY <1>1, <1>3 DEF RecordInv, RecordsAreTruthful, Emitting, Redelivered, Refuse, Settle,
       TypeOK, Verdicts
  <2> QED
    BY <2>1, <2>2, <2>3, <2>4
<1> QED
  BY <1>2, <1>3

(* The verdict that the worker draws from the actor's answer.              *)
LEMMA AnswerStep ==
  ASSUME IInv, NEW r \in Answers, ActorAnswers(r), UNCHANGED others
  PROVE  IInv'
<1> USE WorkerAssumption DEF IInv, ActorAnswers, storeVars, others, convVars, faultVars
<1>1. current \in Messages /\ ~Emitting /\ UNCHANGED <<current, execQueue, history, brainQueue>>
  BY DEF TypeOK, WorkerInv, Emitting, Settle
<1>2. /\ workerPc' = "emit_terminal" /\ verdict' \in Verdicts /\ inCatch' \in BOOLEAN
      /\ verdict' \in {"completed", "interrupted"} => verdict' = r
  BY DEF Settle, VerdictOf, Verdicts
<1>3. holder' = None /\ told' = FALSE /\ answer' = [answer EXCEPT ![current] = r]
  BY DEF Answer
<1>4. TypeOK' /\ WorkerInv'
  BY <1>1, <1>2, <1>3 DEF TypeOK, WorkerInv, WorkerPc
<1>5. PlaceInv'
  BY <1>1, WorkerFrame DEF TypeOK
<1>6. OrderInv' /\ CancelInv'
  BY <1>1, <1>2, CancelFrame DEF OrderInv, FoundFresh
<1>7. RecordInv' /\ RecordsAreTruthful'
  BY <1>1, <1>2, <1>3 DEF RecordInv, RecordsAreTruthful, Emitting, Redelivered, TypeOK, Verdicts
<1> QED
  BY <1>4, <1>5, <1>6, <1>7

(* The writes of a terminal status: an error of one of them turns the
   verdict into a failure, and never into a success.                       *)
LEMMA TerminalWriteSteps ==
  ASSUME IInv, NEW ok \in BOOLEAN,
         EmitTerminal(ok) \/ EmitBrain(ok) \/ EmitExperience(ok), UNCHANGED others
  PROVE  IInv'
<1> USE WorkerAssumption DEF IInv, storeVars, actorVars, others, convVars, faultVars
<1>1. /\ current \in Messages /\ Emitting /\ workerPc \notin {"idle", "executing"}
      /\ verdict \in Verdicts /\ execQueue[current] = "active" /\ history[current] # "none"
      /\ UNCHANGED <<epoch, intentEpoch, starts, holder, told, answer,
                     bridge, convQueue, talking, talkPc, orphans, stalledOnce, crashes,
                     startsAtCancel>>
  BY DEF TypeOK, WorkerInv, RecordInv, Emitting, EmitTerminal, EmitBrain, EmitExperience
<1>2. /\ history' \in [Messages -> {"none", "accepted", "started", "discarded"} \cup Verdicts]
      /\ \A m \in Messages \ {current} : history'[m] = history[m]
      /\ history'[current] \in {history[current], verdict}
      /\ workerPc = "emit_terminal" /\ ok => history'[current] = verdict
      /\ workerPc # "emit_terminal" => history' = history
  <2>1. CASE EmitTerminal(ok)
    BY <1>1, <2>1, WriteRowFacts DEF EmitTerminal
  <2>2. CASE EmitBrain(ok) \/ EmitExperience(ok)
    BY <2>2 DEF EmitBrain, EmitExperience, TypeOK
  <2> QED
    BY <2>1, <2>2
<1>3. /\ brainQueue' \in [Messages -> {"none"} \cup Verdicts]
      /\ \A m \in Messages \ {current} : brainQueue'[m] = brainQueue[m]
      /\ brainQueue'[current] \in {brainQueue[current], verdict}
      /\ workerPc = "emit_terminal" => brainQueue' = brainQueue
  <2>1. CASE EmitTerminal(ok) \/ EmitExperience(ok)
    BY <1>1, <2>1 DEF EmitTerminal, EmitExperience, TypeOK
  <2>2. CASE EmitBrain(ok)
    <3>1. AddedBrainJob \in {brainQueue, [brainQueue EXCEPT ![current] = verdict]}
      BY DEF AddedBrainJob
    <3> QED
      <4>1. brainQueue' \in {brainQueue, [brainQueue EXCEPT ![current] = verdict]}
            /\ workerPc # "emit_terminal"
        BY <2>2, <3>1 DEF EmitBrain
      <4>2. brainQueue \in [Messages -> {"none"} \cup Verdicts]
        BY DEF TypeOK
      <4>3. CASE brainQueue' = brainQueue
        BY <4>2, <4>3
      <4>4. CASE brainQueue' = [brainQueue EXCEPT ![current] = verdict]
        BY <1>1, <4>1, <4>2, <4>4
      <4> QED
        BY <4>1, <4>3, <4>4
  <2> QED
    BY <2>1, <2>2
<1>4. /\ \/ /\ workerPc' \in {"emit_brain", "emit_experience"}
            /\ workerPc = "emit_terminal" => ok
            /\ current' = current /\ verdict' = verdict /\ execQueue'[current] = "active"
         \/ /\ workerPc' = "emit_terminal" /\ current' = current /\ verdict' = "failed"
            /\ execQueue'[current] = "active"
         \/ /\ workerPc' = "idle" /\ current' = None /\ verdict' = "none"
            /\ execQueue'[current] \in {"completed", "failed"}
      /\ inCatch' \in BOOLEAN
      /\ execQueue' \in [Messages -> {"absent", "waiting", "active", "completed", "failed"}]
      /\ \A m \in Messages \ {current} : execQueue'[m] = execQueue[m]
  BY <1>1, ThrowsFacts, ZenonT(40)
     DEF EmitTerminal, EmitBrain, EmitExperience, JobEnds, WorkerIdles, TypeOK
<1>5. TypeOK' /\ WorkerInv'
  <2>1. current' \in Messages \cup {None} /\ workerPc' \in WorkerPc
        /\ verdict' \in {"none"} \cup Verdicts
    BY <1>1, <1>4 DEF TypeOK, WorkerPc, Verdicts
  <2>2. TypeOK'
    BY <1>1, <1>2, <1>3, <1>4, <2>1 DEF TypeOK
  <2>3. WorkerInv'
    BY <1>1, <1>4 DEF WorkerInv, Verdicts
  <2> QED
    BY <2>2, <2>3
<1>6. PlaceInv'
  BY <1>1, <1>4, WorkerFrame
<1>7. OrderInv' /\ CancelInv'
  <2>1. ~FoundFresh'
    BY <1>4 DEF FoundFresh
  <2>2. \A i \in 1 .. Len(starts) : starts[i] \in Messages
    BY DEF TypeOK
  <2>3. \A m \in Messages : execQueue[m] # "absent" => execQueue'[m] # "absent"
    BY <1>1, <1>4
  <2> QED
    BY <1>1, <2>1, <2>2, <2>3, CancelFrame DEF OrderInv
<1>8. RecordInv' /\ RecordsAreTruthful'
  <2>1. talkPc = "queueing" => history'[talking] # "none"
    BY <1>1, <1>2 DEF RecordInv, WorkerInv, TypeOK, TalkPc, Verdicts
  <2>2. \A m \in Messages \ {current} : current' # m
    BY <1>4
  <2>3. ~Redelivered(current) /\ verdict \in {"completed", "interrupted"} =>
          answer[current] = verdict
    BY <1>1 DEF RecordInv
  <2>4. ~Redelivered(current) /\ workerPc # "emit_terminal" => history[current] \in Verdicts
    BY <1>1 DEF RecordInv, Emitting
  <2>5. RecordInv'
    BY <1>1, <1>2, <1>3, <1>4, <2>1, <2>2, <2>3, <2>4
       DEF RecordInv, Emitting, Redelivered, Verdicts
  <2>6. RecordsAreTruthful'
    <3> SUFFICES ASSUME NEW m \in Messages, ~Redelivered(m)
                 PROVE  /\ "completed" \in {history'[m], brainQueue'[m]} => answer[m] = "completed"
                        /\ "interrupted" \in {history'[m], brainQueue'[m]} => answer[m] = "interrupted"
                        /\ brainQueue'[m] # "none" => history'[m] \in Verdicts
      BY <1>1, <1>2, <1>4 DEF RecordsAreTruthful, Redelivered, Verdicts
    <3>1. /\ "completed" \in {history[m], brainQueue[m]} => answer[m] = "completed"
          /\ "interrupted" \in {history[m], brainQueue[m]} => answer[m] = "interrupted"
          /\ brainQueue[m] # "none" => history[m] \in Verdicts
      BY DEF RecordsAreTruthful
    <3>2. CASE m # current
      BY <1>2, <1>3, <3>1, <3>2
    <3>3. CASE m = current
      BY <1>1, <1>2, <1>3, <2>3, <2>4, <3>1, <3>3
    <3> QED
      BY <3>2, <3>3
  <2> QED
    BY <2>5, <2>6
<1> QED
  BY <1>5, <1>6, <1>7, <1>8

-----------------------------------------------------------------------------
(* A crash leaves jobs in hand active and the bot idle.                    *)
LEMMA CrashStep ==
  ASSUME IInv, Crash
  PROVE  IInv'
<1> USE WorkerAssumption DEF IInv, Crash, WorkerIdles, TalkEnds, storeVars
<1>1. TypeOK'
  <2>1. /\ bridge' \in [Messages -> {"new", "stamped", "handled", "lost"}]
        /\ orphans' \subseteq Messages
        /\ crashes' \in Nat
    BY DEF TypeOK
  <2>2. /\ workerPc' \in WorkerPc /\ current' \in Messages \cup {None}
        /\ verdict' \in {"none"} \cup Verdicts /\ inCatch' \in BOOLEAN
        /\ talking' \in Messages \cup {None} /\ talkPc' \in TalkPc
        /\ holder' \in Messages \cup {None} /\ told' \in BOOLEAN
    BY DEF WorkerPc, TalkPc
  <2> QED
    BY <2>1, <2>2 DEF TypeOK
<1>2. PlaceInv'
  BY DEF PlaceInv, TypeOK
<1>3. WorkerInv'
  BY DEF WorkerInv
<1>4. OrderInv' /\ CancelInv'
  BY CancelFrame DEF OrderInv, FoundFresh
<1>5. RecordInv' /\ RecordsAreTruthful'
  BY DEF RecordInv, RecordsAreTruthful, Emitting, Redelivered
<1> QED
  BY <1>1, <1>2, <1>3, <1>4, <1>5

(* BullMQ gives a job of a dead worker to the next one, or fails it.       *)
LEMMA StalledSteps ==
  ASSUME IInv, StalledStep
  PROVE  IInv'
<1> USE WorkerAssumption DEF IInv, storeVars, workerVars, actorVars, convVars
<1>1. ASSUME NEW m \in Messages, StalledExecJob(m)
      PROVE  IInv'
  <2> USE <1>1 DEF StalledExecJob
  <2>1. TypeOK'
    BY DEF TypeOK
  <2>2. PlaceInv' /\ WorkerInv'
    BY DEF TypeOK, PlaceInv, WorkerInv
  <2>3. OrderInv' /\ CancelInv'
    BY CancelFrame, SMTT(30) DEF OrderInv, FoundFresh, TypeOK
  <2>4. RecordInv' /\ RecordsAreTruthful'
    BY DEF RecordInv, RecordsAreTruthful, Emitting, Redelivered, TypeOK
  <2> QED
    BY <2>1, <2>2, <2>3, <2>4
<1>2. ASSUME NEW m \in Messages, StalledConversation(m)
      PROVE  IInv'
  <2> USE <1>2 DEF StalledConversation
  <2>1. /\ convQueue' \in Seq(Messages)
        /\ \A i \in 1 .. Len(convQueue') :
             convQueue'[i] = m \/ \E k \in 1 .. Len(convQueue) : convQueue'[i] = convQueue[k]
    <3>1. CASE convQueue' = convQueue
      BY <3>1 DEF TypeOK
    <3>2. CASE convQueue' = <<m>> \o convQueue
      <4>1. /\ convQueue' \in Seq(Messages) /\ Len(convQueue') = Len(convQueue) + 1
            /\ \A i \in 1 .. Len(convQueue') :
                 convQueue'[i] = IF i = 1 THEN m ELSE convQueue[i - 1]
        <5>1. <<m>> \in Seq(Messages) /\ Len(<<m>>) = 1 /\ <<m>>[1] = m
          OBVIOUS
        <5>2. convQueue \in Seq(Messages) /\ Len(convQueue) \in Nat
          BY DEF TypeOK
        <5>3. /\ <<m>> \o convQueue \in Seq(Messages)
              /\ Len(<<m>> \o convQueue) = Len(<<m>>) + Len(convQueue)
              /\ \A i \in 1 .. Len(<<m>>) + Len(convQueue) :
                   (<<m>> \o convQueue)[i] =
                     IF i <= Len(<<m>>) THEN <<m>>[i] ELSE convQueue[i - Len(<<m>>)]
          BY <5>1, <5>2, ConcatProperties
        <5> HIDE DEF StalledConversation
        <5> QED
          BY <3>2, <5>1, <5>2, <5>3
      <4>2. \A i \in 1 .. Len(convQueue') : i = 1 \/ i - 1 \in 1 .. Len(convQueue)
        BY <4>1 DEF TypeOK
      <4> QED
        BY <4>1, <4>2
    <3> QED
      BY <3>1, <3>2
  <2>2. TypeOK'
    BY <2>1 DEF TypeOK
  <2>3. PlaceInv'
    BY <2>1, SMTT(30) DEF TypeOK, PlaceInv
  <2>4. WorkerInv' /\ OrderInv' /\ CancelInv'
    BY CancelFrame DEF WorkerInv, OrderInv, FoundFresh
  <2>5. RecordInv' /\ RecordsAreTruthful'
    BY DEF RecordInv, RecordsAreTruthful, Emitting, Redelivered
  <2> QED
    BY <2>2, <2>3, <2>4, <2>5
<1> QED
  BY <1>1, <1>2 DEF StalledStep

(* Nothing moves in a step that changes no variable.                       *)
LEMMA StutterStep ==
  ASSUME IInv, UNCHANGED vars
  PROVE  IInv'
<1> USE DEF IInv, vars, storeVars, workerVars, actorVars, convVars, faultVars
<1>1. TypeOK' /\ PlaceInv' /\ WorkerInv' /\ OrderInv' /\ CancelInv'
  BY CancelFrame DEF TypeOK, PlaceInv, WorkerInv, OrderInv, FoundFresh
<1>2. RecordInv' /\ RecordsAreTruthful'
  BY DEF RecordInv, RecordsAreTruthful, Emitting, Redelivered
<1> QED
  BY <1>1, <1>2

-----------------------------------------------------------------------------
(* The inductive invariant holds in every reachable state, for any set of
   messages, any number of crashes, and whether or not the sink may fail.  *)
THEOREM Invariance == Spec => []IInv
<1>1. IInv /\ [Next]_vars => IInv'
  <2> SUFFICES ASSUME IInv, [Next]_vars
               PROVE  IInv'
    OBVIOUS
  <2>1. CASE BridgeStep \/ ConversationStep \/ Crash \/ StalledStep
    BY <2>1, BridgeSteps, ConversationSteps, CrashStep, StalledSteps
  <2>2. CASE BotWorkerStep
    <3>1. UNCHANGED others /\ (WorkerPulls \/ WorkerStep \/ ExecutionEnds)
      BY <2>2 DEF BotWorkerStep
    <3>2. CASE WorkerPulls \/ ExecutionEnds
      BY <3>1, <3>2, PullStep, AnswerStep DEF WorkerPulls, ExecutionEnds
    <3>3. CASE CallExecuteCode
      BY <3>1, <3>3, CallStep
    <3>4. ASSUME NEW ok \in BOOLEAN, ReadEpoch(ok) \/ EmitDiscarded(ok) \/ EmitStarted(ok)
          PROVE  IInv'
      BY <3>1, <3>4, ReadEpochStep, EarlyWriteSteps
    <3>5. ASSUME NEW ok \in BOOLEAN, EmitTerminal(ok) \/ EmitBrain(ok) \/ EmitExperience(ok)
          PROVE  IInv'
      BY <3>1, <3>5, TerminalWriteSteps
    <3> QED
      BY <3>1, <3>2, <3>3, <3>4, <3>5 DEF WorkerStep, Oks, Failures
  <2>3. CASE Terminated \/ UNCHANGED vars
    BY <2>3, StutterStep DEF Terminated
  <2> QED
    BY <2>1, <2>2, <2>3 DEF Next
<1> QED
  BY InitInv, <1>1, PTL DEF Spec

(* Tasks start in the order the owner spoke, and the actor is only held by
   the job in the worker's hands.                                          *)
THEOREM StartsAreOrdered == Spec => []StartsInIntentOrder
<1>1. IInv => StartsInIntentOrder
  BY WorkerAssumption DEF IInv, OrderInv, WorkerInv, TypeOK, StartsInIntentOrder
<1> QED
  BY Invariance, <1>1, PTL

(* At most one older task starts after a cancel.                           *)
THEOREM CancelStops == Spec => []OneTaskSurvivesACancel
<1>1. IInv => OneTaskSurvivesACancel
  <2> SUFFICES ASSUME IInv, NEW c \in Messages, startsAtCancel[c] # None
               PROVE  Cardinality(Survivors(c)) <= 1
    BY DEF OneTaskSurvivesACancel, Survivors
  <2>1. \A i, k \in Survivors(c) : i = k
    BY DEF IInv, CancelInv
  <2>2. ASSUME NEW i \in Survivors(c)
        PROVE  Cardinality(Survivors(c)) <= 1
    <3>1. Survivors(c) = {i}
      BY <2>1
    <3>2. Cardinality({i}) = 1
      BY FS_Singleton
    <3> QED
      BY <3>1, <3>2
  <2>3. Cardinality({}) = 0
    BY FS_EmptySet
  <2>4. CASE Survivors(c) = {}
    BY <2>3, <2>4
  <2> QED
    BY <2>2, <2>4
<1> QED
  BY Invariance, <1>1, PTL

(* What is recorded of a task that was handled once never says more than
   the actor answered, and no job is in the queue before its row.          *)
THEOREM RecordsTellTheTruth == Spec => []RecordsAreTruthful
<1>1. IInv => RecordsAreTruthful
  BY DEF IInv
<1> QED
  BY Invariance, <1>1, PTL
=============================================================================
