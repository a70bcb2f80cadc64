---------------------------- MODULE ScriptProofs ---------------------------
(***************************************************************************)
(* Proofs about what a script meets: the sandbox it runs in and the        *)
(* gathering skills it calls.                                              *)
(*                                                                         *)
(* The first part is about Sandbox, for any set of host calls.  Its        *)
(* inductive invariant says what the first terminal error implies: no call *)
(* is left in its race, a facade error is only remembered under one of its *)
(* class, and what was reported agrees with it.                            *)
(*                                                                         *)
(* The second part is about ResourceService, Collect and Harvest, for any  *)
(* finite set of typed situations.  Its inductive invariant says that the  *)
(* cache entry is what a scan of finitely many blocks makes or what        *)
(* digging leaves of it, and that the job counted no more than the bag     *)
(* gained and is still to gain from the block at hand.                     *)
(***************************************************************************)
EXTENDS Sandbox, Harvest, FiniteSetTheorems, WellFoundedInduction, TLAPS

(***************************************************************************)
(* The sandbox.                                                            *)
(***************************************************************************)

TypeOK ==
  /\ phase \in {"new", "preparing", "running", "cleanup", "returned"}
  /\ script \in {"none", "pending", "returned", "threw", "timed_out"}
  /\ abortRequested \in BOOLEAN /\ deadlinePassed \in BOOLEAN
  /\ terminalError \in TerminalErrors \cup {None}
  /\ lastHostCallError \in Calls \cup {None}
  /\ callPc \in [Calls -> {"new", "racing", "fulfilled", "rejected", "aborted",
                           "done", "refused"}]
  /\ callKind \in [Calls -> CallKinds]
  /\ hostAction \in [Calls -> {"none", "running", "ended"}]
  /\ stepStatus \in [Calls -> {"none", "ok", "err"}]
  /\ result \in {"none", "completed", "failed", "interrupted"}
  /\ reported \in TerminalErrors \cup {"static", "transpile", None}

(* Where the execution stands, what it may have begun and what it returned. *)
PhaseInv ==
  /\ phase = "returned" <=> result # "none"
  /\ phase \in {"new", "preparing"} =>
       \A c \in Calls : hostAction[c] = "none" /\ callPc[c] = "new"
  /\ phase = "cleanup" => reported \in TerminalErrors
  /\ result \in {"failed", "interrupted"} => reported # None

(* What a terminal error implies.                                          *)
TerminalInv ==
  /\ terminalError # None => \A c \in Calls : callPc[c] # "racing"
  /\ terminalError = "abort" => abortRequested
  /\ terminalError = "runtime" => phase \in {"cleanup", "returned"}
  /\ lastHostCallError # None => terminalError \in Calls
  /\ \A c \in Calls : callKind[c] = "act" /\ stepStatus[c] = "err" =>
       lastHostCallError # None \/ EndedByOther

(* What is reported is the first terminal error, or a failed call where a
   failed call was first.                                                  *)
ReportInv ==
  reported \in TerminalErrors =>
    /\ terminalError # None
    /\ reported = terminalError \/ (reported \in Calls /\ terminalError \in Calls)

IInv == TypeOK /\ PhaseInv /\ TerminalInv /\ ReportInv

(* Marking a terminal error keeps the first one, and leaves no call in its
   race.                                                                   *)
LEMMA MarkFacts ==
  ASSUME IInv, NEW e \in TerminalErrors,
         NEW pc \in [Calls -> {"new", "racing", "fulfilled", "rejected", "aborted",
                               "done", "refused"}],
         \A c \in Calls : pc[c] = "racing" => callPc[c] = "racing",
         MarkTerminal(e, pc)
  PROVE  /\ terminalError' = IF terminalError = None THEN e ELSE terminalError
         /\ terminalError' \in TerminalErrors
         /\ callPc' \in [Calls -> {"new", "racing", "fulfilled", "rejected", "aborted",
                                   "done", "refused"}]
         /\ \A c \in Calls : callPc'[c] # "racing" /\ (callPc'[c] = pc[c] \/ pc[c] = "racing")
<1>1. None \notin TerminalErrors
  BY SandboxAssumption DEF TerminalErrors, Classes
<1>2. CASE terminalError = None
  BY <1>1, <1>2 DEF MarkTerminal
<1>3. CASE terminalError # None
  BY <1>3 DEF MarkTerminal, IInv, TypeOK, TerminalInv
<1> QED
  BY <1>2, <1>3

(* The initial states satisfy the invariant.                               *)
LEMMA InitInv == Init => IInv
  BY SandboxAssumption
  DEF Init, IInv, TypeOK, PhaseInv, TerminalInv, ReportInv, TerminalErrors, Classes

(* The static check, transpilation and set-up.                             *)
LEMMA PrepareSteps ==
  ASSUME IInv, Prepare
  PROVE  IInv'
<1> USE SandboxAssumption DEF IInv, Classes, callVars
<1>1. ASSUME NEW passes \in BOOLEAN, Begin(passes)
      PROVE  IInv'
  <2>1. /\ terminalError' \in TerminalErrors \cup {None}
        /\ \/ terminalError' = terminalError
           \/ terminalError = None /\ terminalError' = "abort" /\ abortRequested
        /\ callPc' = callPc
        /\ phase = "new"
    <3>1. CASE abortRequested
      <4>1. phase = "new" /\ MarkTerminal("abort", callPc)
        BY <1>1, <3>1 DEF Begin
      <4>2. \A c \in Calls : callPc[c] = "new"
        BY <4>1 DEF PhaseInv
      <4> QED
        BY <3>1, <4>1, <4>2 DEF MarkTerminal, TypeOK, TerminalErrors
    <3>2. CASE ~abortRequested
      BY <1>1, <3>2 DEF Begin, TypeOK
    <3> QED
      BY <3>1, <3>2
  <2>2. UNCHANGED <<script, abortRequested, deadlinePassed, lastHostCallError, callKind,
                    hostAction, stepStatus>>
        /\ \/ phase' = "preparing" /\ UNCHANGED <<result, reported>>
           \/ phase' = "returned" /\ result' = "failed" /\ reported' = "static"
    BY <1>1 DEF Begin
  <2>3. TypeOK'
    BY <2>1, <2>2 DEF TypeOK
  <2>4. PhaseInv' /\ ReportInv'
    BY <2>1, <2>2 DEF PhaseInv, ReportInv, TypeOK, TerminalErrors
  <2>5. TerminalInv'
    BY <2>1, <2>2 DEF TerminalInv, PhaseInv, TypeOK, EndedByOther
  <2> QED
    BY <2>3, <2>4, <2>5
<1>2. CASE TranspileFails
  BY <1>2 DEF TranspileFails, TypeOK, PhaseInv, TerminalInv, ReportInv, EndedByOther, TerminalErrors
<1>3. ASSUME NEW started \in BOOLEAN, ScriptStarts(started)
      PROVE  IInv'
  BY <1>3 DEF ScriptStarts, TypeOK, PhaseInv, TerminalInv, ReportInv, EndedByOther
<1> QED
  BY <1>1, <1>2, <1>3 DEF Prepare

(* The caller's abort, the deadline and the timer.                         *)
LEMMA ClockSteps ==
  ASSUME IInv, AbortIsRequested \/ DeadlinePasses \/ TimerFires
  PROVE  IInv'
<1> USE SandboxAssumption DEF IInv, Classes, callVars
<1>1. CASE AbortIsRequested
  <2> USE <1>1 DEF AbortIsRequested
  <2>1. CASE phase \in {"preparing", "running", "cleanup"}
    <3>1. "abort" \in TerminalErrors /\ callPc \in [Calls -> {"new", "racing", "fulfilled",
             "rejected", "aborted", "done", "refused"}] /\ MarkTerminal("abort", callPc)
      BY <2>1 DEF TerminalErrors, TypeOK
    <3>2. /\ terminalError' = IF terminalError = None THEN "abort" ELSE terminalError
          /\ terminalError' \in TerminalErrors
          /\ callPc' \in [Calls -> {"new", "racing", "fulfilled", "rejected", "aborted",
                                    "done", "refused"}]
          /\ \A c \in Calls : callPc'[c] # "racing"
                /\ (callPc'[c] = callPc[c] \/ callPc[c] = "racing")
      BY <3>1, MarkFacts
    <3>3. TypeOK' /\ PhaseInv'
      BY <3>2 DEF TypeOK, PhaseInv
    <3>4. TerminalInv' /\ ReportInv'
      BY <3>2 DEF TerminalInv, ReportInv, TypeOK, EndedByOther
    <3> QED
      BY <3>3, <3>4
  <2>2. CASE phase \notin {"preparing", "running", "cleanup"}
    BY <2>2 DEF TypeOK, PhaseInv, TerminalInv, ReportInv, EndedByOther
  <2> QED
    BY <2>1, <2>2
<1>2. CASE DeadlinePasses
  BY <1>2 DEF DeadlinePasses, TypeOK, PhaseInv, TerminalInv, ReportInv, EndedByOther
<1>3. CASE TimerFires
  <2> USE <1>3 DEF TimerFires
  <2>1. "timeout" \in TerminalErrors /\ callPc \in [Calls -> {"new", "racing", "fulfilled",
           "rejected", "aborted", "done", "refused"}] /\ MarkTerminal("timeout", callPc)
    BY DEF TerminalErrors, TypeOK
  <2>2. /\ terminalError' = IF terminalError = None THEN "timeout" ELSE terminalError
        /\ terminalError' \in TerminalErrors
        /\ callPc' \in [Calls -> {"new", "racing", "fulfilled", "rejected", "aborted",
                                  "done", "refused"}]
        /\ \A c \in Calls : callPc'[c] # "racing"
              /\ (callPc'[c] = callPc[c] \/ callPc[c] = "racing")
    BY <2>1, MarkFacts
  <2>3. TypeOK' /\ PhaseInv'
    BY <2>2 DEF TypeOK, PhaseInv
  <2>4. TerminalInv' /\ ReportInv'
    BY <2>2 DEF TerminalInv, ReportInv, TypeOK, EndedByOther
  <2> QED
    BY <2>3, <2>4
<1> QED
  BY <1>1, <1>2, <1>3

(* A host call is issued, and the action behind it ends.                   *)
LEMMA CallSteps ==
  ASSUME IInv, NEW c \in Calls, IssueCall(c) \/ \E ok \in BOOLEAN : HostActionEnds(c, ok)
  PROVE  IInv'
<1> USE SandboxAssumption DEF IInv, Classes, callVars
<1>1. CASE IssueCall(c) /\ HostCallAllowed
  BY <1>1 DEF IssueCall, HostCallAllowed, TypeOK, PhaseInv, TerminalInv, ReportInv, EndedByOther
<1>2. CASE IssueCall(c) /\ ~HostCallAllowed
  <2> DEFINE pc == [callPc EXCEPT ![c] = "refused"]
  <2> USE <1>2 DEF IssueCall
  <2>1. /\ "timeout" \in TerminalErrors /\ MarkTerminal("timeout", pc)
        /\ pc \in [Calls -> {"new", "racing", "fulfilled", "rejected", "aborted", "done",
                             "refused"}]
        /\ \A d \in Calls : pc[d] = "racing" => callPc[d] = "racing"
    BY DEF TerminalErrors, TypeOK
  <2> HIDE DEF pc
  <2>2. /\ terminalError' = IF terminalError = None THEN "timeout" ELSE terminalError
        /\ terminalError' \in TerminalErrors
        /\ callPc' \in [Calls -> {"new", "racing", "fulfilled", "rejected", "aborted",
                                  "done", "refused"}]
        /\ \A d \in Calls : callPc'[d] # "racing"
    BY <2>1, MarkFacts
  <2>3. TypeOK' /\ PhaseInv'
    BY <2>2 DEF TypeOK, PhaseInv
  <2>4. TerminalInv' /\ ReportInv'
    BY <2>2 DEF TerminalInv, ReportInv, TypeOK, EndedByOther
  <2> QED
    BY <2>3, <2>4
<1>3. ASSUME NEW ok \in BOOLEAN, HostActionEnds(c, ok)
      PROVE  IInv'
  <2> USE <1>3 DEF HostActionEnds
  <2>1. TypeOK' /\ PhaseInv'
    BY DEF TypeOK, PhaseInv
  <2>2. TerminalInv' /\ ReportInv'
    BY DEF TerminalInv, ReportInv, TypeOK, EndedByOther
  <2> QED
    BY <2>1, <2>2
<1> QED
  BY <1>1, <1>2, <1>3

(* The continuation of a call.                                             *)
LEMMA ContinueStep ==
  ASSUME IInv, NEW c \in Calls, CallContinues(c)
  PROVE  IInv'
<1> USE SandboxAssumption DEF IInv, Classes, callVars, Record
<1> DEFINE pc == Done(c)
<1>1. /\ pc \in [Calls -> {"new", "racing", "fulfilled", "rejected", "aborted", "done",
                           "refused"}]
      /\ \A d \in Calls : pc[d] = "racing" => callPc[d] = "racing"
      /\ phase \notin {"new", "preparing"}
      /\ UNCHANGED <<phase, script, abortRequested, deadlinePassed, callKind, hostAction,
                     result, reported>>
  BY DEF Done, CallContinues, Continuing, TypeOK, PhaseInv
<1>2. stepStatus' \in [Calls -> {"none", "ok", "err"}]
  BY DEF CallContinues, StepSucceeds, StepIsCutShort, StepFails, TriedStepFails, ReadContinues,
     TypeOK
<1>3. /\ "timeout" \in TerminalErrors /\ c \in TerminalErrors /\ None \notin TerminalErrors
      /\ c # None
  BY DEF TerminalErrors
<1>4. CASE StepSucceeds(c) \/ StepIsCutShort(c) \/ TriedStepFails(c)
  <2>1. callPc' = pc /\ UNCHANGED <<terminalError, lastHostCallError>>
    BY <1>4 DEF StepSucceeds, StepIsCutShort, TriedStepFails
  <2>2. \A d \in Calls : callKind[d] = "act" /\ stepStatus'[d] = "err" =>
          stepStatus[d] = "err" \/ EndedByOther
    BY <1>4 DEF StepSucceeds, StepIsCutShort, TriedStepFails, TypeOK
  <2>3. TypeOK' /\ PhaseInv' /\ ReportInv'
    BY <1>1, <1>2, <2>1 DEF TypeOK, PhaseInv, ReportInv
  <2>4. TerminalInv'
    BY <1>1, <2>1, <2>2 DEF TerminalInv, EndedByOther
  <2> QED
    BY <2>3, <2>4
<1>5. CASE StepFails(c)
  <2>1. MarkTerminal(c, pc) /\ lastHostCallError' = c /\ ~EndedByOther
    BY <1>5 DEF StepFails
  <2>2. /\ terminalError' = IF terminalError = None THEN c ELSE terminalError
        /\ terminalError' \in TerminalErrors
        /\ callPc' \in [Calls -> {"new", "racing", "fulfilled", "rejected", "aborted",
                                  "done", "refused"}]
        /\ \A d \in Calls : callPc'[d] # "racing"
    BY <1>1, <1>3, <2>1, MarkFacts
  <2>3. TypeOK' /\ PhaseInv'
    BY <1>1, <1>2, <2>1, <2>2 DEF TypeOK, PhaseInv
  <2>4. TerminalInv' /\ ReportInv'
    BY <1>1, <1>3, <2>1, <2>2 DEF TerminalInv, ReportInv, TypeOK, EndedByOther
  <2> QED
    BY <2>3, <2>4
<1>6. CASE ReadContinues(c)
  <2>1. UNCHANGED <<lastHostCallError, stepStatus>>
    BY <1>6 DEF ReadContinues
  <2>2. CASE MarkTerminal("timeout", pc)
    <3>1. /\ terminalError' = IF terminalError = None THEN "timeout" ELSE terminalError
          /\ terminalError' \in TerminalErrors
          /\ callPc' \in [Calls -> {"new", "racing", "fulfilled", "rejected", "aborted",
                                    "done", "refused"}]
          /\ \A d \in Calls : callPc'[d] # "racing"
      BY <1>1, <1>3, <2>2, MarkFacts
    <3>2. TypeOK' /\ PhaseInv'
      BY <1>1, <2>1, <3>1 DEF TypeOK, PhaseInv
    <3>3. TerminalInv' /\ ReportInv'
      BY <1>1, <2>1, <3>1 DEF TerminalInv, ReportInv, TypeOK, EndedByOther
    <3> QED
      BY <3>2, <3>3
  <2>3. CASE callPc' = pc /\ UNCHANGED terminalError
    <3>1. TypeOK' /\ PhaseInv'
      BY <1>1, <2>1, <2>3 DEF TypeOK, PhaseInv
    <3>2. TerminalInv' /\ ReportInv'
      BY <1>1, <2>1, <2>3 DEF TerminalInv, ReportInv, TypeOK, EndedByOther
    <3> QED
      BY <3>1, <3>2
  <2> QED
    BY <1>6, <2>2, <2>3 DEF ReadContinues
<1> QED
  BY <1>4, <1>5, <1>6 DEF CallContinues

(* The script's end and what is returned.                                  *)
LEMMA EndSteps ==
  ASSUME IInv,
         \/ \E how \in {"returned", "threw"} : ScriptSettles(how)
         \/ Completes \/ Catches \/ CleanupEnds
  PROVE  IInv'
<1> USE SandboxAssumption DEF IInv, Classes, callVars
<1>1. ASSUME NEW how \in {"returned", "threw"}, ScriptSettles(how)
      PROVE  IInv'
  BY <1>1 DEF ScriptSettles, TypeOK, PhaseInv, TerminalInv, ReportInv, EndedByOther
<1>2. CASE Completes
  <2> USE <1>2 DEF Completes
  <2>1. /\ UNCHANGED <<terminalError, callPc>>
        /\ lastHostCallError # None => terminalError # None /\ terminalError \in Calls
    BY DEF TerminalInv, MarkTerminal
  <2>2. TypeOK' /\ PhaseInv'
    BY <2>1 DEF TypeOK, PhaseInv, TerminalErrors
  <2>3. TerminalInv' /\ ReportInv'
    BY <2>1 DEF TerminalInv, ReportInv, TypeOK, EndedByOther, TerminalErrors
  <2> QED
    BY <2>2, <2>3
<1>3. CASE Catches
  <2> USE <1>3 DEF Catches
  <2>1. /\ SandboxError \in TerminalErrors /\ SandboxError # None
        /\ terminalError = None => SandboxError = "runtime"
        /\ terminalError # None => SandboxError = terminalError
                                   \/ (SandboxError \in Calls /\ terminalError \in Calls)
        /\ MarkTerminal(SandboxError, callPc)
        /\ callPc \in [Calls -> {"new", "racing", "fulfilled", "rejected", "aborted",
                                 "done", "refused"}]
    BY DEF SandboxError, Coalesce, TerminalInv, TypeOK, TerminalErrors
  <2>2. /\ terminalError' = IF terminalError = None THEN SandboxError ELSE terminalError
        /\ terminalError' \in TerminalErrors
        /\ callPc' \in [Calls -> {"new", "racing", "fulfilled", "rejected", "aborted",
                                  "done", "refused"}]
        /\ \A c \in Calls : callPc'[c] # "racing"
    BY <2>1, MarkFacts
  <2>3. /\ reported' = SandboxError
        /\ \/ phase' = "returned" /\ result' \in {"interrupted", "failed"}
           \/ phase' = "cleanup" /\ result' = result /\ result = "none"
        /\ UNCHANGED <<script, abortRequested, deadlinePassed, lastHostCallError, callKind,
                       hostAction, stepStatus>>
    BY DEF Return, PhaseInv
  <2> HIDE DEF Catches
  <2>4. TypeOK' /\ PhaseInv'
    BY <2>1, <2>2, <2>3 DEF TypeOK, PhaseInv
  <2>5. TerminalInv' /\ ReportInv'
    BY <2>1, <2>2, <2>3 DEF TerminalInv, ReportInv, TypeOK, EndedByOther
  <2> QED
    BY <2>4, <2>5
<1>4. CASE CleanupEnds
  BY <1>4 DEF CleanupEnds, Return, TypeOK, PhaseInv, TerminalInv, ReportInv, EndedByOther,
     TerminalErrors
<1> QED
  BY <1>1, <1>2, <1>3, <1>4

-----------------------------------------------------------------------------
(* The invariant holds in every reachable state, for any set of calls.     *)
THEOREM Invariance == Spec => []IInv
<1>1. IInv /\ UNCHANGED vars => IInv'
  BY DEF IInv, TypeOK, PhaseInv, TerminalInv, ReportInv, EndedByOther, vars, callVars
<1>2. IInv /\ [Next]_vars => IInv'
  BY <1>1, PrepareSteps, ClockSteps, CallSteps, ContinueStep, EndSteps
     DEF Next, Continuations, Finished
<1> QED
  BY InitInv, <1>2, PTL DEF Spec

(* The error that is returned is of the class of the first terminal error. *)
THEOREM FirstClassReported == Spec => []ReportedIsFirstClass
<1>1. IInv => ReportedIsFirstClass
  BY DEF IInv, TypeOK, PhaseInv, ReportInv, ReportedIsFirstClass
<1> QED
  BY Invariance, <1>1, PTL

(* Once the execution is doomed no action starts and no step turns "ok".   *)
THEOREM DoomedStaysDoomed == Spec => NothingAfterTerminal
<1> DEFINE A == terminalError # None =>
                  \A c \in Calls :
                    /\ hostAction'[c] = "running" => hostAction[c] = "running"
                    /\ stepStatus'[c] = "ok" => stepStatus[c] = "ok"
<1>1. IInv /\ Next => A
  <2> SUFFICES ASSUME IInv, Next, terminalError # None, NEW c \in Calls
               PROVE  /\ hostAction'[c] = "running" => hostAction[c] = "running"
                      /\ stepStatus'[c] = "ok" => stepStatus[c] = "ok"
    OBVIOUS
  <2> USE DEF IInv, TypeOK, callVars
  <2>1. ASSUME NEW d \in Calls, IssueCall(d) \/ \E ok \in BOOLEAN : HostActionEnds(d, ok)
        PROVE  /\ hostAction'[c] = "running" => hostAction[c] = "running"
               /\ stepStatus'[c] = "ok" => stepStatus[c] = "ok"
    BY <2>1 DEF IssueCall, HostCallAllowed, HostActionEnds
  <2>2. ASSUME NEW d \in Calls, CallContinues(d)
        PROVE  /\ hostAction'[c] = "running" => hostAction[c] = "running"
               /\ stepStatus'[c] = "ok" => stepStatus[c] = "ok"
    BY <2>2 DEF CallContinues, StepSucceeds, StepIsCutShort, StepFails, TriedStepFails,
       ReadContinues, Succeeded, Record
  <2>3. CASE \/ Prepare \/ AbortIsRequested \/ DeadlinePasses \/ TimerFires
             \/ Completes \/ Catches \/ CleanupEnds \/ Finished
             \/ \E how \in {"returned", "threw"} : ScriptSettles(how)
    BY <2>3 DEF Prepare, Begin, TranspileFails, ScriptStarts, AbortIsRequested, DeadlinePasses,
       TimerFires, Completes, Catches, CleanupEnds, Finished, ScriptSettles, vars
  <2> QED
    BY <2>1, <2>2, <2>3 DEF Next, Continuations
<1>2. IInv /\ [Next]_vars => [A]_vars
  BY <1>1
<1> QED
  BY Invariance, <1>2, PTL DEF Spec, NothingAfterTerminal

(* The steps that return, and what has failed or is left behind then.      *)
THEOREM ReturnsClean == Spec => ReturnIsClean
<1> DEFINE Clean(c) == IF result' = "completed"
                       THEN callKind[c] = "act" /\ stepStatus[c] = "err" =>
                              terminalError \in {"abort", "timeout"}
                       ELSE hostAction'[c] = "running" =>
                              terminalError' # None /\ callPc'[c] # "racing"
           A == result = "none" /\ result' # "none" => \A c \in Calls : Clean(c)
<1>1. IInv /\ Next => A
  <2> SUFFICES ASSUME IInv, IInv', Next, result = "none", result' # "none", NEW c \in Calls
               PROVE  Clean(c)
    BY PrepareSteps, ClockSteps, CallSteps, ContinueStep, EndSteps
       DEF Next, Continuations, Finished, vars
  <2> USE SandboxAssumption DEF IInv, callVars, Classes
  <2>1. CASE Prepare
    BY <2>1 DEF Prepare, Begin, TranspileFails, ScriptStarts, PhaseInv
  <2>2. CASE Completes
    <3>1. CASE lastHostCallError # None
      BY <2>2, <3>1 DEF Completes, TerminalInv
    <3>2. CASE lastHostCallError = None
      BY <2>2, <3>2 DEF Completes, TerminalInv, TypeOK, EndedByOther, TerminalErrors
    <3> QED
      BY <3>1, <3>2
  <2>3. CASE Catches \/ CleanupEnds
    <3>1. result' # "completed" /\ reported' \in TerminalErrors
      BY <2>3 DEF Catches, CleanupEnds, Return, PhaseInv, TypeOK, SandboxError, Coalesce,
         TerminalErrors
    <3>2. terminalError' # None
      BY <3>1 DEF ReportInv
    <3> QED
      BY <3>1, <3>2 DEF TerminalInv
  <2>4. ~\E how \in {"returned", "threw"} : ScriptSettles(how)
    BY DEF ScriptSettles
  <2>5. ~(AbortIsRequested \/ DeadlinePasses \/ TimerFires \/ Finished)
    BY DEF AbortIsRequested, DeadlinePasses, TimerFires, Finished, vars
  <2>6. ASSUME NEW d \in Calls
        PROVE  ~(IssueCall(d) \/ (\E ok \in BOOLEAN : HostActionEnds(d, ok)) \/ CallContinues(d))
    BY DEF IssueCall, HostActionEnds, CallContinues
  <2> QED
    BY <2>1, <2>2, <2>3, <2>4, <2>5, <2>6 DEF Next, Continuations
<1>2. IInv /\ [Next]_vars => [A]_vars
  BY <1>1
<1> QED
  BY Invariance, <1>2, PTL DEF Spec, ReturnIsClean

(* What the actor relies on: the call settles once, and "interrupted" only
   answers an abort that was asked for.                                    *)
THEOREM SandboxKeepsContract == Spec => Contract!Init /\ [][Contract!Next]_(Contract!vars)
<1>1. Init => Contract!Init
  BY DEF Init, Contract!Init
<1>2. IInv /\ IInv' /\ Next => Contract!Next \/ UNCHANGED Contract!vars
  <2> SUFFICES ASSUME IInv, IInv', Next
               PROVE  Contract!Next \/ UNCHANGED Contract!vars
    OBVIOUS
  <2> USE SandboxAssumption DEF IInv, Classes, callVars, Contract!vars, Contract!Next,
      Contract!Ask, Contract!Settle
  <2>1. CASE AbortIsRequested
    BY <2>1 DEF AbortIsRequested
  <2>2. CASE Prepare
    BY <2>2 DEF Prepare, Begin, TranspileFails, ScriptStarts, PhaseInv
  <2>3. CASE Completes
    BY <2>3 DEF Completes, PhaseInv
  <2>4. CASE Catches \/ CleanupEnds
    <3>1. /\ result = "none" /\ UNCHANGED abortRequested
          /\ result' \in {"none", "failed", "interrupted"}
          /\ result' = "interrupted" => reported' = "abort"
      BY <2>4 DEF Catches, CleanupEnds, Return, PhaseInv
    <3>2. reported' = "abort" => terminalError' = "abort"
      BY DEF ReportInv, TerminalErrors
    <3>3. terminalError' = "abort" => abortRequested'
      BY DEF TerminalInv
    <3> QED
      BY <3>1, <3>2, <3>3
  <2>5. CASE \/ DeadlinePasses \/ TimerFires \/ Finished
             \/ \E how \in {"returned", "threw"} : ScriptSettles(how)
    BY <2>5 DEF DeadlinePasses, TimerFires, Finished, ScriptSettles, vars
  <2>6. ASSUME NEW c \in Calls,
               \/ IssueCall(c) \/ CallContinues(c)
               \/ \E ok \in BOOLEAN : HostActionEnds(c, ok)
        PROVE  UNCHANGED Contract!vars
    BY <2>6 DEF IssueCall, CallContinues, HostActionEnds
  <2> QED
    BY <2>1, <2>2, <2>3, <2>4, <2>5, <2>6 DEF Next, Continuations
<1>3. UNCHANGED vars => UNCHANGED Contract!vars
  BY DEF vars, Contract!vars
<1> QED
  BY Invariance, <1>1, <1>2, <1>3, PTL DEF Spec

-----------------------------------------------------------------------------
(***************************************************************************)
(* Gathering.                                                              *)
(***************************************************************************)

(* What is true of numbers, finite sets and orders.                        *)

(* A set of natural numbers has a least element: finite sets are well       *)
(* founded, and so are the intervals below the members.                    *)
LEMMA LeastNatural ==
  ASSUME NEW T \in SUBSET Nat, T # {}
  PROVE  \E x \in T : \A y \in T : x <= y
<1> DEFINE R == StrictSubsetOrdering(Nat)
           U == {1 .. x : x \in T}
<1>1. IsWellFoundedOn(R, FiniteSubsetsOf(Nat))
  BY FS_StrictSubsetOrderingWellFounded
<1>2. U \subseteq FiniteSubsetsOf(Nat) /\ U # {}
  <2>1. \A x \in T : IsFiniteSet(1 .. x)
    BY FS_Interval
  <2>2. \A x \in T : 1 .. x \in SUBSET Nat
    OBVIOUS
  <2>3. \A x \in T : 1 .. x \in FiniteSubsetsOf(Nat)
    BY <2>1, <2>2 DEF FiniteSubsetsOf
  <2>4. PICK x \in T : TRUE
    OBVIOUS
  <2>5. 1 .. x \in U
    OBVIOUS
  <2>6. U \subseteq FiniteSubsetsOf(Nat)
    BY <2>3
  <2> QED BY <2>5, <2>6
<1>3. PICK u \in U : \A v \in U : ~ (<<v, u>> \in R)
  <2> HIDE DEF R, U
  <2> QED BY <1>1, <1>2, WFMin
<1>4. PICK x \in T : u = 1 .. x
  OBVIOUS
<1>5. ASSUME NEW y \in T, y < x PROVE FALSE
  <2>1. x \in 1 .. x /\ x \notin 1 .. y
    BY <1>5
  <2>2. 1 .. y \subseteq 1 .. x /\ 1 .. y # 1 .. x
    BY <1>5, <2>1
  <2>3. <<1 .. y, u>> \in R
    BY <1>4, <2>2 DEF StrictSubsetOrdering
  <2> QED BY <1>3, <2>3
<1> QED BY <1>5

(* Induction: a set of naturals that holds 0 and every successor of its     *)
(* members is all of Nat.                                                  *)
LEMMA AllNaturals ==
  ASSUME NEW T \in SUBSET Nat, 0 \in T, \A n \in T : n + 1 \in T
  PROVE  T = Nat
<1>1. SUFFICES ASSUME Nat \ T # {} PROVE FALSE
  OBVIOUS
<1>2. PICK x \in Nat \ T : \A y \in Nat \ T : x <= y
  BY <1>1, LeastNatural
<1>3. x - 1 \in Nat /\ x - 1 \notin Nat \ T
  BY <1>2
<1>4. x - 1 + 1 \in T
  BY <1>3
<1> QED BY <1>2, <1>4

(* An order, as a set of pairs, on the members of a set.                   *)
Ordered(R, S) ==
  /\ \A x \in S : <<x, x>> \notin R
  /\ \A x, y, z \in S : <<x, y>> \in R /\ <<y, z>> \in R => <<x, z>> \in R
  /\ \A x, y \in S : x = y \/ <<x, y>> \in R \/ <<y, x>> \in R

(* A finite set in order has a first member.                               *)
LEMMA OrderedHasFirst ==
  ASSUME NEW R, NEW S, IsFiniteSet(S), S # {}, Ordered(R, S)
  PROVE  \E x \in S : \A y \in S \ {x} : <<x, y>> \in R
<1> DEFINE Has(T) == \E x \in T : \A y \in T \ {x} : <<x, y>> \in R
           N == {n \in Nat : \A T \in SUBSET S : Cardinality(T) = n /\ T # {} => Has(T)}
<1>1. 0 \in N
  BY FS_Subset, FS_EmptySet
<1>2. ASSUME NEW n \in N PROVE n + 1 \in N
  <2> SUFFICES ASSUME NEW T \in SUBSET S, Cardinality(T) = n + 1, T # {} PROVE Has(T)
    BY <1>2
  <2> n \in Nat
    BY <1>2
  <2>1. PICK t \in T : TRUE
    OBVIOUS
  <2>2. IsFiniteSet(T) /\ IsFiniteSet(T \ {t}) /\ Cardinality(T \ {t}) = n
    <3>1. IsFiniteSet(T)
      BY FS_Subset
    <3> QED BY <2>1, <3>1, FS_RemoveElement
  <2>3. CASE T \ {t} = {}
    BY <2>1, <2>3
  <2>4. CASE T \ {t} # {}
    <3>1. PICK x \in T \ {t} : \A y \in T \ {t, x} : <<x, y>> \in R
      <4>1. Has(T \ {t})
        BY <1>2, <2>2, <2>4
      <4> QED BY <4>1
    <3>2. CASE <<t, x>> \in R
      <4>1. \A y \in T \ {t} : <<t, y>> \in R
        BY <3>1, <3>2 DEF Ordered
      <4> QED BY <4>1
    <3>3. CASE <<x, t>> \in R
      <4>1. \A y \in T \ {x} : <<x, y>> \in R
        BY <3>1, <3>3
      <4> QED BY <4>1
    <3> QED BY <3>1, <3>2, <3>3 DEF Ordered
  <2> QED BY <2>3, <2>4
<1>3. N = Nat
  <2> HIDE DEF N
  <2> N \in SUBSET Nat
    BY DEF N
  <2> QED BY <1>1, <1>2, AllNaturals
<1>4. Cardinality(S) \in N
  BY <1>3, FS_CardinalityType
<1>5. Has(S)
  BY <1>4
<1> QED BY <1>5

(* A finite set in order can be laid out in that order.                    *)
LEMMA OrderedCanBeSorted ==
  ASSUME NEW R, NEW S, IsFiniteSet(S), Ordered(R, S)
  PROVE  \E f \in [1 .. Cardinality(S) -> S] :
           \A i, j \in 1 .. Cardinality(S) : i < j => <<f[i], f[j]>> \in R
<1> DEFINE Can(T, n) == \E f \in [1 .. n -> T] : \A i, j \in 1 .. n : i < j => <<f[i], f[j]>> \in R
           N == {n \in Nat : \A T \in SUBSET S : Cardinality(T) = n => Can(T, n)}
<1>1. 0 \in N
  <2> SUFFICES ASSUME NEW T \in SUBSET S PROVE Can(T, 0)
    OBVIOUS
  <2>1. 1 .. 0 = {}
    OBVIOUS
  <2>2. [i \in {} |-> i] \in [1 .. 0 -> T]
    BY <2>1
  <2> QED BY <2>1, <2>2
<1>2. ASSUME NEW n \in N PROVE n + 1 \in N
  <2> SUFFICES ASSUME NEW T \in SUBSET S, Cardinality(T) = n + 1 PROVE Can(T, n + 1)
    BY <1>2
  <2> n \in Nat
    BY <1>2
  <2>1. IsFiniteSet(T) /\ T # {} /\ Ordered(R, T)
    BY FS_Subset, FS_EmptySet DEF Ordered
  <2>2. PICK x \in T : \A y \in T \ {x} : <<x, y>> \in R
    BY <2>1, OrderedHasFirst
  <2>3. IsFiniteSet(T \ {x}) /\ Cardinality(T \ {x}) = n
    BY <2>1, FS_RemoveElement
  <2>4. Can(T \ {x}, n)
    BY <1>2, <2>3
  <2>5. PICK g \in [1 .. n -> T \ {x}] :
          \A i, j \in 1 .. n : i < j => <<g[i], g[j]>> \in R
    BY <2>4
  <2> DEFINE f == [i \in 1 .. n + 1 |-> IF i = 1 THEN x ELSE g[i - 1]]
  <2>6. f \in [1 .. n + 1 -> T]
    OBVIOUS
  <2>7. ASSUME NEW i \in 1 .. n + 1, NEW j \in 1 .. n + 1, i < j
        PROVE  <<f[i], f[j]>> \in R
    <3>1. j - 1 \in 1 .. n /\ f[j] = g[j - 1]
      BY <2>7
    <3>2. CASE i = 1
      BY <2>2, <3>1, <3>2
    <3>3. CASE i # 1
      <4>1. i - 1 \in 1 .. n /\ f[i] = g[i - 1] /\ i - 1 < j - 1
        BY <2>7, <3>3
      <4> QED BY <2>5, <3>1, <4>1
    <3> QED BY <3>2, <3>3
  <2> QED BY <2>6, <2>7
<1>3. N = Nat
  <2> HIDE DEF N
  <2> N \in SUBSET Nat
    BY DEF N
  <2> QED BY <1>1, <1>2, AllNaturals
<1>4. Cardinality(S) \in N
  BY <1>3, FS_CardinalityType
<1>5. Can(S, Cardinality(S))
  BY <1>4
<1> QED BY <1>5

-----------------------------------------------------------------------------
(* The breadth-first search.                                               *)

(* One round of it, and what cannot grow any more.                         *)
Grown(group, blocks) == {d \in blocks : \E e \in group : d = e \/ Adjacent(d, e)}
Closed(group, blocks) ==
  \A e \in group, d \in blocks : Adjacent(d, e) => d \in group

(* The rounds exist, each the growth of the one before, and the last one is  *)
(* the result.                                                             *)
LEMMA SearchGoesInRounds ==
  ASSUME NEW blocks, IsFiniteSet(blocks), NEW c \in blocks
  PROVE  \E r \in [0 .. Cardinality(blocks) -> SUBSET blocks] :
           /\ r[0] = {c}
           /\ \A n \in 0 .. Cardinality(blocks) - 1 : r[n + 1] = Grown(r[n], blocks)
           /\ Connected(c, blocks) = r[Cardinality(blocks)]
<1> DEFINE C == Cardinality(blocks)
           Rounds(f, m) == f = [n \in 0 .. m |-> IF n = 0 THEN {c} ELSE Grown(f[n - 1], blocks)]
           N == {m \in Nat : \E f : Rounds(f, m)}
           r == CHOOSE f : Rounds(f, C)
<1> C \in Nat
  BY FS_CardinalityType
<1>1. 0 \in N
  <2> DEFINE f == [n \in 0 .. 0 |-> {c}]
  <2>1. Rounds(f, 0)
    OBVIOUS
  <2> QED BY <2>1
<1>2. ASSUME NEW m \in N PROVE m + 1 \in N
  <2> m \in Nat
    OBVIOUS
  <2>1. PICK f : Rounds(f, m)
    OBVIOUS
  <2> DEFINE g == [n \in 0 .. m + 1 |-> IF n <= m THEN f[n] ELSE Grown(f[m], blocks)]
  <2>2. ASSUME NEW n \in 0 .. m + 1
        PROVE  g[n] = IF n = 0 THEN {c} ELSE Grown(g[n - 1], blocks)
    <3>1. CASE n <= m /\ n # 0
      <4>1. g[n] = f[n] /\ g[n - 1] = f[n - 1]
        BY <3>1
      <4>2. \A k \in 0 .. m : f[k] = IF k = 0 THEN {c} ELSE Grown(f[k - 1], blocks)
        BY <2>1
      <4>3. f[n] = Grown(f[n - 1], blocks)
        BY <3>1, <4>2
      <4> QED BY <3>1, <4>1, <4>3
    <3>2. CASE n = 0
      <4>1. f[0] = {c}
        BY <2>1
      <4> QED BY <3>2, <4>1
    <3>3. CASE n = m + 1
      BY <3>3
    <3> QED BY <3>1, <3>2, <3>3
  <2>3. Rounds(g, m + 1)
    <3> HIDE DEF g
    <3>1. g = [n \in 0 .. m + 1 |-> g[n]]
      BY DEF g
    <3> QED BY <2>2, <3>1
  <2> HIDE DEF g
  <2> QED BY <2>3
<1>3. N = Nat
  <2> HIDE DEF N
  <2> N \in SUBSET Nat
    BY DEF N
  <2> QED BY <1>1, <1>2, AllNaturals
<1>4. C \in N
  BY <1>3
<1>5. Rounds(r, C)
  BY <1>4
<1>6. Connected(c, blocks) = r[C]
  BY DEF Connected, Grown
<1>7. r[0] = {c} /\ \A n \in 0 .. C - 1 : r[n + 1] = Grown(r[n], blocks)
  <2> HIDE DEF r
  <2>1. \A n \in 0 .. C : r[n] = IF n = 0 THEN {c} ELSE Grown(r[n - 1], blocks)
    BY <1>5
  <2>2. ASSUME NEW n \in 0 .. C - 1 PROVE r[n + 1] = Grown(r[n], blocks)
    <3>1. n + 1 \in 0 .. C /\ n + 1 # 0 /\ (n + 1) - 1 = n
      OBVIOUS
    <3> QED BY <2>1, <3>1
  <2> QED BY <2>1, <2>2
<1>8. r \in [0 .. C -> SUBSET blocks]
  <2>1. DOMAIN r = 0 .. C
    BY <1>5
  <2>2. \A n \in 0 .. C : r[n] \in SUBSET blocks
    BY <1>5 DEF Grown
  <2>3. r = [n \in 0 .. C |-> r[n]]
    BY <1>5
  <2> HIDE DEF r
  <2> QED BY <2>2, <2>3
<1> HIDE DEF r
<1> QED BY <1>6, <1>7, <1>8

(* What groupConnectedResourceBlocks finds from a block, among any finite   *)
(* number of blocks, is its component: the least set of blocks that holds  *)
(* it and is closed under touching.                                        *)
THEOREM SearchFindsTheComponent ==
  ASSUME NEW blocks, IsFiniteSet(blocks), NEW c \in blocks
  PROVE  /\ c \in Connected(c, blocks) /\ Connected(c, blocks) \subseteq blocks
         /\ Closed(Connected(c, blocks), blocks)
         /\ \A T \in SUBSET blocks :
              c \in T /\ Closed(T, blocks) => Connected(c, blocks) \subseteq T
<1> DEFINE C == Cardinality(blocks)
<1> C \in Nat
  BY FS_CardinalityType
<1>1. PICK r \in [0 .. C -> SUBSET blocks] :
        /\ r[0] = {c}
        /\ \A n \in 0 .. C - 1 : r[n + 1] = Grown(r[n], blocks)
        /\ Connected(c, blocks) = r[C]
  BY SearchGoesInRounds
<1>2. \A G \in SUBSET blocks : G \subseteq Grown(G, blocks)
  BY DEF Grown
<1>3. c \in Connected(c, blocks)
  <2> DEFINE N == {n \in Nat : n <= C => c \in r[n]}
  <2>1. 0 \in N
    BY <1>1
  <2>2. ASSUME NEW n \in N PROVE n + 1 \in N
    BY <1>1, <1>2
  <2>3. N = Nat
    <3> HIDE DEF N
    <3> N \in SUBSET Nat
      BY DEF N
    <3> QED BY <2>1, <2>2, AllNaturals
  <2> QED BY <1>1, <2>3
<1>4. \A T \in SUBSET blocks : c \in T /\ Closed(T, blocks) => Connected(c, blocks) \subseteq T
  <2> SUFFICES ASSUME NEW T \in SUBSET blocks, c \in T, Closed(T, blocks)
               PROVE  Connected(c, blocks) \subseteq T
    OBVIOUS
  <2> DEFINE N == {n \in Nat : n <= C => r[n] \subseteq T}
  <2>1. 0 \in N
    BY <1>1
  <2>2. ASSUME NEW n \in N PROVE n + 1 \in N
    <3> SUFFICES ASSUME n + 1 <= C PROVE r[n + 1] \subseteq T
      OBVIOUS
    <3>1. r[n + 1] = Grown(r[n], blocks) /\ r[n] \subseteq T
      BY <1>1
    <3> QED BY <3>1 DEF Grown, Closed
  <2>3. N = Nat
    <3> HIDE DEF N
    <3> N \in SUBSET Nat
      BY DEF N
    <3> QED BY <2>1, <2>2, AllNaturals
  <2> QED BY <1>1, <2>3
<1>5. Grown(r[C], blocks) = r[C]
  <2> DEFINE N == {n \in Nat : n <= C =>
                     Grown(r[n], blocks) = r[n] \/ Cardinality(r[n]) >= n + 1}
  <2>1. 0 \in N
    <3>1. Cardinality({c}) = 1
      BY FS_Singleton
    <3> QED BY <1>1, <3>1
  <2>2. ASSUME NEW n \in N PROVE n + 1 \in N
    <3> SUFFICES ASSUME n + 1 <= C
                 PROVE  Grown(r[n + 1], blocks) = r[n + 1] \/ Cardinality(r[n + 1]) >= n + 2
      OBVIOUS
    <3>1. /\ r[n + 1] = Grown(r[n], blocks)
          /\ r[n] \in SUBSET blocks /\ r[n + 1] \in SUBSET blocks
      BY <1>1
    <3>2. Grown(r[n], blocks) = r[n] \/ Cardinality(r[n]) >= n + 1
      OBVIOUS
    <3>3. CASE Grown(r[n], blocks) = r[n]
      BY <3>1, <3>3
    <3>4. CASE Grown(r[n], blocks) # r[n] /\ Cardinality(r[n]) >= n + 1
      <4>1. IsFiniteSet(r[n + 1]) /\ r[n] \in SUBSET r[n + 1] /\ r[n] # r[n + 1]
        BY <1>2, <3>1, <3>4, FS_Subset
      <4>2. Cardinality(r[n]) <= Cardinality(r[n + 1]) /\ Cardinality(r[n]) # Cardinality(r[n + 1])
        BY <4>1, FS_Subset
      <4>3. Cardinality(r[n]) \in Nat /\ Cardinality(r[n + 1]) \in Nat
        BY <4>1, FS_Subset, FS_CardinalityType
      <4> QED BY <3>4, <4>2, <4>3
    <3> QED BY <3>2, <3>3, <3>4
  <2>3. N = Nat
    <3> HIDE DEF N
    <3> N \in SUBSET Nat
      BY DEF N
    <3> QED BY <2>1, <2>2, AllNaturals
  <2>4. Grown(r[C], blocks) = r[C] \/ Cardinality(r[C]) >= C + 1
    BY <2>3
  <2>5. Cardinality(r[C]) <= C /\ Cardinality(r[C]) \in Nat
    BY <1>1, FS_Subset, FS_CardinalityType
  <2> QED BY <2>4, <2>5
<1>6. Closed(Connected(c, blocks), blocks)
  BY <1>1, <1>5 DEF Closed, Grown
<1> QED BY <1>1, <1>3, <1>4, <1>6

-----------------------------------------------------------------------------
(* Clusters.                                                               *)

Found == [name : NameSet, at : Int \X Int, distance : Int]

LEMMA TouchingIsMutual ==
  ASSUME NEW c \in Found, NEW d \in Found, Adjacent(c, d)
  PROVE  Adjacent(d, c)
<1>1. /\ c.at[1] \in Int /\ c.at[2] \in Int /\ d.at[1] \in Int /\ d.at[2] \in Int
  BY DEF Found
<1>2. Abs(c.at[1] - d.at[1]) = Abs(d.at[1] - c.at[1]) /\ Abs(c.at[2] - d.at[2]) = Abs(d.at[2] - c.at[2])
  BY <1>1 DEF Abs
<1> QED BY <1>2 DEF Adjacent

(* A search that begins with any block of a cluster finds that cluster.     *)
LEMMA ComponentsAgree ==
  ASSUME NEW blocks \in SUBSET Found, IsFiniteSet(blocks),
         NEW c \in blocks, NEW d \in Connected(c, blocks)
  PROVE  Connected(d, blocks) = Connected(c, blocks)
<1> DEFINE C == Connected(c, blocks)
           D == Connected(d, blocks)
<1>1. /\ c \in C /\ C \subseteq blocks /\ Closed(C, blocks)
      /\ \A T \in SUBSET blocks : c \in T /\ Closed(T, blocks) => C \subseteq T
  BY SearchFindsTheComponent
<1>2. /\ d \in D /\ D \subseteq blocks /\ Closed(D, blocks)
      /\ \A T \in SUBSET blocks : d \in T /\ Closed(T, blocks) => D \subseteq T
  BY <1>1, SearchFindsTheComponent
<1> HIDE DEF C, D
<1>3. d \in C
  BY DEF C
<1>4. D \subseteq C
  BY <1>1, <1>2, <1>3
<1>5. c \in D
  <2>1. SUFFICES ASSUME c \notin D PROVE FALSE
    OBVIOUS
  <2>2. Closed(C \ D, blocks)
    <3> SUFFICES ASSUME NEW e \in C \ D, NEW f \in blocks, Adjacent(f, e)
                 PROVE  f \in C \ D
      BY DEF Closed
    <3>1. f \in C
      BY <1>1 DEF Closed
    <3>2. Adjacent(e, f)
      BY <1>1, TouchingIsMutual
    <3>3. f \notin D
      BY <1>1, <1>2, <3>2 DEF Closed
    <3> QED BY <3>1, <3>3
  <2>3. C \subseteq C \ D
    BY <1>1, <2>1, <2>2
  <2> QED BY <1>2, <1>3, <2>3
<1>6. C \subseteq D
  BY <1>1, <1>2, <1>5
<1> QED BY <1>4, <1>6 DEF C, D

(* No part of a cluster lies apart from the rest of it.                     *)
LEMMA ComponentsHoldTogether ==
  ASSUME NEW blocks \in SUBSET Found, IsFiniteSet(blocks), NEW c \in blocks,
         NEW part \in SUBSET Connected(c, blocks), part # {}, part # Connected(c, blocks)
  PROVE  \E e \in part, f \in Connected(c, blocks) \ part : Adjacent(e, f)
<1> DEFINE C == Connected(c, blocks)
<1>1. /\ c \in C /\ C \subseteq blocks /\ Closed(C, blocks)
      /\ \A T \in SUBSET blocks : c \in T /\ Closed(T, blocks) => C \subseteq T
  BY SearchFindsTheComponent
<1> HIDE DEF C
<1>2. SUFFICES ASSUME \A e \in part, f \in C \ part : ~ Adjacent(e, f) PROVE FALSE
  BY DEF C
<1>3. part \subseteq C /\ part # {} /\ part # C
  BY DEF C
<1>4. \A e \in part, f \in C \ part : ~ Adjacent(f, e)
  <2> SUFFICES ASSUME NEW e \in part, NEW f \in C \ part, Adjacent(f, e) PROVE FALSE
    OBVIOUS
  <2>1. e \in Found /\ f \in Found
    BY <1>1, <1>3
  <2> QED BY <1>2, <2>1, TouchingIsMutual
<1>5. Closed(part, blocks)
  BY <1>1, <1>3, <1>4 DEF Closed
<1>6. Closed(C \ part, blocks)
  BY <1>1, <1>2, <1>3 DEF Closed
<1>7. CASE c \in part
  BY <1>1, <1>3, <1>5, <1>7
<1>8. CASE c \notin part
  BY <1>1, <1>3, <1>6, <1>8
<1> QED BY <1>7, <1>8

(* What ClustersAreConnected says of one entry.                             *)
SoundEntry(entry) ==
  /\ \A c, d \in entry.clusters : c # d =>
       ~ \E e \in c.candidates, f \in d.candidates : e = f \/ Adjacent(e, f)
  /\ \A c \in entry.clusters :
       /\ c.candidates # {}
       /\ \A part \in (SUBSET c.candidates) \ {{}, c.candidates} :
            \E e \in part, f \in c.candidates \ part : Adjacent(e, f)

(* Each cluster of an entry is what a search finds, and there are as many   *)
(* of them as there are results of a search.                                *)
LEMMA EntryIsOfSearches ==
  ASSUME NEW w, NEW radius, NEW S \in SUBSET Found, IsFiniteSet(S)
  PROVE  /\ \A c \in Entry(w, radius, S).clusters :
              \E x \in S : c.candidates = Connected(x, S)
         /\ \A c \in Entry(w, radius, S).clusters : c.name = First(c.candidates).name
         /\ \A c, d \in Entry(w, radius, S).clusters :
              c.candidates = d.candidates => c = d
         /\ IsFiniteSet(Entry(w, radius, S).clusters)
<1> DEFINE groups == {Connected(c, S) : c \in S}
           place(g) == 1 + Cardinality({h \in groups : Before(First(h), First(g))})
           made(g) == [id |-> <<w, First(g).name, radius, place(g), Centroid(g)>>,
                       name |-> First(g).name, candidates |-> g]
<1>1. Entry(w, radius, S).clusters = {made(g) : g \in groups}
  BY DEF Entry, Clusters
<1> HIDE DEF place
<1>2. \A g \in groups : made(g).candidates = g /\ made(g).name = First(g).name
  OBVIOUS
<1>3. IsFiniteSet({made(g) : g \in groups})
  <2> DEFINE f == [x \in S |-> made(Connected(x, S))]
  <2> HIDE DEF made
  <2>1. f \in Surjection(S, {made(g) : g \in groups})
    BY DEF Surjection
  <2> HIDE DEF f
  <2> QED BY <2>1, FS_Surjection
<1> HIDE DEF made
<1> QED BY <1>1, <1>2, <1>3

LEMMA EntryIsSound ==
  ASSUME NEW w, NEW radius, NEW S \in SUBSET Found, IsFiniteSet(S)
  PROVE  SoundEntry(Entry(w, radius, S))
<1> DEFINE E == Entry(w, radius, S).clusters
<1>1. /\ \A c \in E : \E x \in S : c.candidates = Connected(x, S)
      /\ \A c, d \in E : c.candidates = d.candidates => c = d
  BY EntryIsOfSearches
<1> HIDE DEF E
<1>2. ASSUME NEW c \in E, NEW d \in E,
             NEW e \in c.candidates, NEW f \in d.candidates, e = f \/ Adjacent(e, f)
      PROVE  c = d
  <2>1. PICK x \in S : c.candidates = Connected(x, S)
    BY <1>1
  <2>2. PICK y \in S : d.candidates = Connected(y, S)
    BY <1>1
  <2>3. Closed(Connected(y, S), S) /\ e \in S /\ f \in S
    BY <2>1, <2>2, SearchFindsTheComponent
  <2>4. e \in Connected(y, S)
    BY <1>2, <2>2, <2>3 DEF Closed
  <2>5. Connected(e, S) = Connected(x, S) /\ Connected(e, S) = Connected(y, S)
    BY <2>1, <2>4, ComponentsAgree
  <2> QED BY <1>1, <2>1, <2>2, <2>5
<1>3. ASSUME NEW c \in E
      PROVE  /\ c.candidates # {}
             /\ \A part \in (SUBSET c.candidates) \ {{}, c.candidates} :
                  \E e \in part, f \in c.candidates \ part : Adjacent(e, f)
  <2>1. PICK x \in S : c.candidates = Connected(x, S)
    BY <1>1
  <2>2. c.candidates # {}
    BY <2>1, SearchFindsTheComponent
  <2>3. ASSUME NEW part \in (SUBSET c.candidates) \ {{}, c.candidates}
        PROVE  \E e \in part, f \in c.candidates \ part : Adjacent(e, f)
    <3>0. part \in SUBSET c.candidates /\ part # {} /\ part # c.candidates
      BY <2>3
    <3>1. part \in SUBSET Connected(x, S) /\ part # {} /\ part # Connected(x, S)
      BY <2>1, <3>0
    <3> QED BY <2>1, <3>1, ComponentsHoldTogether
  <2> QED BY <2>2, <2>3
<1> QED BY <1>2, <1>3 DEF SoundEntry, E

-----------------------------------------------------------------------------
(* The cache.                                                              *)

(* An entry is what some scan would have made of finitely many blocks.      *)
WellMade(entry) ==
  \/ entry = NoEntry
  \/ \E w, radius, S :
       S \in SUBSET Found /\ IsFiniteSet(S) /\ entry = Entry(w, radius, S)

LEMMA WellMadeIsSound ==
  ASSUME NEW entry, WellMade(entry)
  PROVE  SoundEntry(entry)
<1>1. CASE entry = NoEntry
  BY <1>1 DEF NoEntry, SoundEntry
<1> QED BY <1>1, EntryIsSound DEF WellMade

LEMMA CandidatesAreFound ==
  ASSUME NEW entry, WellMade(entry)
  PROVE  CandidatesOf(entry) \in SUBSET Found /\ IsFiniteSet(CandidatesOf(entry))
<1>1. CASE entry = NoEntry
  BY <1>1, FS_EmptySet DEF NoEntry, CandidatesOf
<1>2. CASE entry # NoEntry
  <2>1. PICK w, radius, S :
          S \in SUBSET Found /\ IsFiniteSet(S) /\ entry = Entry(w, radius, S)
    BY <1>2 DEF WellMade
  <2>2. \A c \in entry.clusters : \E x \in S : c.candidates = Connected(x, S)
    BY <2>1, EntryIsOfSearches
  <2>3. \A c \in entry.clusters : c.candidates \in SUBSET S
    BY <2>1, <2>2, SearchFindsTheComponent
  <2>4. CandidatesOf(entry) \in SUBSET S
    BY <2>3 DEF CandidatesOf
  <2> QED BY <2>1, <2>4, FS_Subset
<1> QED BY <1>1, <1>2

(* Blocks are taken out of an entry by making it again of what is left.     *)
LEMMA WithoutIsWellMade ==
  ASSUME NEW entry, WellMade(entry), NEW w, NEW gone
  PROVE  WellMade(EntryWithout(w, entry, gone))
<1> DEFINE left == CandidatesOf(entry) \ gone
<1>1. left \in SUBSET Found /\ IsFiniteSet(left)
  BY CandidatesAreFound, FS_Subset
<1> HIDE DEF left
<1>2. EntryWithout(w, entry, gone) \in {entry, NoEntry, Entry(w, entry.radius, left)}
  BY DEF EntryWithout, left
<1> QED BY <1>1, <1>2 DEF WellMade

CacheInv ==
  /\ cache = [w \in Worlds |-> [k \in Keys |-> cache[w][k]]]
  /\ \A w \in Worlds, k \in Keys : WellMade(cache[w][k])

LEMMA RefreshKeepsCache ==
  ASSUME CacheInv, NEW w \in Worlds, NEW key, NEW radius,
         NEW S \in SUBSET Found, IsFiniteSet(S), Refreshed(w, key, radius, S)
  PROVE  CacheInv'
<1>1. WellMade(Entry(w, radius, S))
  BY DEF WellMade
<1>2. cache' = [cache EXCEPT ![w][key] = Entry(w, radius, S)]
  BY DEF Refreshed
<1>3. \A v \in Worlds, k \in Keys :
        cache'[v][k] = IF v = w /\ k = key THEN Entry(w, radius, S) ELSE cache[v][k]
  BY <1>2 DEF CacheInv
<1>6. cache' = [v \in Worlds |-> [k \in Keys |-> cache'[v][k]]]
  BY <1>2 DEF CacheInv
<1>7. \A v \in Worlds, k \in Keys : WellMade(cache'[v][k])
  BY <1>1, <1>3 DEF CacheInv
<1> QED BY <1>6, <1>7 DEF CacheInv

LEMMA ChangesKeepCache ==
  ASSUME CacheInv, NEW w \in Worlds, NEW changes, BlockChangesApplied(w, changes)
  PROVE  CacheInv'
<1> DEFINE gone(key) == {c \in CandidatesOf(cache[w][key]) :
                           \E change \in changes : Removes(change, c)}
           made == [key \in Keys |-> EntryWithout(w, cache[w][key], gone(key))]
<1>1. cache' = [cache EXCEPT ![w] = made]
  BY DEF BlockChangesApplied
<1>2. \A k \in Keys : WellMade(made[k])
  BY WithoutIsWellMade DEF CacheInv
<1> HIDE DEF made
<1>3. \A v \in Worlds, k \in Keys : cache'[v][k] = IF v = w THEN made[k] ELSE cache[v][k]
  BY <1>1 DEF CacheInv
<1>4. made = [k \in Keys |-> made[k]]
  BY DEF made
<1>6. cache' = [v \in Worlds |-> [k \in Keys |-> cache'[v][k]]]
  BY <1>1, <1>4 DEF CacheInv
<1>7. \A v \in Worlds, k \in Keys : WellMade(cache'[v][k])
  BY <1>2, <1>3 DEF CacheInv
<1> QED BY <1>6, <1>7 DEF CacheInv

-----------------------------------------------------------------------------
(* The ground.                                                             *)

GroundInv ==
  /\ world \in Worlds /\ bot \in Int \X Int
  /\ standing \in [Worlds -> SUBSET Blocks] /\ \A w \in Worlds : IsFiniteSet(standing[w])
  /\ unseen \in SUBSET Blocks /\ IsFiniteSet(unseen)
  /\ \A d \in drops : d.name \in NameSet

LEMMA SquaresAreNumbers ==
  ASSUME NEW p \in Int \X Int, NEW q \in Int \X Int
  PROVE  SquareDistance(p, q) \in Int
<1>1. p[1] - q[1] \in Int /\ p[2] - q[2] \in Int
  OBVIOUS
<1>2. \A k \in Int : Square(k) \in Int
  BY DEF Square
<1> QED BY <1>1, <1>2 DEF SquareDistance

LEMMA ScanFinds ==
  ASSUME GroundInv, NEW key, NEW radius
  PROVE  Scan(key, radius) \in SUBSET Found /\ IsFiniteSet(Scan(key, radius))
<1> DEFINE seen == {c \in standing[world] \cup unseen :
                      MatchesKey(c.name, key) /\ SquareDistance(c.at, bot) <= Square(radius)}
           f == [b \in seen |-> Candidate(b, bot)]
<1>1. IsFiniteSet(standing[world] \cup unseen) /\ standing[world] \cup unseen \subseteq Blocks
  BY FS_Union DEF GroundInv
<1>2. IsFiniteSet(seen) /\ seen \subseteq Blocks
  BY <1>1, FS_Subset
<1>3. \A b \in Blocks : Candidate(b, bot) \in Found
  BY SquaresAreNumbers DEF GroundInv, Blocks, Found, Candidate
<1>4. Scan(key, radius) = {Candidate(b, bot) : b \in seen}
  BY DEF Scan
<1> HIDE DEF seen
<1>5. f \in Surjection(seen, Scan(key, radius))
  BY <1>4 DEF Surjection
<1> HIDE DEF f
<1> QED BY <1>2, <1>3, <1>4, <1>5, FS_Surjection

LEMMA RescanKeepsCache ==
  ASSUME CacheInv, GroundInv, NEW key, NEW step, Rescans(key, step)
  PROVE  CacheInv'
<1> DEFINE S == IF ready THEN Scan(key, Radii[step]) ELSE {}
<1>1. S \in SUBSET Found /\ IsFiniteSet(S)
  BY ScanFinds, FS_EmptySet
<1>2. Refreshed(world, key, Radii[step], S)
  BY DEF Rescans
<1> HIDE DEF S
<1> QED BY <1>1, <1>2, RefreshKeepsCache DEF GroundInv

(* What the mod breaks stood there.                                         *)
LEMMA DigsKeepGround ==
  ASSUME GroundInv, NEW at, Digs(at)
  PROVE  /\ standing' \in [Worlds -> SUBSET Blocks] /\ \A w \in Worlds : IsFiniteSet(standing'[w])
         /\ unseen' \in SUBSET Blocks /\ IsFiniteSet(unseen')
         /\ \A d \in drops' : d.name \in NameSet
<1>1. CASE UNCHANGED <<standing, unseen, drops>>
  BY <1>1 DEF GroundInv
<1>2. ASSUME NEW b \in standing[world], NEW broken \in ChainBreaks(b), NEW caught,
             Break(broken, caught), unseen' = unseen \cup (broken \ {b})
      PROVE  /\ standing' \in [Worlds -> SUBSET Blocks] /\ \A w \in Worlds : IsFiniteSet(standing'[w])
             /\ unseen' \in SUBSET Blocks /\ IsFiniteSet(unseen')
             /\ \A d \in drops' : d.name \in NameSet
  <2>1. standing[world] \in SUBSET Blocks /\ IsFiniteSet(standing[world]) /\ world \in Worlds
    BY DEF GroundInv
  <2>2. Connected(b, standing[world]) \subseteq standing[world]
    BY <2>1, SearchFindsTheComponent
  <2>3. broken \subseteq standing[world]
    BY <1>2, <2>2 DEF ChainBreaks
  <2>4. IsFiniteSet(broken \ {b}) /\ broken \ {b} \subseteq Blocks
    BY <2>1, <2>3, FS_Subset
  <2>5. unseen' \in SUBSET Blocks /\ IsFiniteSet(unseen')
    BY <1>2, <2>4, FS_Union DEF GroundInv
  <2>6. standing' = [standing EXCEPT ![world] = standing[world] \ broken]
    BY <1>2 DEF Break
  <2>7. IsFiniteSet(standing[world] \ broken)
    BY <2>1, FS_Subset
  <2>8. \A w \in Worlds : standing'[w] = IF w = world THEN standing[world] \ broken ELSE standing[w]
    BY <2>6 DEF GroundInv
  <2>9. standing' \in [Worlds -> SUBSET Blocks] /\ \A w \in Worlds : IsFiniteSet(standing'[w])
    BY <2>1, <2>6, <2>7, <2>8 DEF GroundInv
  <2>10. \A d \in drops' : d \in drops \/ \E c \in broken : d.name = c.name
    BY <1>2 DEF Break
  <2>11. \A c \in broken : c.name \in NameSet
    BY <2>1, <2>3 DEF Blocks
  <2> QED BY <2>5, <2>9, <2>10, <2>11 DEF GroundInv
<1> QED BY <1>1, <1>2 DEF Digs

-----------------------------------------------------------------------------
(* Sums.                                                                   *)

(* The fold over a finite function adds its values up one by one, in an     *)
(* order that depends on its domain only.                                  *)
Taken(s) == CHOOSE x \in s : TRUE
Adds(sum, f, S) ==
  sum = [s \in SUBSET S |-> IF s = {} THEN 0 ELSE f[Taken(s)] + sum[s \ {Taken(s)}]]
SumOf(f, S) == (CHOOSE sum : Adds(sum, f, S))[S]

LEMMA FoldIsSum ==
  ASSUME NEW f
  PROVE  FoldFunction(+, 0, f) = SumOf(f, DOMAIN f)
BY DEF FoldFunction, FoldFunctionOnSet, MapThenFoldSet, SumOf, Adds, Taken

(* There is such a function, made for the subsets of at most k members first *)
(* and then for those of one more.                                         *)
LEMMA SumsExist ==
  ASSUME NEW S, IsFiniteSet(S), NEW f
  PROVE  Adds(CHOOSE sum : Adds(sum, f, S), f, S)
<1> DEFINE Small(k) == {s \in SUBSET S : Cardinality(s) <= k}
           Partly(sum, k) == sum = [s \in Small(k) |-> IF s = {} THEN 0
                                      ELSE f[Taken(s)] + sum[s \ {Taken(s)}]]
           N == {k \in Nat : \E sum : Partly(sum, k)}
<1>0. \A s \in SUBSET S : /\ IsFiniteSet(s) /\ Cardinality(s) \in Nat
                          /\ Cardinality(s) <= Cardinality(S)
                          /\ s # {} => /\ Taken(s) \in s
                                       /\ Cardinality(s \ {Taken(s)}) = Cardinality(s) - 1
  <2> SUFFICES ASSUME NEW s \in SUBSET S
               PROVE  /\ IsFiniteSet(s) /\ Cardinality(s) \in Nat
                      /\ Cardinality(s) <= Cardinality(S)
                      /\ s # {} => /\ Taken(s) \in s
                                   /\ Cardinality(s \ {Taken(s)}) = Cardinality(s) - 1
    OBVIOUS
  <2>1. IsFiniteSet(s) /\ Cardinality(s) \in Nat /\ Cardinality(s) <= Cardinality(S)
    BY FS_Subset, FS_CardinalityType
  <2>2. s # {} => Taken(s) \in s
    BY DEF Taken
  <2>3. s # {} => Cardinality(s \ {Taken(s)}) = Cardinality(s) - 1
    BY <2>1, <2>2, FS_RemoveElement
  <2> QED BY <2>1, <2>2, <2>3
<1>1. 0 \in N
  <2> DEFINE sum == [s \in Small(0) |-> 0]
  <2>1. \A s \in Small(0) : s = {}
    <3> SUFFICES ASSUME NEW s \in Small(0) PROVE s = {}
      OBVIOUS
    <3>1. Cardinality(s) <= 0 /\ Cardinality(s) \in Nat
      BY <1>0
    <3>2. Cardinality(s) = 0
      BY <3>1
    <3> QED BY <1>0, <3>2, FS_EmptySet
  <2>2. Partly(sum, 0)
    BY <2>1
  <2> QED BY <2>2
<1>2. ASSUME NEW k \in N PROVE k + 1 \in N
  <2> k \in Nat
    OBVIOUS
  <2>1. PICK sum : Partly(sum, k)
    OBVIOUS
  <2> DEFINE next == [s \in Small(k + 1) |-> IF s \in Small(k) THEN sum[s]
                                             ELSE f[Taken(s)] + sum[s \ {Taken(s)}]]
  <2>2. \A s \in Small(k) : sum[s] = IF s = {} THEN 0 ELSE f[Taken(s)] + sum[s \ {Taken(s)}]
    BY <2>1
  <2>3. ASSUME NEW s \in Small(k + 1)
        PROVE  next[s] = IF s = {} THEN 0 ELSE f[Taken(s)] + next[s \ {Taken(s)}]
    <3>1. s # {} => s \ {Taken(s)} \in Small(k) /\ s \ {Taken(s)} \in Small(k + 1)
      BY <1>0
    <3>2. s # {} => next[s \ {Taken(s)}] = sum[s \ {Taken(s)}]
      BY <3>1
    <3>3. {} \in Small(k)
      BY FS_EmptySet
    <3>4. CASE s \in Small(k)
      BY <2>2, <3>2, <3>4
    <3>5. CASE s \notin Small(k)
      BY <3>2, <3>3, <3>5
    <3> QED BY <3>4, <3>5
  <2>4. Partly(next, k + 1)
    <3>1. next = [s \in Small(k + 1) |-> next[s]]
      OBVIOUS
    <3> HIDE DEF next, Small
    <3> QED BY <2>3, <3>1
  <2> HIDE DEF next, Small, Partly
  <2> QED BY <2>4
<1>3. N = Nat
  <2> HIDE DEF N
  <2> N \in SUBSET Nat
    BY DEF N
  <2> QED BY <1>1, <1>2, AllNaturals
<1>4. Cardinality(S) \in N
  BY <1>3, FS_CardinalityType
<1>5. PICK sum : Partly(sum, Cardinality(S))
  BY <1>4
<1>6. Small(Cardinality(S)) = SUBSET S
  BY <1>0
<1>7. Adds(sum, f, S)
  <2> HIDE DEF Small
  <2> QED BY <1>5, <1>6 DEF Adds
<1> QED BY <1>7

(* Every member counts, and one more of a member is one more of the sum.    *)
LEMMA SumBounds ==
  ASSUME NEW S, IsFiniteSet(S), NEW f \in [S -> Nat]
  PROVE  SumOf(f, S) \in Nat /\ \A n \in S : f[n] <= SumOf(f, S)
<1> DEFINE sum == CHOOSE any : Adds(any, f, S)
           N == {k \in Nat : \A s \in SUBSET S : Cardinality(s) = k =>
                   sum[s] \in Nat /\ \A n \in s : f[n] <= sum[s]}
<1>1. \A s \in SUBSET S : sum[s] = IF s = {} THEN 0 ELSE f[Taken(s)] + sum[s \ {Taken(s)}]
  <2>1. Adds(sum, f, S)
    BY SumsExist
  <2> HIDE DEF sum
  <2> QED BY <2>1 DEF Adds
<1> HIDE DEF sum
<1>2. 0 \in N
  <2> SUFFICES ASSUME NEW s \in SUBSET S, Cardinality(s) = 0
               PROVE  sum[s] \in Nat /\ \A n \in s : f[n] <= sum[s]
    OBVIOUS
  <2>1. s = {}
    BY FS_Subset, FS_EmptySet
  <2>2. sum[s] = 0
    BY <1>1, <2>1
  <2> QED BY <2>1, <2>2
<1>3. ASSUME NEW k \in N PROVE k + 1 \in N
  <2> k \in Nat
    OBVIOUS
  <2> SUFFICES ASSUME NEW s \in SUBSET S, Cardinality(s) = k + 1
               PROVE  sum[s] \in Nat /\ \A n \in s : f[n] <= sum[s]
    OBVIOUS
  <2>1. IsFiniteSet(s) /\ s # {}
    BY FS_Subset, FS_EmptySet
  <2>2. Taken(s) \in s
    BY <2>1 DEF Taken
  <2>3. Cardinality(s \ {Taken(s)}) = k
    <3>1. Cardinality(s \ {Taken(s)}) = Cardinality(s) - 1
      BY <2>1, <2>2, FS_RemoveElement
    <3> QED BY <3>1
  <2>4. sum[s \ {Taken(s)}] \in Nat /\ \A n \in s \ {Taken(s)} : f[n] <= sum[s \ {Taken(s)}]
    BY <2>3
  <2>5. sum[s] = f[Taken(s)] + sum[s \ {Taken(s)}]
    BY <1>1, <2>1
  <2>6. \A n \in s : f[n] \in Nat
    OBVIOUS
  <2> HIDE DEF N
  <2> QED BY <2>2, <2>4, <2>5, <2>6
<1>4. N = Nat
  <2> HIDE DEF N
  <2> N \in SUBSET Nat
    BY DEF N
  <2> QED BY <1>2, <1>3, AllNaturals
<1>5. Cardinality(S) \in N
  BY <1>4, FS_CardinalityType
<1> QED BY <1>5 DEF SumOf, sum

LEMMA SumGrows ==
  ASSUME NEW S, IsFiniteSet(S), NEW f \in [S -> Nat], NEW m \in S
  PROVE  SumOf([f EXCEPT ![m] = @ + 1], S) = SumOf(f, S) + 1
<1> DEFINE g == [f EXCEPT ![m] = @ + 1]
           sum == CHOOSE any : Adds(any, f, S)
           more == CHOOSE any : Adds(any, g, S)
           N == {k \in Nat : \A s \in SUBSET S : Cardinality(s) = k =>
                   sum[s] \in Int /\ more[s] = sum[s] + (IF m \in s THEN 1 ELSE 0)}
<1>1. \A s \in SUBSET S : sum[s] = IF s = {} THEN 0 ELSE f[Taken(s)] + sum[s \ {Taken(s)}]
  <2>1. Adds(sum, f, S)
    BY SumsExist
  <2> HIDE DEF sum
  <2> QED BY <2>1 DEF Adds
<1>2. \A s \in SUBSET S : more[s] = IF s = {} THEN 0 ELSE g[Taken(s)] + more[s \ {Taken(s)}]
  <2> HIDE DEF g
  <2>1. Adds(more, g, S)
    BY SumsExist
  <2> HIDE DEF more
  <2> QED BY <2>1 DEF Adds
<1>3. \A n \in S : f[n] \in Nat /\ g[n] = f[n] + (IF n = m THEN 1 ELSE 0)
  OBVIOUS
<1> HIDE DEF sum, more, g
<1>4. 0 \in N
  <2> SUFFICES ASSUME NEW s \in SUBSET S, Cardinality(s) = 0
               PROVE  sum[s] \in Int /\ more[s] = sum[s] + (IF m \in s THEN 1 ELSE 0)
    OBVIOUS
  <2>1. s = {}
    BY FS_Subset, FS_EmptySet
  <2> QED BY <1>1, <1>2, <2>1
<1>5. ASSUME NEW k \in N PROVE k + 1 \in N
  <2> k \in Nat
    OBVIOUS
  <2> SUFFICES ASSUME NEW s \in SUBSET S, Cardinality(s) = k + 1
               PROVE  sum[s] \in Int /\ more[s] = sum[s] + (IF m \in s THEN 1 ELSE 0)
    OBVIOUS
  <2>1. IsFiniteSet(s) /\ s # {}
    BY FS_Subset, FS_EmptySet
  <2> DEFINE t == s \ {Taken(s)}
  <2>2. Taken(s) \in s
    BY <2>1 DEF Taken
  <2>3. Cardinality(t) = k
    <3>1. Cardinality(t) = Cardinality(s) - 1
      BY <2>1, <2>2, FS_RemoveElement
    <3> QED BY <3>1
  <2>4. sum[t] \in Int /\ more[t] = sum[t] + (IF m \in t THEN 1 ELSE 0)
    BY <2>3
  <2>5. sum[s] = f[Taken(s)] + sum[t] /\ more[s] = g[Taken(s)] + more[t]
    BY <1>1, <1>2, <2>1
  <2>6. f[Taken(s)] \in Nat /\ g[Taken(s)] = f[Taken(s)] + (IF Taken(s) = m THEN 1 ELSE 0)
    BY <1>3, <2>2
  <2>7. m \in s <=> m \in t \/ Taken(s) = m
    BY <2>2
  <2>8. ~ (m \in t /\ Taken(s) = m)
    OBVIOUS
  <2> HIDE DEF N, t
  <2> QED BY <2>4, <2>5, <2>6, <2>7, <2>8
<1>6. N = Nat
  <2> HIDE DEF N
  <2> N \in SUBSET Nat
    BY DEF N
  <2> QED BY <1>4, <1>5, AllNaturals
<1>7. Cardinality(S) \in N
  BY <1>6, FS_CardinalityType
<1>8. more[S] = sum[S] + 1
  BY <1>7
<1> QED BY <1>8 DEF SumOf, sum, more, g

LEMMA NamesAreFinite == IsFiniteSet(NameSet)
<1>1. IsFiniteSet(1 .. Len(Names))
  BY NamesAssumption, FS_Interval
<1> DEFINE f == [i \in 1 .. Len(Names) |-> Names[i]]
<1>2. f \in Surjection(1 .. Len(Names), NameSet)
  BY NamesAssumption DEF Surjection, NameSet
<1> HIDE DEF f
<1> QED BY <1>1, <1>2, FS_Surjection

LEMMA CarriedBounds ==
  ASSUME carried \in [NameSet -> Nat]
  PROVE  CarriedInAll \in Nat /\ \A n \in NameSet : carried[n] <= CarriedInAll
BY FoldIsSum, NamesAreFinite, SumBounds DEF CarriedInAll

LEMMA CarriedGrows ==
  ASSUME carried \in [NameSet -> Nat], NEW n \in NameSet,
         carried' = [carried EXCEPT ![n] = @ + 1]
  PROVE  CarriedInAll' = CarriedInAll + 1
<1>1. CarriedInAll = SumOf(carried, NameSet)
  BY FoldIsSum DEF CarriedInAll
<1>2. CarriedInAll' = SumOf(carried', DOMAIN carried')
  BY DEF CarriedInAll, FoldFunction, FoldFunctionOnSet, MapThenFoldSet, SumOf, Adds, Taken
<1>3. DOMAIN carried' = NameSet
  OBVIOUS
<1> QED BY <1>1, <1>2, <1>3, NamesAreFinite, SumGrows

-----------------------------------------------------------------------------
(* The trees.                                                              *)

LEMMA RanksTell ==
  ASSUME NEW n \in NameSet
  PROVE  /\ Rank(n) \in Nat
         /\ \A m \in NameSet : Rank(m) = Rank(n) => m = n
<1>1. \A m \in NameSet : Rank(m) \in DOMAIN Names /\ Names[Rank(m)] = m
  BY DEF NameSet, Rank
<1> QED BY <1>1, NamesAssumption

(* The order of candidates, and the one that puts the lower before the      *)
(* higher.                                                                 *)
BeforeIn(S) == {p \in S \X S : Before(p[1], p[2])}
LowerIn(S) ==
  {p \in S \X S : \/ p[1].at[2] < p[2].at[2]
                  \/ p[1].at[2] = p[2].at[2] /\ Before(p[1], p[2])}

LEMMA CandidatesDiffer ==
  ASSUME NEW c \in Found, NEW d \in Found,
         c.name = d.name, c.distance = d.distance, c.at[1] = d.at[1], c.at[2] = d.at[2]
  PROVE  c = d
<1>1. c.at = <<c.at[1], c.at[2]>> /\ d.at = <<d.at[1], d.at[2]>>
  BY DEF Found
<1>2. c.at = d.at
  BY <1>1
<1> QED BY <1>2 DEF Found

LEMMA CandidatesAreOrdered ==
  ASSUME NEW S \in SUBSET Found
  PROVE  Ordered(BeforeIn(S), S) /\ Ordered(LowerIn(S), S)
<1>1. \A c \in S : /\ c \in Found /\ c.name \in NameSet /\ Rank(c.name) \in Nat
                   /\ c.distance \in Int /\ c.at[1] \in Int /\ c.at[2] \in Int
  BY RanksTell DEF Found
<1>2. \A c, d \in S : Rank(c.name) = Rank(d.name) => c.name = d.name
  BY <1>1, RanksTell
<1>3. \A c, d \in S : c = d \/ Before(c, d) \/ Before(d, c)
  <2> SUFFICES ASSUME NEW c \in S, NEW d \in S, ~ Before(c, d), ~ Before(d, c)
               PROVE  c = d
    OBVIOUS
  <2>1. c.name = d.name
    BY <1>1, <1>2 DEF Before
  <2>2. c.distance = d.distance
    BY <1>1, <2>1 DEF Before
  <2>3. c.at[1] = d.at[1] /\ c.at[2] = d.at[2]
    BY <1>1, <2>1, <2>2 DEF Before
  <2> QED BY <1>1, <2>1, <2>2, <2>3, CandidatesDiffer
<1>4. \A c \in S : ~ Before(c, c)
  BY <1>1 DEF Before
<1>5. \A c, d, e \in S : Before(c, d) /\ Before(d, e) => Before(c, e)
  <2> SUFFICES ASSUME NEW c \in S, NEW d \in S, NEW e \in S, Before(c, d), Before(d, e)
               PROVE  Before(c, e)
    OBVIOUS
  <2>1. /\ Rank(c.name) \in Int /\ c.distance \in Int /\ c.at[1] \in Int /\ c.at[2] \in Int
        /\ Rank(d.name) \in Int /\ d.distance \in Int /\ d.at[1] \in Int /\ d.at[2] \in Int
        /\ Rank(e.name) \in Int /\ e.distance \in Int /\ e.at[1] \in Int /\ e.at[2] \in Int
    BY <1>1
  <2> QED BY <2>1 DEF Before
<1>6. Ordered(BeforeIn(S), S)
  BY <1>3, <1>4, <1>5 DEF Ordered, BeforeIn
<1>7. Ordered(LowerIn(S), S)
  <2>1. \A c, d \in S : <<c, d>> \in LowerIn(S) <=>
          c.at[2] < d.at[2] \/ (c.at[2] = d.at[2] /\ Before(c, d))
    BY DEF LowerIn
  <2>2. \A c \in S : <<c, c>> \notin LowerIn(S)
    BY <1>1, <1>4, <2>1
  <2>3. \A c, d \in S : c = d \/ <<c, d>> \in LowerIn(S) \/ <<d, c>> \in LowerIn(S)
    <3> SUFFICES ASSUME NEW c \in S, NEW d \in S, c # d
                 PROVE  <<c, d>> \in LowerIn(S) \/ <<d, c>> \in LowerIn(S)
      OBVIOUS
    <3>1. c.at[2] \in Int /\ d.at[2] \in Int
      BY <1>1
    <3> QED BY <1>3, <2>1, <3>1
  <2>4. \A c, d, e \in S :
          <<c, d>> \in LowerIn(S) /\ <<d, e>> \in LowerIn(S) => <<c, e>> \in LowerIn(S)
    <3> SUFFICES ASSUME NEW c \in S, NEW d \in S, NEW e \in S,
                        <<c, d>> \in LowerIn(S), <<d, e>> \in LowerIn(S)
                 PROVE  <<c, e>> \in LowerIn(S)
      OBVIOUS
    <3>1. c.at[2] \in Int /\ d.at[2] \in Int /\ e.at[2] \in Int
      BY <1>1
    <3>2. Before(c, d) /\ Before(d, e) => Before(c, e)
      BY <1>5
    <3> QED BY <2>1, <3>1, <3>2
  <2> QED BY <2>2, <2>3, <2>4 DEF Ordered
<1> QED BY <1>6, <1>7

(* The target of a cluster, and its first block, are blocks of it.          *)
LEMMA TargetIsOne ==
  ASSUME NEW S \in SUBSET Found, IsFiniteSet(S), S # {}
  PROVE  Target(S) \in S /\ First(S) \in S
<1>1. PICK c \in S : \A d \in S \ {c} : <<c, d>> \in LowerIn(S)
  BY CandidatesAreOrdered, OrderedHasFirst
<1>2. PICK e \in S : \A d \in S \ {e} : <<e, d>> \in BeforeIn(S)
  BY CandidatesAreOrdered, OrderedHasFirst
<1>3. \A d \in S \ {c} : c.at[2] < d.at[2] \/ (c.at[2] = d.at[2] /\ Before(c, d))
  BY <1>1 DEF LowerIn
<1>4. \A d \in S \ {e} : Before(e, d)
  BY <1>2 DEF BeforeIn
<1>5. Target(S) \in S
  BY <1>3 DEF Target
<1>6. First(S) \in S
  BY <1>4 DEF First
<1> QED BY <1>5, <1>6

NearerIn(E) == {p \in E \X E : Nearer(p[1], p[2])}

LEMMA TreesAreOrdered ==
  ASSUME NEW entry, WellMade(entry)
  PROVE  IsFiniteSet(entry.clusters) /\ Ordered(NearerIn(entry.clusters), entry.clusters)
<1> DEFINE E == entry.clusters
<1>1. IsFiniteSet(E)
  BY EntryIsOfSearches, FS_EmptySet DEF WellMade, NoEntry
<1>2. \A c \in E : c.candidates \in SUBSET Found /\ IsFiniteSet(c.candidates) /\ c.candidates # {}
  <2> SUFFICES ASSUME NEW c \in E
               PROVE  /\ c.candidates \in SUBSET Found /\ IsFiniteSet(c.candidates)
                      /\ c.candidates # {}
    OBVIOUS
  <2>1. c.candidates \in SUBSET CandidatesOf(entry)
    BY DEF CandidatesOf
  <2>2. CandidatesOf(entry) \in SUBSET Found /\ IsFiniteSet(CandidatesOf(entry))
    BY CandidatesAreFound
  <2>3. c.candidates # {}
    BY WellMadeIsSound DEF SoundEntry
  <2> QED BY <2>1, <2>2, <2>3, FS_Subset
<1>3. \A c \in E : /\ Distance(c) \in Int /\ Size(c) \in Nat
                   /\ First(c.candidates) \in c.candidates /\ First(c.candidates) \in Found
  <2> SUFFICES ASSUME NEW c \in E
               PROVE  /\ Distance(c) \in Int /\ Size(c) \in Nat
                      /\ First(c.candidates) \in c.candidates /\ First(c.candidates) \in Found
    OBVIOUS
  <2>1. Target(c.candidates) \in Found /\ First(c.candidates) \in c.candidates
        /\ First(c.candidates) \in Found
    BY <1>2, TargetIsOne
  <2>2. Cardinality(c.candidates) \in Nat
    BY <1>2, FS_CardinalityType
  <2> QED BY <2>1, <2>2 DEF Distance, Size, Found
<1>4. \A c, d \in E : First(c.candidates) = First(d.candidates) => c = d
  BY <1>3, WellMadeIsSound DEF SoundEntry
<1> DEFINE firsts == {First(c.candidates) : c \in E}
<1>5. Ordered(BeforeIn(firsts), firsts)
  BY <1>3, CandidatesAreOrdered
<1>6. /\ \A c \in E : ~ Before(First(c.candidates), First(c.candidates))
      /\ \A c, d \in E : \/ c = d \/ Before(First(c.candidates), First(d.candidates))
                         \/ Before(First(d.candidates), First(c.candidates))
      /\ \A c, d, e \in E : /\ Before(First(c.candidates), First(d.candidates))
                            /\ Before(First(d.candidates), First(e.candidates))
                            => Before(First(c.candidates), First(e.candidates))
  <2>1. \A c \in E : First(c.candidates) \in firsts
    OBVIOUS
  <2>2. \A x, y \in firsts : <<x, y>> \in BeforeIn(firsts) <=> Before(x, y)
    BY DEF BeforeIn
  <2> HIDE DEF firsts
  <2> QED BY <1>4, <1>5, <2>1, <2>2 DEF Ordered
<1> HIDE DEF E, firsts
<1>7. \A c, d \in E : <<c, d>> \in NearerIn(E) <=> Nearer(c, d)
  BY DEF NearerIn
<1>8. \A c \in E : ~ Nearer(c, c)
  BY <1>3, <1>6 DEF Nearer
<1>9. \A c, d \in E : c = d \/ Nearer(c, d) \/ Nearer(d, c)
  BY <1>3, <1>6 DEF Nearer
<1>10. \A c, d, e \in E : Nearer(c, d) /\ Nearer(d, e) => Nearer(c, e)
  <2> SUFFICES ASSUME NEW c \in E, NEW d \in E, NEW e \in E, Nearer(c, d), Nearer(d, e)
               PROVE  Nearer(c, e)
    OBVIOUS
  <2>1. /\ Distance(c) \in Int /\ Distance(d) \in Int /\ Distance(e) \in Int
        /\ Size(c) \in Int /\ Size(d) \in Int /\ Size(e) \in Int
    BY <1>3
  <2>2. /\ Before(First(c.candidates), First(d.candidates))
        /\ Before(First(d.candidates), First(e.candidates))
        => Before(First(c.candidates), First(e.candidates))
    BY <1>6
  <2> QED BY <2>1, <2>2 DEF Nearer
<1>11. Ordered(NearerIn(E), E)
  BY <1>7, <1>8, <1>9, <1>10 DEF Ordered
<1> QED BY <1>1, <1>11 DEF E

(* classifyTreeResourceClusters offers all the clusters of an entry, each   *)
(* once and the nearest first, whatever their distances and sizes.          *)
THEOREM TreesAreSorted ==
  ASSUME NEW entry, WellMade(entry)
  PROVE  LET trees == AcceptedTrees(entry)
         IN  /\ trees \in [1 .. Cardinality(entry.clusters) -> entry.clusters]
             /\ \A i, j \in DOMAIN trees : i < j => Nearer(trees[i], trees[j])
<1> DEFINE E == entry.clusters
           n == Cardinality(E)
<1>1. IsFiniteSet(E) /\ Ordered(NearerIn(E), E) /\ n \in Nat
  BY TreesAreOrdered, FS_CardinalityType
<1> HIDE DEF E, n
<1>2. PICK f \in [1 .. n -> E] : \A i, j \in 1 .. n : i < j => <<f[i], f[j]>> \in NearerIn(E)
  BY <1>1, OrderedCanBeSorted DEF n
<1>3. \A i, j \in 1 .. n : i < j => f[i] # f[j]
  BY <1>1, <1>2 DEF Ordered
<1>4. \A i, j \in 1 .. n : i # j => f[i] # f[j]
  <2> SUFFICES ASSUME NEW i \in 1 .. n, NEW j \in 1 .. n, i # j PROVE f[i] # f[j]
    OBVIOUS
  <2>1. i < j \/ j < i
    BY <1>1
  <2> QED BY <1>3, <2>1
<1>5. f \in SetToSeqs(E)
  BY <1>2, <1>4 DEF SetToSeqs, n
<1>6. \A i, j \in DOMAIN f : i < j => Nearer(f[i], f[j])
  BY <1>2 DEF NearerIn
<1>7. /\ AcceptedTrees(entry) \in SetToSeqs(E)
      /\ \A i, j \in DOMAIN AcceptedTrees(entry) :
           i < j => Nearer(AcceptedTrees(entry)[i], AcceptedTrees(entry)[j])
  BY <1>5, <1>6 DEF AcceptedTrees, E
<1> QED BY <1>7 DEF SetToSeqs, E

(* What is selected are trees of the entry.                                 *)
LEMMA SelectedAreTrees ==
  ASSUME NEW entry, WellMade(entry), NEW required
  PROVE  SelectTrees(entry, required) \in Seq(entry.clusters)
<1> DEFINE E == entry.clusters
           trees == AcceptedTrees(entry)
           enough == {i \in DOMAIN trees : Size(trees[i]) >= required}
           first == CHOOSE i \in enough : \A j \in enough : i <= j
           needed == {n \in DOMAIN trees : LogsIn(SubSeq(trees, 1, n - 1)) < required}
<1>1. IsFiniteSet(E) /\ Cardinality(E) \in Nat
  BY TreesAreOrdered, FS_CardinalityType
<1>2. trees \in [1 .. Cardinality(E) -> E]
  BY TreesAreSorted
<1> HIDE DEF trees, E
<1>3. SelectTrees(entry, required)
        = IF enough # {} THEN <<trees[first]>> ELSE SubSeq(trees, 1, Cardinality(needed))
  BY DEF SelectTrees, trees
<1>4. CASE enough # {}
  <2>1. enough \in SUBSET Nat
    BY <1>1, <1>2
  <2>2. \E i \in enough : \A j \in enough : i <= j
    <3> HIDE DEF enough
    <3> QED BY <1>4, <2>1, LeastNatural
  <2>3. first \in enough
    <3> HIDE DEF enough
    <3> QED BY <2>2
  <2>4. trees[first] \in E
    BY <1>2, <2>3
  <2> HIDE DEF first, enough
  <2>5. <<trees[first]>> \in Seq(E)
    BY <2>4
  <2> QED BY <1>3, <1>4, <2>5 DEF E
<1>5. CASE enough = {}
  <2>1. needed \in SUBSET (1 .. Cardinality(E))
    BY <1>2
  <2>2. IsFiniteSet(1 .. Cardinality(E)) /\ Cardinality(1 .. Cardinality(E)) = Cardinality(E)
    BY <1>1, FS_Interval
  <2> HIDE DEF needed, enough
  <2>3. Cardinality(needed) \in Nat /\ Cardinality(needed) <= Cardinality(E)
    BY <2>1, <2>2, FS_Subset, FS_CardinalityType
  <2>4. trees \in Seq(E) /\ Len(trees) = Cardinality(E)
    BY <1>1, <1>2
  <2>5. SubSeq(trees, 1, Cardinality(needed)) \in Seq(E)
    BY <1>1, <2>3, <2>4
  <2> QED BY <1>3, <1>5, <2>5 DEF E
<1> QED BY <1>4, <1>5

(* All blocks of a tree are of one kind, the one it is named after.         *)
LEMMA TreesHaveOneKind ==
  ASSUME NEW entry, WellMade(entry), NEW tree \in entry.clusters
  PROVE  /\ tree.candidates \in SUBSET Found /\ IsFiniteSet(tree.candidates)
         /\ tree.candidates # {}
         /\ Target(tree.candidates).name = tree.name /\ tree.name \in NameSet
<1>1. PICK w, radius, S :
        S \in SUBSET Found /\ IsFiniteSet(S) /\ entry = Entry(w, radius, S)
  BY DEF WellMade, NoEntry
<1>2. PICK x \in S : tree.candidates = Connected(x, S)
  BY <1>1, EntryIsOfSearches
<1>3. tree.name = First(tree.candidates).name
  BY <1>1, EntryIsOfSearches
<1> DEFINE T == {d \in S : d.name = x.name}
<1>4. x \in T /\ Closed(T, S)
  BY DEF Closed, Adjacent
<1>5. tree.candidates \subseteq T /\ x \in tree.candidates
  <2> HIDE DEF T
  <2> T \in SUBSET S
    BY DEF T
  <2> QED BY <1>1, <1>2, <1>4, SearchFindsTheComponent
<1>6. tree.candidates \in SUBSET Found /\ IsFiniteSet(tree.candidates) /\ tree.candidates # {}
  BY <1>1, <1>5, FS_Subset
<1>7. Target(tree.candidates) \in T /\ First(tree.candidates) \in T
  BY <1>5, <1>6, TargetIsOne
<1>8. x.name \in NameSet
  BY <1>1 DEF Found
<1> QED BY <1>3, <1>6, <1>7, <1>8

-----------------------------------------------------------------------------
(* What is counted.                                                        *)

TreePcs == {"dig", "approach", "strike", "fallen", "gather"}
CutPcs == {"cutTree", "refresh"} \cup TreePcs
MinePcs == {"mine", "survey", "mining", "recover"}
JobFields == {"pc", "request", "attempted", "collected", "executed", "cluster", "before",
              "step", "targets", "baseline", "rounds", "error"}

(* The count is of what is in the bag.  While a tree is felled, what came     *)
(* into the bag of its kind since then is not counted yet, and there is room *)
(* for it below what the bag holds.                                        *)
JobInv ==
  /\ carried \in [NameSet -> Nat]
  /\ DOMAIN job = JobFields
  /\ job.request \in {s.request : s \in Situations}
  /\ job.pc \in CutPcs => job.request.skill = "cutTree"
  /\ job.pc \in MinePcs => job.request.skill = "mine"
  /\ job.collected \in Int /\ job.before \in Nat /\ job.baseline \in Int
  /\ job.collected <= CarriedInAll
  /\ job.request.skill = "mine" => job.collected <= carried[job.request.name]
  /\ job.pc \in TreePcs =>
       /\ TreeName \in NameSet /\ job.before <= carried[TreeName]
       /\ job.collected + (carried[TreeName] - job.before) <= CarriedInAll

IHarvest == CacheInv /\ GroundInv /\ JobInv

LEMMA HarvestBegins ==
  ASSUME HarvestInit
  PROVE  IHarvest
<1>1. PICK s \in Situations :
        /\ standing = s.blocks /\ drops = s.drops
        /\ job = [pc |-> s.request.skill, request |-> s.request, attempted |-> {},
                  collected |-> 0, executed |-> FALSE, cluster |-> {}, before |-> 0,
                  step |-> 1, targets |-> {}, baseline |-> -1, rounds |-> 0, error |-> "none"]
  BY DEF HarvestInit
<1>2. CacheInv
  BY DEF HarvestInit, CacheInv, WellMade
<1>3. GroundInv
  BY <1>1, SituationsAssumption, FS_EmptySet DEF HarvestInit, GroundInv
<1>4. JobInv
  <2>1. carried = [n \in NameSet |-> 0]
    BY DEF HarvestInit
  <2>2. carried \in [NameSet -> Nat] /\ \A n \in NameSet : carried[n] = 0
    BY <2>1
  <2>3. CarriedInAll \in Nat
    BY <2>2, CarriedBounds
  <2>4. s.request.skill \in {"cutTree", "mine", "collect"}
        /\ (s.request.skill = "mine" => s.request.name \in NameSet)
    BY SituationsAssumption
  <2> QED BY <1>1, <2>2, <2>3, <2>4 DEF JobInv, JobFields, CutPcs, TreePcs, MinePcs
<1> QED BY <1>2, <1>3, <1>4 DEF IHarvest

(* A step that leaves the bag and the job alone.                            *)
LEMMA QuietStep ==
  ASSUME JobInv, UNCHANGED <<carried, job>>
  PROVE  JobInv'
<1>1. CarriedInAll' = CarriedInAll /\ TreeName' = TreeName
  BY DEF CarriedInAll, FoldFunction, FoldFunctionOnSet, MapThenFoldSet, TreeName
<1> QED BY <1>1 DEF JobInv

(* A step that ends the call, or goes on in the same call with the counters  *)
(* as they are.                                                            *)
LEMMA SameCountStep ==
  ASSUME JobInv, UNCHANGED carried, DOMAIN job' = JobFields,
         job'.request = job.request, job'.collected = job.collected,
         job'.before = job.before, job'.baseline = job.baseline, job'.cluster = job.cluster,
         \/ job'.pc \in {"completed", "failed"}
         \/ job.pc \in CutPcs \ TreePcs /\ job'.pc \in CutPcs \ TreePcs
         \/ job.pc \in TreePcs /\ job'.pc \in TreePcs
         \/ job.pc \in MinePcs /\ job'.pc \in MinePcs
  PROVE  JobInv'
<1>1. CarriedInAll' = CarriedInAll /\ TreeName' = TreeName
  BY DEF CarriedInAll, FoldFunction, FoldFunctionOnSet, MapThenFoldSet, TreeName
<1> QED BY <1>1 DEF JobInv, CutPcs, TreePcs, MinePcs

(* A tree is taken with what the bag holds of its kind then.                *)
LEMMA TakesOne ==
  ASSUME JobInv, GroundInv, job.pc \in CutPcs \ TreePcs, UNCHANGED carried,
         NEW entry, WellMade(entry), NEW required,
         job' = Takes(job, SelectTrees(entry, required))
  PROVE  JobInv'
<1> DEFINE trees == SelectTrees(entry, required)
           untried == {i \in DOMAIN trees : trees[i].id \notin job.attempted}
           at == CHOOSE i \in untried : \A k \in untried : i <= k
           tree == trees[at]
<1>1. trees \in Seq(entry.clusters)
  BY SelectedAreTrees
<1> HIDE DEF trees
<1>2. job' = IF untried = {}
             THEN Fails(job, IF job.executed THEN "logs_insufficient" ELSE "resource_not_found")
             ELSE [job EXCEPT !.pc = "dig", !.attempted = @ \cup {tree.id},
                              !.cluster = tree.candidates, !.before = BeforeDig(job, tree.name)]
  BY DEF Takes, trees
<1>3. CASE untried = {}
  BY <1>2, <1>3, SameCountStep DEF Fails, JobInv, JobFields
<1>4. CASE untried # {}
  <2>1. untried \in SUBSET Nat
    BY <1>1
  <2>2. \E i \in untried : \A k \in untried : i <= k
    <3> HIDE DEF untried
    <3> QED BY <1>4, <2>1, LeastNatural
  <2>3. at \in untried
    <3> HIDE DEF untried
    <3> QED BY <2>2
  <2>4. tree \in entry.clusters
    BY <1>1, <2>3
  <2> HIDE DEF at, tree, untried
  <2>5. Target(tree.candidates).name = tree.name /\ tree.name \in NameSet
    BY <2>4, TreesHaveOneKind
  <2>6. job' = [job EXCEPT !.pc = "dig", !.attempted = @ \cup {tree.id},
                           !.cluster = tree.candidates, !.before = carried[tree.name]]
    BY <1>2, <1>4 DEF BeforeDig
  <2>7. /\ DOMAIN job' = JobFields /\ job'.pc = "dig" /\ job'.request = job.request
        /\ job'.collected = job.collected /\ job'.baseline = job.baseline
        /\ job'.cluster = tree.candidates /\ job'.before = carried[tree.name]
    BY <2>6 DEF JobInv, JobFields
  <2>8. TreeName' = tree.name
    BY <2>5, <2>7 DEF TreeName
  <2>9. CarriedInAll' = CarriedInAll
    BY DEF CarriedInAll, FoldFunction, FoldFunctionOnSet, MapThenFoldSet
  <2>10. carried[tree.name] \in Nat /\ CarriedInAll \in Nat
    BY <2>5, CarriedBounds DEF JobInv
  <2> QED BY <2>5, <2>7, <2>8, <2>9, <2>10 DEF JobInv, CutPcs, TreePcs, MinePcs
<1> QED BY <1>3, <1>4

(* What has come into the bag since the tree was taken is counted.          *)
LEMMA CountsTheTree ==
  ASSUME JobInv, CutCounts
  PROVE  JobInv'
<1>1. UNCHANGED carried /\ job.pc \in TreePcs /\ job.pc = "gather"
  BY DEF CutCounts, bagVars, TreePcs
<1>2. CASE job' = Fails(job, "drop_not_obtained")
  BY <1>1, <1>2, SameCountStep DEF Fails, JobInv, JobFields
<1>3. CASE job' = [job EXCEPT !.pc = "cutTree", !.executed = TRUE,
                              !.collected = @ + (carried[TreeName] - job.before)]
  <2>1. /\ DOMAIN job' = JobFields /\ job'.pc = "cutTree" /\ job'.request = job.request
        /\ job'.collected = job.collected + (carried[TreeName] - job.before)
        /\ job'.baseline = job.baseline /\ job'.before = job.before
    BY <1>3 DEF JobInv, JobFields
  <2>2. CarriedInAll' = CarriedInAll
    BY <1>1 DEF CarriedInAll, FoldFunction, FoldFunctionOnSet, MapThenFoldSet
  <2>3. job.request.skill = "cutTree" /\ carried[TreeName] \in Nat
    BY <1>1 DEF JobInv, CutPcs
  <2> QED BY <1>1, <2>1, <2>2, <2>3 DEF JobInv, CutPcs, TreePcs, MinePcs
<1> QED BY <1>2, <1>3 DEF CutCounts

(* The rounds of the miner.                                                 *)
LEMMA WantedIsKnown ==
  ASSUME JobInv, job.request.skill = "mine"
  PROVE  Wanted \in NameSet /\ carried[Wanted] \in Nat /\ carried[Wanted] <= CarriedInAll
BY SituationsAssumption, CarriedBounds DEF JobInv, Wanted

LEMMA LargestIsOne ==
  ASSUME NEW a \in Int, NEW b \in Int, NEW c \in Int
  PROVE  Max({a, b, c}) \in {a, b, c}
<1>1. \E x \in {a, b, c} : \A y \in {a, b, c} : x >= y
  OBVIOUS
<1> QED BY <1>1 DEF Max

LEMMA MinerCounts ==
  ASSUME JobInv, UNCHANGED carried, job.pc \in MinePcs, DOMAIN job' = JobFields,
         job'.request = job.request, job'.pc \in MinePcs \cup {"completed", "failed"},
         job'.before \in Nat, job'.baseline \in Int, job'.collected \in Int,
         job'.collected <= carried[Wanted]
  PROVE  JobInv'
<1>1. job.request.skill = "mine"
  BY DEF JobInv
<1>2. CarriedInAll' = CarriedInAll /\ CarriedInAll \in Nat
  BY CarriedBounds
     DEF CarriedInAll, FoldFunction, FoldFunctionOnSet, MapThenFoldSet, JobInv
<1>3. Wanted \in NameSet /\ carried[Wanted] \in Nat /\ carried[Wanted] <= CarriedInAll
  BY <1>1, WantedIsKnown
<1> QED BY <1>1, <1>2, <1>3 DEF JobInv, Wanted, CutPcs, TreePcs, MinePcs

LEMMA MineRoundKeeps ==
  ASSUME JobInv, MineRound
  PROVE  JobInv'
<1>1. UNCHANGED carried /\ job.pc = "mine" /\ job.pc \in MinePcs
  BY DEF MineRound, collectVars, bagVars, MinePcs
<1>2. job.request.skill = "mine" /\ carried[Wanted] \in Nat /\ job.collected <= carried[Wanted]
  BY <1>1, WantedIsKnown DEF JobInv, Wanted
<1>3. /\ DOMAIN job' = JobFields /\ job'.request = job.request
      /\ job'.pc \in MinePcs \cup {"completed", "failed"}
      /\ job'.before \in {job.before, carried[Wanted]} /\ job'.baseline = job.baseline
      /\ job'.collected = job.collected
  <2> DEFINE j == [job EXCEPT !.rounds = @ + 1]
  <2>0. DOMAIN job = JobFields
    BY DEF JobInv
  <2>1. CASE job' = [job EXCEPT !.pc = "completed"]
    BY <2>0, <2>1 DEF JobFields
  <2>2. CASE job' = Fails(job, "drop_not_obtained") \/ job' = Fails(job, "aborted")
    BY <2>0, <2>2 DEF JobFields, Fails
  <2>3. ASSUME NEW targets, job' = Mines(j, targets)
        PROVE  /\ DOMAIN job' = JobFields /\ job'.request = job.request
               /\ job'.pc = "mining"
               /\ job'.before = carried[Wanted] /\ job'.baseline = job.baseline
               /\ job'.collected = job.collected
    BY <2>0, <2>3 DEF JobFields, Mines, Wanted
  <2>4. CASE job' = [j EXCEPT !.pc = "survey", !.step = 1]
    BY <2>0, <2>4 DEF JobFields, MinePcs
  <2>5. \/ job' = [job EXCEPT !.pc = "completed"]
        \/ job' = Fails(job, "drop_not_obtained") \/ job' = Fails(job, "aborted")
        \/ \E targets : job' = Mines(j, targets)
        \/ job' = [j EXCEPT !.pc = "survey", !.step = 1]
    BY DEF MineRound
  <2> HIDE DEF j
  <2> QED BY <2>1, <2>2, <2>3, <2>4, <2>5 DEF MinePcs
<1> QED BY <1>1, <1>2, <1>3, MinerCounts DEF JobInv

LEMMA MineSurveysKeeps ==
  ASSUME JobInv, MineSurveys
  PROVE  JobInv'
<1>1. UNCHANGED carried /\ job.pc = "survey" /\ job.pc \in MinePcs
  BY DEF MineSurveys, collectVars, bagVars, MinePcs
<1>2. job.request.skill = "mine" /\ carried[Wanted] \in Nat /\ job.collected <= carried[Wanted]
  BY <1>1, WantedIsKnown DEF JobInv, Wanted
<1>3. /\ DOMAIN job' = JobFields /\ job'.request = job.request
      /\ job'.pc \in MinePcs \cup {"completed", "failed"}
      /\ job'.before \in {job.before, carried[Wanted]} /\ job'.baseline = job.baseline
      /\ job'.collected = job.collected
  <2>0. DOMAIN job = JobFields
    BY DEF JobInv
  <2>1. CASE \E error : job' = Fails(job, error)
    BY <2>0, <2>1 DEF JobFields, Fails
  <2>2. CASE \E targets : job' = Mines(job, targets)
    BY <2>0, <2>2 DEF JobFields, Mines, Wanted, MinePcs
  <2>3. CASE job' = [job EXCEPT !.step = @ + 1]
    BY <1>1, <2>0, <2>3 DEF JobFields
  <2> QED BY <2>1, <2>2, <2>3 DEF MineSurveys
<1> QED BY <1>1, <1>2, <1>3, MinerCounts DEF JobInv

LEMMA MinerEndsKeeps ==
  ASSUME JobInv, MinerEnds
  PROVE  JobInv'
<1>1. UNCHANGED carried /\ job.pc = "mining" /\ job.pc \in MinePcs
  BY DEF MinerEnds, bagVars, MinePcs
<1>2. job.request.skill = "mine" /\ carried[Wanted] \in Nat /\ job.collected <= carried[Wanted]
  BY <1>1, WantedIsKnown DEF JobInv, Wanted
<1>3. /\ job.collected \in Int /\ job.before \in Nat /\ job.baseline \in Int
      /\ DOMAIN job = JobFields
  BY DEF JobInv
<1>4. CASE job' = Fails(job, "runtime_mine_failed")
  BY <1>1, <1>3, <1>4, SameCountStep DEF Fails, JobFields
<1>5. CASE \E pc \in {"mine", "recover"} : job' = [Recorded EXCEPT !.pc = pc]
  <2> DEFINE counted == Max({job.collected, Known, carried[Wanted] - Baseline})
  <2>1. Known \in Int /\ Baseline \in Nat /\ Known <= carried[Wanted]
    BY <1>2, <1>3 DEF Known, Baseline
  <2>2. counted \in {job.collected, Known, carried[Wanted] - Baseline}
    BY <1>2, <1>3, <2>1, LargestIsOne
  <2>3. counted \in Int /\ counted <= carried[Wanted]
    BY <1>2, <1>3, <2>1, <2>2
  <2> HIDE DEF counted
  <2>4. PICK pc \in {"mine", "recover"} :
          job' = [[job EXCEPT !.baseline = Baseline, !.collected = counted] EXCEPT !.pc = pc]
    BY <1>5 DEF Recorded, counted
  <2>5. /\ DOMAIN job' = JobFields /\ job'.request = job.request
        /\ job'.pc \in MinePcs /\ job'.before = job.before /\ job'.baseline = Baseline
        /\ job'.collected = counted
    BY <1>3, <2>4 DEF JobFields, MinePcs
  <2> QED BY <1>1, <1>3, <2>1, <2>3, <2>5, MinerCounts
<1> QED BY <1>4, <1>5 DEF MinerEnds

LEMMA MineRecoversKeeps ==
  ASSUME JobInv, MineRecovers
  PROVE  JobInv'
<1>1. UNCHANGED carried /\ job.pc = "recover" /\ job.pc \in MinePcs
  BY DEF MineRecovers, bagVars, MinePcs
<1>2. job.request.skill = "mine" /\ carried[Wanted] \in Nat /\ job.collected <= carried[Wanted]
  BY <1>1, WantedIsKnown DEF JobInv, Wanted
<1>3. /\ job.collected \in Int /\ job.before \in Nat /\ job.baseline \in Int
      /\ DOMAIN job = JobFields
  BY DEF JobInv
<1>4. CASE job' = Fails(job, "runtime_mine_failed")
  BY <1>1, <1>3, <1>4, SameCountStep DEF Fails, JobFields
<1>5. CASE job' = [job EXCEPT !.pc = "mine", !.collected = carried[Wanted] - Baseline]
  <2>1. Baseline \in Nat
    BY <1>2, <1>3 DEF Known, Baseline
  <2>2. /\ DOMAIN job' = JobFields /\ job'.request = job.request
        /\ job'.pc = "mine" /\ job'.before = job.before /\ job'.baseline = job.baseline
        /\ job'.collected = carried[Wanted] - Baseline
    BY <1>3, <1>5 DEF JobFields
  <2> QED BY <1>1, <1>2, <1>3, <2>1, <2>2, MinerCounts DEF MinePcs
<1> QED BY <1>4, <1>5 DEF MineRecovers

-----------------------------------------------------------------------------
(* Every step.                                                             *)

(* The collection moves the bot and nothing else that is asked about here.   *)
LEMMA CollectKeeps ==
  ASSUME GroundInv, CollectActs \/ TimeIsUp
  PROVE  bot' \in Int \X Int /\ UNCHANGED <<ready, drops, carried, aborted, mishaps>>
<1>1. CASE CollectCenters \/ PickGoes
  BY <1>1, CollectAssumption DEF CollectCenters, PickGoes, Walks, Acts, bagVars
<1>2. CASE CollectEnter \/ CollectSettles \/ CollectLooks \/ PickBegins \/ PickWaits
           \/ CollectEnds \/ TimeIsUp
  BY <1>2 DEF CollectEnter, CollectSettles, CollectLooks, PickBegins, PickWaits, CollectEnds,
       TimeIsUp, Computes, Acts, bagVars, GroundInv
<1> QED BY <1>1, <1>2 DEF CollectActs

LEMMA CutStep ==
  ASSUME IHarvest,
         CutSelects \/ CutRefreshes \/ CutDigs \/ CutApproaches \/ CutStrikes
         \/ CutCollects \/ CutCounts
  PROVE  IHarvest'
<1> USE DEF IHarvest
<1>0. DOMAIN job = JobFields /\ world \in Worlds
  BY DEF JobInv, GroundInv
<1>1. CASE CutSelects
  <2>1. UNCHANGED <<cache, collectVars, groundVars>> /\ job.pc = "cutTree"
    BY <1>1 DEF CutSelects
  <2>2. CacheInv' /\ GroundInv' /\ UNCHANGED carried
    BY <2>1 DEF collectVars, botVars, bagVars, groundVars, CacheInv, GroundInv
  <2>3. CASE job' = Takes(job, SelectTrees(cache[world]["tree"], Remaining))
    <3>1. WellMade(cache[world]["tree"])
      BY <1>0, HarvestAssumption DEF CacheInv
    <3> QED BY <2>1, <2>2, <2>3, <3>1, TakesOne DEF CutPcs, TreePcs
  <2>4. CASE \/ job' = [job EXCEPT !.pc = "completed"] \/ job' = Fails(job, "aborted")
             \/ job' = [job EXCEPT !.pc = "refresh", !.step = 1]
    BY <1>0, <2>1, <2>2, <2>4, SameCountStep DEF Fails, JobFields, CutPcs, TreePcs
  <2> QED BY <1>1, <2>2, <2>3, <2>4 DEF CutSelects
<1>2. CASE CutRefreshes
  <2>1. Rescans("tree", job.step) /\ UNCHANGED <<collectVars, groundVars>> /\ job.pc = "refresh"
    BY <1>2 DEF CutRefreshes
  <2>2. CacheInv'
    BY <2>1, RescanKeepsCache
  <2>3. GroundInv' /\ UNCHANGED carried
    BY <2>1 DEF collectVars, botVars, bagVars, groundVars, GroundInv
  <2>4. CASE job' = Takes(job, SelectTrees(cache'[world]["tree"], Remaining))
    <3>1. WellMade(cache'[world]["tree"])
      BY <1>0, <2>2, HarvestAssumption DEF CacheInv
    <3> QED BY <2>1, <2>2, <2>3, <2>4, <3>1, TakesOne DEF CutPcs, TreePcs
  <2>5. CASE job' = [job EXCEPT !.step = @ + 1]
    BY <1>0, <2>1, <2>2, <2>3, <2>5, SameCountStep DEF JobFields, CutPcs, TreePcs
  <2> QED BY <1>2, <2>4, <2>5 DEF CutRefreshes
<1>3. CASE CutDigs
  <2>1. UNCHANGED <<cache, collectVars, groundVars>> /\ job.pc = "dig"
    BY <1>3 DEF CutDigs
  <2>2. CacheInv' /\ GroundInv' /\ UNCHANGED carried
    BY <2>1 DEF collectVars, botVars, bagVars, groundVars, CacheInv, GroundInv
  <2>3. \/ job' = Fails(job, "unreachable_target")
        \/ \E pc \in {"strike", "approach"} : job' = [job EXCEPT !.pc = pc]
    BY <1>3 DEF CutDigs
  <2> QED BY <1>0, <2>1, <2>2, <2>3, SameCountStep DEF Fails, JobFields, CutPcs, TreePcs
<1>4. CASE CutApproaches
  <2>1. UNCHANGED <<cache, bagVars, groundVars>> /\ job.pc = "approach"
    BY <1>4 DEF CutApproaches
  <2>2. bot' \in Int \X Int
    BY <1>4, CollectAssumption DEF CutApproaches
  <2>3. CacheInv' /\ GroundInv' /\ UNCHANGED carried
    BY <2>1, <2>2 DEF bagVars, groundVars, CacheInv, GroundInv
  <2>4. job' = Fails(job, "unreachable_target") \/ job' = [job EXCEPT !.pc = "strike"]
    BY <1>4 DEF CutApproaches
  <2> QED BY <1>0, <2>1, <2>3, <2>4, SameCountStep DEF Fails, JobFields, CutPcs, TreePcs
<1>5. CASE CutStrikes
  <2>1. UNCHANGED <<botVars, carried, world>> /\ job.pc = "strike"
    BY <1>5 DEF CutStrikes
  <2>2. Digs(TargetAt) \/ UNCHANGED <<standing, unseen, drops>>
    BY <1>5 DEF CutStrikes
  <2>3. GroundInv'
    <3>1. CASE Digs(TargetAt)
      BY <2>1, <3>1, DigsKeepGround DEF GroundInv, botVars
    <3>2. CASE UNCHANGED <<standing, unseen, drops>>
      BY <2>1, <3>2 DEF GroundInv, botVars
    <3> QED BY <2>2, <3>1, <3>2
  <2>4. CacheInv'
    <3>1. \/ UNCHANGED cache
          \/ BlockChangesApplied(world, {[at |-> c.at, name |-> "air"] : c \in job.cluster})
      BY <1>5 DEF CutStrikes
    <3>2. UNCHANGED cache => CacheInv'
      BY DEF CacheInv
    <3> QED BY <1>0, <3>1, <3>2, ChangesKeepCache
  <2>5. job' = Fails(job, "unreachable_target") \/ job' = [job EXCEPT !.pc = "fallen"]
    BY <1>5 DEF CutStrikes
  <2> QED BY <1>0, <2>1, <2>3, <2>4, <2>5, SameCountStep DEF Fails, JobFields, CutPcs, TreePcs
<1>6. CASE CutCollects
  <2>1. UNCHANGED <<cache, botVars, bagVars, groundVars>> /\ job.pc = "fallen"
    BY <1>6 DEF CutCollects
  <2>2. CacheInv' /\ GroundInv' /\ UNCHANGED carried
    BY <2>1 DEF botVars, bagVars, groundVars, CacheInv, GroundInv
  <2>3. job' = Fails(job, "aborted") \/ job' = [job EXCEPT !.pc = "gather"]
    BY <1>6 DEF CutCollects
  <2> QED BY <1>0, <2>1, <2>2, <2>3, SameCountStep DEF Fails, JobFields, CutPcs, TreePcs
<1>7. CASE CutCounts
  <2>1. UNCHANGED <<cache, botVars, bagVars, groundVars>>
    BY <1>7 DEF CutCounts
  <2>2. CacheInv' /\ GroundInv'
    BY <2>1 DEF botVars, bagVars, groundVars, CacheInv, GroundInv
  <2> QED BY <1>7, <2>2, CountsTheTree
<1> QED BY <1>1, <1>2, <1>3, <1>4, <1>5, <1>6, <1>7

LEMMA MineStep ==
  ASSUME IHarvest, MineRound \/ MineSurveys \/ MinerDigs \/ MinerEnds \/ MineRecovers
  PROVE  IHarvest'
<1> USE DEF IHarvest
<1>1. CASE MineRound
  <2>1. UNCHANGED <<cache, collectVars, groundVars>>
    BY <1>1 DEF MineRound
  <2>2. CacheInv' /\ GroundInv'
    BY <2>1 DEF collectVars, botVars, bagVars, groundVars, CacheInv, GroundInv
  <2> QED BY <1>1, <2>2, MineRoundKeeps
<1>2. CASE MineSurveys
  <2>1. UNCHANGED <<collectVars, groundVars>> /\ Rescans(Wanted, job.step)
    BY <1>2 DEF MineSurveys
  <2>2. CacheInv'
    BY <2>1, RescanKeepsCache
  <2>3. GroundInv'
    BY <2>1 DEF collectVars, botVars, bagVars, groundVars, GroundInv
  <2> QED BY <1>2, <2>2, <2>3, MineSurveysKeeps
<1>3. CASE MinerDigs
  <2>1. PICK b \in standing[world] : Digs(b.at) /\ bot' = <<b.at[1], 0>>
    BY <1>3 DEF MinerDigs
  <2>2. UNCHANGED <<cache, carried, world, job>>
    BY <1>3 DEF MinerDigs
  <2>3. bot' \in Int \X Int
    BY <2>1 DEF GroundInv, Blocks
  <2>4. GroundInv'
    BY <2>1, <2>2, <2>3, DigsKeepGround DEF GroundInv
  <2>5. CacheInv' /\ JobInv'
    BY <2>2, QuietStep DEF CacheInv
  <2> QED BY <2>4, <2>5
<1>4. CASE MinerEnds \/ MineRecovers
  <2>1. UNCHANGED <<cache, botVars, bagVars, groundVars>>
    BY <1>4 DEF MinerEnds, MineRecovers
  <2>2. CacheInv' /\ GroundInv'
    BY <2>1 DEF botVars, bagVars, groundVars, CacheInv, GroundInv
  <2> QED BY <1>4, <2>2, MinerEndsKeeps, MineRecoversKeeps
<1> QED BY <1>1, <1>2, <1>3, <1>4

(* An item comes into the bag: the bag grows by one, and so does what is not *)
(* counted yet, at most.                                                    *)
LEMMA PickStep ==
  ASSUME IHarvest, PicksUp, UNCHANGED <<cache, groundVars, job>>
  PROVE  IHarvest'
<1> USE DEF IHarvest
<1>1. PICK d \in drops : drops' = drops \ {d} /\ carried' = [carried EXCEPT ![d.name] = @ + 1]
  BY DEF PicksUp
<1>2. CacheInv' /\ GroundInv'
  BY <1>1 DEF PicksUp, botVars, groundVars, CacheInv, GroundInv
<1>3. d.name \in NameSet
  BY DEF GroundInv
<1>4. CarriedInAll' = CarriedInAll + 1 /\ CarriedInAll \in Nat
  BY <1>1, <1>3, CarriedGrows, CarriedBounds DEF JobInv
<1>5. /\ carried' \in [NameSet -> Nat]
      /\ \A n \in NameSet : carried[n] \in Nat /\ carried'[n] \in {carried[n], carried[n] + 1}
  BY <1>1, <1>3 DEF JobInv
<1>6. TreeName' = TreeName
  BY DEF TreeName
<1>7. job.request.skill = "mine" => job.request.name \in NameSet
  BY SituationsAssumption DEF JobInv
<1>8. JobInv'
  BY <1>4, <1>5, <1>6, <1>7 DEF JobInv
<1> QED BY <1>2, <1>8

LEMMA HarvestStep ==
  ASSUME IHarvest, [HarvestNext]_harvestVars
  PROVE  IHarvest'
<1>1. CASE UNCHANGED harvestVars
  <2>1. CacheInv' /\ GroundInv' /\ JobInv'
    BY <1>1, QuietStep
       DEF harvestVars, collectVars, botVars, bagVars, groundVars, IHarvest, CacheInv, GroundInv
  <2> QED BY <2>1 DEF IHarvest
<1>2. CASE (CollectActs \/ TimeIsUp) /\ UNCHANGED <<cache, groundVars, job>>
  <2>1. bot' \in Int \X Int /\ UNCHANGED <<drops, carried>>
    BY <1>2, CollectKeeps DEF IHarvest
  <2>2. CacheInv' /\ GroundInv' /\ JobInv'
    BY <1>2, <2>1, QuietStep DEF groundVars, IHarvest, CacheInv, GroundInv
  <2> QED BY <2>2 DEF IHarvest
<1>3. CASE Collects \/ Collected
  <2>1. UNCHANGED <<cache, botVars, bagVars, groundVars>>
    BY <1>3 DEF Collects, Collected
  <2>2. CacheInv' /\ GroundInv' /\ UNCHANGED carried
    BY <2>1 DEF botVars, bagVars, groundVars, IHarvest, CacheInv, GroundInv
  <2>3. CASE UNCHANGED job
    BY <2>2, <2>3, QuietStep DEF IHarvest
  <2>4. CASE job' = [job EXCEPT !.pc = "completed"] \/ \E error : job' = Fails(job, error)
    BY <2>2, <2>4, SameCountStep DEF IHarvest, JobInv, JobFields, Fails
  <2> QED BY <1>3, <2>3, <2>4 DEF Collects, Collected
<1>4. CASE BlockUpdate
  <2>1. PICK b \in unseen :
          /\ unseen' = unseen \ {b}
          /\ BlockChangesApplied(world, {[at |-> b.at, name |-> "air"]})
          /\ UNCHANGED <<collectVars, world, standing, job>>
    BY <1>4 DEF BlockUpdate
  <2>2. IsFiniteSet(unseen \ {b})
    BY FS_RemoveElement DEF IHarvest, GroundInv
  <2>3. GroundInv' /\ JobInv'
    BY <2>1, <2>2, QuietStep DEF collectVars, botVars, bagVars, IHarvest, GroundInv
  <2>4. CacheInv'
    BY <2>1, ChangesKeepCache DEF IHarvest, GroundInv
  <2> QED BY <2>3, <2>4 DEF IHarvest
<1>5. CASE OthersBreak
  <2>1. PICK b \in standing[world] :
          /\ standing' = [standing EXCEPT ![world] = @ \ {b}] /\ unseen' = unseen \cup {b}
    BY <1>5 DEF OthersBreak
  <2>2. UNCHANGED <<cache, botVars, bagVars, world, job>>
    BY <1>5 DEF OthersBreak
  <2>3. standing[world] \in SUBSET Blocks /\ IsFiniteSet(standing[world]) /\ world \in Worlds
    BY DEF IHarvest, GroundInv
  <2>4. IsFiniteSet(standing[world] \ {b}) /\ IsFiniteSet(unseen \cup {b}) /\ b \in Blocks
    BY <2>3, FS_RemoveElement, FS_AddElement DEF IHarvest, GroundInv
  <2>5. \A w \in Worlds : standing'[w] = IF w = world THEN standing[world] \ {b} ELSE standing[w]
    BY <2>1 DEF IHarvest, GroundInv
  <2>6. standing' \in [Worlds -> SUBSET Blocks] /\ \A w \in Worlds : IsFiniteSet(standing'[w])
    BY <2>1, <2>3, <2>4, <2>5 DEF IHarvest, GroundInv
  <2>7. GroundInv'
    BY <2>1, <2>2, <2>4, <2>6 DEF IHarvest, GroundInv, botVars, bagVars
  <2>8. CacheInv' /\ JobInv'
    BY <2>2, QuietStep DEF IHarvest, CacheInv, bagVars
  <2> QED BY <2>7, <2>8 DEF IHarvest
<1>6. CASE WorldChanges
  <2>1. PICK w \in Worlds, x \in Columns : world' = w /\ bot' = <<x, 0>>
    BY <1>6 DEF WorldChanges
  <2>2. unseen' = {} /\ drops' = {} /\ UNCHANGED <<cache, carried, standing, job>>
    BY <1>6 DEF WorldChanges
  <2>3. GroundInv'
    BY <2>1, <2>2, FS_EmptySet, CollectAssumption DEF IHarvest, GroundInv
  <2>4. CacheInv' /\ JobInv'
    BY <2>2, QuietStep DEF IHarvest, CacheInv
  <2> QED BY <2>3, <2>4 DEF IHarvest
<1>7. CASE (DropTaken \/ Abort \/ ConnectionLost) /\ UNCHANGED <<cache, groundVars, job>>
  <2>1. UNCHANGED <<bot, carried>> /\ drops' \subseteq drops
    BY <1>7 DEF DropTaken, Abort, ConnectionLost, botVars, bagVars
  <2>2. CacheInv' /\ GroundInv' /\ JobInv'
    BY <1>7, <2>1, QuietStep DEF groundVars, IHarvest, CacheInv, GroundInv
  <2> QED BY <2>2 DEF IHarvest
<1>8. CASE PicksUp /\ UNCHANGED <<cache, groundVars, job>>
  BY <1>8, PickStep
<1> QED BY <1>1, <1>2, <1>3, <1>4, <1>5, <1>6, <1>7, <1>8, CutStep, MineStep
        DEF HarvestNext, SkillActs, Passes, Around

(* The inductive invariant of HarvestSpec.                                  *)
THEOREM HarvestInvariance == HarvestSpec => []IHarvest
<1>1. HarvestInit => IHarvest
  BY HarvestBegins
<1>2. IHarvest /\ [HarvestNext]_harvestVars => IHarvest'
  BY HarvestStep
<1> QED BY <1>1, <1>2, PTL DEF HarvestSpec

(* Whatever scans, digs, others and late block updates do, the clusters of  *)
(* every entry of the cache are the connected components of its blocks.    *)
THEOREM ClustersStayConnected == HarvestSpec => []ClustersAreConnected
<1>1. IHarvest => ClustersAreConnected
  BY WellMadeIsSound DEF IHarvest, CacheInv, ClustersAreConnected, SoundEntry
<1> QED BY <1>1, HarvestInvariance, PTL

(* cutTree and mine never count more than came into the bag since they were *)
(* called, over any number of trees, rounds and mishaps.                   *)
THEOREM CountsAreGains == HarvestSpec => []CountsWhatItGained
<1>1. IHarvest => CountsWhatItGained
  BY DEF IHarvest, JobInv, CountsWhatItGained
<1> QED BY <1>1, HarvestInvariance, PTL
=============================================================================
