------------------------------ MODULE Sandbox ------------------------------
(***************************************************************************)
(* One sandboxed execution of generated code (ts-core/src/sandbox/         *)
(* execution.ts, execution-control.ts, host-call.ts).  The script runs in  *)
(* an isolate and calls the host; it need not await a call, so several can *)
(* be in flight.  The control state holds the first terminal error; its    *)
(* abort signal is aborted exactly when that error is set.                 *)
(*                                                                         *)
(* A host call races the host's action with the abort signal.  When either *)
(* wins, a continuation (CallContinues) runs in the microtask queue, which *)
(* is empty before the next timer, message of the isolate or signal is     *)
(* handled: that is the guard QueueEmpty.  An action that lost the race    *)
(* goes on by itself.                                                      *)
(***************************************************************************)
EXTENDS Naturals

CONSTANTS Calls, None

(* An error is named by its class; a facade error by the call it is from.  *)
Classes == {"abort", "timeout", "runtime", "static", "transpile"}

ASSUME SandboxAssumption == None \notin Calls \cup Classes /\ Calls \cap Classes = {}

TerminalErrors == Calls \cup {"abort", "timeout", "runtime"}
CallKinds == {"act", "try", "read", "sleep"}

VARIABLES
  phase,              \* where executeSandboxCodeRequest stands
  script,             \* what the script's promise did
  abortRequested,     \* the caller's abort signal
  deadlinePassed,     \* now >= deadlineMs
  terminalError,      \* SandboxExecutionControlState.terminalError
  lastHostCallError,  \* the last facade error of a plain call
  callPc, callKind,   \* the host calls
  hostAction,         \* the action behind each call
  stepStatus,         \* the step result recorded for each call
  result, reported    \* what was returned, and its error

callVars == <<callKind, hostAction, stepStatus>>
vars == <<phase, script, abortRequested, deadlinePassed, terminalError,
          lastHostCallError, callPc, callVars, result, reported>>

Init ==
  /\ phase = "new" /\ script = "none"
  /\ abortRequested = FALSE /\ deadlinePassed = FALSE
  /\ terminalError = None /\ lastHostCallError = None
  /\ callPc = [c \in Calls |-> "new"]
  /\ callKind \in [Calls -> CallKinds]
  /\ hostAction = [c \in Calls |-> "none"]
  /\ stepStatus = [c \in Calls |-> "none"]
  /\ result = "none" /\ reported = None

-----------------------------------------------------------------------------
(* Continuations wait in the microtask queue. *)
Continuing(c) == callPc[c] \in {"fulfilled", "rejected", "aborted"}
QueueEmpty ==
  /\ \A c \in Calls : ~Continuing(c)
  /\ script \in {"none", "pending"} \/ phase # "running"

ActiveHostCalls == {c \in Calls : callPc[c] = "racing" \/ Continuing(c)}

(* First ?? second of the source. *)
Coalesce(e, default) == IF e # None THEN e ELSE default

(***************************************************************************)
(* markSandboxTerminalError, on the calls as pc describes them: the first  *)
(* error stays, and setting it aborts the signal, which rejects the race   *)
(* of every call in flight.                                                *)
(***************************************************************************)
\* Mutant: the last error wins.
MarkTerminal_LastWins(e, pc) ==
  /\ terminalError' = e
  /\ callPc' = [c \in Calls |-> IF pc[c] = "racing" THEN "aborted" ELSE pc[c]]

MarkTerminal(e, pc) ==
  IF terminalError # None
  THEN UNCHANGED terminalError /\ callPc' = pc
  ELSE /\ terminalError' = e
       /\ callPc' = [c \in Calls |-> IF pc[c] = "racing" THEN "aborted" ELSE pc[c]]

(* The static check: a violation is returned at once, whatever the signal. *)
Begin(passes) ==
  /\ phase = "new"
  /\ IF abortRequested THEN MarkTerminal("abort", callPc)
                       ELSE UNCHANGED <<terminalError, callPc>>
  /\ IF passes THEN phase' = "preparing" /\ UNCHANGED <<result, reported>>
               ELSE phase' = "returned" /\ result' = "failed" /\ reported' = "static"
  /\ UNCHANGED <<script, abortRequested, deadlinePassed, lastHostCallError, callVars>>

(* Transpilation, then the isolate and the script's start. *)
TranspileFails ==
  /\ phase = "preparing"
  /\ phase' = "returned" /\ result' = "failed" /\ reported' = "transpile"
  /\ UNCHANGED <<script, abortRequested, deadlinePassed, terminalError,
                 lastHostCallError, callPc, callVars>>

(* started = FALSE: the isolate or its context could not be set up. *)
ScriptStarts(started) ==
  /\ phase = "preparing"
  /\ phase' = "running"
  /\ script' = IF started THEN "pending" ELSE "threw"
  /\ UNCHANGED <<abortRequested, deadlinePassed, terminalError, lastHostCallError,
                 callPc, callVars, result, reported>>

(***************************************************************************)
(* The caller aborts (attachExternalAbortSignal), and time.                *)
(***************************************************************************)
AbortIsRequested ==
  /\ ~abortRequested /\ QueueEmpty
  /\ abortRequested' = TRUE
  /\ IF phase \in {"preparing", "running", "cleanup"}
     THEN MarkTerminal("abort", callPc)
     ELSE UNCHANGED <<terminalError, callPc>>
  /\ UNCHANGED <<phase, script, deadlinePassed, lastHostCallError, callVars,
                 result, reported>>

DeadlinePasses ==
  /\ phase \in {"preparing", "running"} /\ ~deadlinePassed
  /\ deadlinePassed' = TRUE
  /\ UNCHANGED <<phase, script, abortRequested, terminalError, lastHostCallError,
                 callPc, callVars, result, reported>>

(* runSandboxScriptWithTimeout: the timer gives the script up. *)
TimerFires ==
  /\ phase = "running" /\ script = "pending" /\ deadlinePassed /\ QueueEmpty
  /\ script' = "timed_out"
  /\ MarkTerminal("timeout", callPc)
  /\ UNCHANGED <<phase, abortRequested, deadlinePassed, lastHostCallError,
                 callVars, result, reported>>

-----------------------------------------------------------------------------
(***************************************************************************)
(* A host call.  assertSandboxHostCallAllowed refuses it once a terminal   *)
(* error is set or the deadline has passed, which is itself terminal.      *)
(* Parts of a script that nobody awaits may call even while the sandbox    *)
(* cleans up.                                                              *)
(***************************************************************************)
HostCallAllowed == terminalError = None /\ ~deadlinePassed

IssueCall(c) ==
  /\ phase \in {"running", "cleanup"} /\ script # "none" /\ QueueEmpty
  /\ callPc[c] = "new"
  /\ IF HostCallAllowed
     THEN /\ callPc' = [callPc EXCEPT ![c] = "racing"]
          /\ hostAction' = [hostAction EXCEPT ![c] = "running"]
          /\ UNCHANGED terminalError
     ELSE /\ MarkTerminal("timeout", [callPc EXCEPT ![c] = "refused"])
          /\ UNCHANGED hostAction
  /\ UNCHANGED <<phase, script, abortRequested, deadlinePassed, lastHostCallError,
                 callKind, stepStatus, result, reported>>

(* The host's action ends; the race may have been decided before. *)
HostActionEnds(c, ok) ==
  /\ hostAction[c] = "running"
  /\ hostAction' = [hostAction EXCEPT ![c] = "ended"]
  /\ callPc' = IF callPc[c] # "racing" THEN callPc
               ELSE [callPc EXCEPT ![c] = IF ok THEN "fulfilled" ELSE "rejected"]
  /\ UNCHANGED <<phase, script, abortRequested, deadlinePassed, terminalError,
                 lastHostCallError, callKind, stepStatus, result, reported>>

(***************************************************************************)
(* The continuation of a call.  A plain or recoverable call looks at the   *)
(* terminal error again before it counts as "ok".  A failure under a       *)
(* terminal abort or timeout is that error's; any other failure of a plain *)
(* call is a facade error and ends the whole execution, one of tryHostCall *)
(* is only recorded.  Reads record nothing; sleep asks again whether calls *)
(* are allowed.                                                            *)
(***************************************************************************)
\* Mutant: the terminal error is not looked at again.
Succeeded_NoRecheck(c) == callPc[c] = "fulfilled"

Succeeded(c) == callPc[c] = "fulfilled" /\ terminalError = None

Done(c) == [callPc EXCEPT ![c] = "done"]
Record(c, status) == stepStatus' = [stepStatus EXCEPT ![c] = status]
EndedByOther == terminalError \notin Calls \cup {None}

StepSucceeds(c) ==
  /\ callKind[c] \in {"act", "try"} /\ Succeeded(c)
  /\ Record(c, "ok")
  /\ callPc' = Done(c)
  /\ UNCHANGED <<terminalError, lastHostCallError>>

StepIsCutShort(c) ==
  /\ callKind[c] \in {"act", "try"} /\ ~Succeeded(c) /\ EndedByOther
  /\ IF callKind[c] = "act" THEN Record(c, "err") ELSE UNCHANGED stepStatus
  /\ callPc' = Done(c)
  /\ UNCHANGED <<terminalError, lastHostCallError>>

\* Mutant: the failure is recorded but not remembered as the cause.
StepFails_Forgotten(c) ==
  /\ callKind[c] = "act" /\ ~Succeeded(c) /\ ~EndedByOther
  /\ Record(c, "err")
  /\ MarkTerminal(c, Done(c))
  /\ UNCHANGED lastHostCallError

StepFails(c) ==
  /\ callKind[c] = "act" /\ ~Succeeded(c) /\ ~EndedByOther
  /\ lastHostCallError' = c
  /\ Record(c, "err")
  /\ MarkTerminal(c, Done(c))

TriedStepFails(c) ==
  /\ callKind[c] = "try" /\ ~Succeeded(c) /\ ~EndedByOther
  /\ Record(c, "err")
  /\ callPc' = Done(c)
  /\ UNCHANGED <<terminalError, lastHostCallError>>

ReadContinues(c) ==
  /\ callKind[c] \in {"read", "sleep"}
  /\ IF callKind[c] = "sleep" /\ callPc[c] = "fulfilled" /\ deadlinePassed
     THEN MarkTerminal("timeout", Done(c))
     ELSE callPc' = Done(c) /\ UNCHANGED terminalError
  /\ UNCHANGED <<lastHostCallError, stepStatus>>

CallContinues(c) ==
  /\ Continuing(c)
  /\ \/ StepSucceeds(c) \/ StepIsCutShort(c) \/ StepFails(c)
     \/ TriedStepFails(c) \/ ReadContinues(c)
  /\ UNCHANGED <<phase, script, abortRequested, deadlinePassed, callKind, hostAction,
                 result, reported>>

-----------------------------------------------------------------------------
(***************************************************************************)
(* The script's promise settles.  It may swallow every error and return,   *)
(* or throw for a reason of its own.  After a return the facade error, if  *)
(* there is one, still makes the execution fail.                           *)
(***************************************************************************)
ScriptSettles(how) ==
  /\ phase = "running" /\ script = "pending" /\ QueueEmpty
  /\ script' = how
  /\ UNCHANGED <<phase, abortRequested, deadlinePassed, terminalError,
                 lastHostCallError, callPc, callVars, result, reported>>

Completes ==
  /\ phase = "running" /\ script = "returned"
  /\ \A c \in Calls : ~Continuing(c)
  /\ phase' = "returned"
  /\ reported' = lastHostCallError
  /\ IF lastHostCallError # None
     THEN /\ result' = "failed"
          /\ MarkTerminal(lastHostCallError, callPc)
     ELSE /\ result' = "completed"
          /\ UNCHANGED <<terminalError, callPc>>
  /\ UNCHANGED <<script, abortRequested, deadlinePassed, lastHostCallError, callVars>>

(***************************************************************************)
(* The catch block.  The error is fixed, the calls still in flight are     *)
(* aborted, and those found at that moment are waited for, for at most     *)
(* abort_cleanup_timeout_ms.                                               *)
(***************************************************************************)
\* Mutant: the deadline counts as an abort.
SandboxError_DeadlineIsAbort ==
  Coalesce(lastHostCallError,
           IF deadlinePassed THEN "abort" ELSE Coalesce(terminalError, "runtime"))

SandboxError == Coalesce(lastHostCallError, Coalesce(terminalError, "runtime"))

Return(error) ==
  /\ phase' = "returned"
  /\ result' = IF error = "abort" THEN "interrupted" ELSE "failed"

Catches ==
  /\ phase = "running" /\ script \in {"threw", "timed_out"}
  /\ \A c \in Calls : ~Continuing(c)
  /\ reported' = SandboxError
  /\ MarkTerminal(SandboxError, callPc)
  /\ IF ActiveHostCalls = {} THEN Return(SandboxError)
                             ELSE phase' = "cleanup" /\ UNCHANGED result
  /\ UNCHANGED <<script, abortRequested, deadlinePassed, lastHostCallError, callVars>>

\* Mutant: the actions are waited for without a limit.
CleanupEnds_NoLimit ==
  /\ phase = "cleanup" /\ QueueEmpty
  /\ \A c \in Calls : hostAction[c] # "running"
  /\ Return(reported)
  /\ UNCHANGED <<script, abortRequested, deadlinePassed, terminalError,
                 lastHostCallError, callPc, callVars, reported>>

CleanupEnds ==
  /\ phase = "cleanup" /\ QueueEmpty
  /\ Return(reported)
  /\ UNCHANGED <<script, abortRequested, deadlinePassed, terminalError,
                 lastHostCallError, callPc, callVars, reported>>

-----------------------------------------------------------------------------
Prepare == (\E ok \in BOOLEAN : Begin(ok) \/ ScriptStarts(ok)) \/ TranspileFails
Continuations == Completes \/ Catches \/ \E c \in Calls : CallContinues(c)

(* The sandbox has returned; actions left behind may be running. *)
Finished == phase = "returned" /\ UNCHANGED vars

Next ==
  \/ Prepare
  \/ AbortIsRequested
  \/ DeadlinePasses
  \/ TimerFires
  \/ \E c \in Calls : IssueCall(c) \/ \E ok \in BOOLEAN : HostActionEnds(c, ok)
  \/ Continuations
  \/ \E how \in {"returned", "threw"} : ScriptSettles(how)
  \/ CleanupEnds
  \/ Finished

(***************************************************************************)
(* Fairness: the event loop runs what is ready, transpilation and set-up   *)
(* end, time passes and timers fire.  The script and the host's actions    *)
(* may hang.                                                               *)
(***************************************************************************)
Fairness ==
  /\ WF_vars(Prepare) /\ WF_vars(Continuations)
  /\ WF_vars(DeadlinePasses) /\ WF_vars(TimerFires) /\ WF_vars(CleanupEnds)

Spec == Init /\ [][Next]_vars
FairSpec == Spec /\ Fairness

-----------------------------------------------------------------------------
(* The error that is returned is of the class of the first terminal error: *)
(* an abort or a timeout that came first is never reported as a failed     *)
(* host call, nor the other way round, although several calls in flight    *)
(* fail together and the last facade error takes precedence.               *)
ReportedIsFirstClass ==
  result \in {"failed", "interrupted"} /\ reported \notin {"static", "transpile"} =>
    reported = terminalError \/ (reported \in Calls /\ terminalError \in Calls)

(* An execution completes only if no plain call of it has failed on its    *)
(* own by then, whatever the script caught; a failed call was cut short by *)
(* an abort or the deadline.  One that does not complete leaves no action  *)
(* behind that was not told to stop.                                       *)
ReturnIsClean ==
  [][result = "none" /\ result' # "none" =>
       \A c \in Calls :
         IF result' = "completed"
         THEN callKind[c] = "act" /\ stepStatus[c] = "err" =>
                terminalError \in {"abort", "timeout"}
         ELSE hostAction'[c] = "running" =>
                terminalError' # None /\ callPc'[c] # "racing"]_vars

(* Once the execution is doomed no action starts and no step turns "ok".   *)
NothingAfterTerminal ==
  [][terminalError # None =>
       \A c \in Calls :
         /\ hostAction'[c] = "running" => hostAction[c] = "running"
         /\ stepStatus'[c] = "ok" => stepStatus[c] = "ok"]_vars

(* The sandbox returns even when the script and every action hang.         *)
Returns == phase = "preparing" ~> phase = "returned"

(* What the actor relies on.                                               *)
Contract == INSTANCE SandboxContract WITH
  asked <- abortRequested, result <- result, Results <- {"completed", "failed"}
ContractSpec == Contract!Spec
=============================================================================
