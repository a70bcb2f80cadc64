----------------------------- MODULE TaskResult -----------------------------
(***************************************************************************)
(* What is kept of an execution (workers/task-result-summary,              *)
(* core-ports/task-result.ts): the status BotWorker records, and the       *)
(* failure capsule a later plan reads.                                     *)
(*                                                                         *)
(* An execution x is a record: end, how it came back (a sandbox result     *)
(* that is "completed", "failed" or "interrupted", or an error that was    *)
(* "raised" or says that the task was "cancelled"); report, the goal the   *)
(* code reported last ("none", "reached" or "missed"); proof, what the     *)
(* last good step returned ("toolchain" or "skill" data, a skill's with    *)
(* fields missing, "partial", or "none"); code and act, the code and the   *)
(* action of the failure, if there is one.                                 *)
(***************************************************************************)
CONSTANT None

Recoverable ==
  {"missing_materials", "missing_item", "not_equipped", "resource_not_found",
   "missing_crafting_table", "missing_crafting_table_item", "crafting_table_required",
   "crafting_table_unavailable", "inventory_full", "unsafe_path", "unreachable_target",
   "drop_not_obtained", "condition_not_met"}

ImplementationBlockers ==
  {"unsupported_capability", "runtime_adapter_error", "runtime_mine_failed",
   "runtime_craft_failed", "runtime_equip_failed", "place_failed", "cannot_place",
   "unknown_completion", "world_mismatch", "invalid_runtime_object", "protocol_error",
   "plugin_unavailable"}

RecoveryClass(code) ==
  CASE code \in Recoverable            -> "recoverable"
    [] code \in ImplementationBlockers -> "implementation_blocker"
    [] OTHER                           -> "unknown"

(* A report of the goal outranks the way the execution ended; without one  *)
(* an execution is complete only when its last good step proves it.        *)
Reported(x) == x.end \notin {"raised", "cancelled"} /\ x.report # "none"

GoalStatus(x) == IF x.report = "reached" THEN "completed" ELSE "failed"

Proved(x) == x.proof \in {"toolchain", "skill"}

Unproved(x) == x.end = "completed" /\ ~Reported(x) /\ ~Proved(x)

SummaryStatus(x) ==
  CASE x.end = "raised"    -> "failed"
    [] x.end = "cancelled" -> "interrupted"
    [] Reported(x)         -> GoalStatus(x)
    [] OTHER               -> IF Unproved(x) THEN "failed" ELSE x.end

(* The status of the task: its own end, unless it came back completed and  *)
(* the summary disagrees.                                                  *)
TaskStatus(x) ==
  CASE x.end \in {"failed", "raised"}         -> "failed"
    [] x.end \in {"interrupted", "cancelled"} -> "interrupted"
    [] OTHER -> IF SummaryStatus(x) = "completed" THEN "completed" ELSE "failed"

(* The code of a failure, and the action not to be repeated as it was.  An *)
(* error that was raised, and a result without a skill, name an action     *)
(* that no plan contains.                                                  *)
FailureCode(x) == IF Unproved(x) THEN "unknown_completion" ELSE x.code

RetryAction(x) ==
  IF x.end = "raised" \/ (Unproved(x) /\ x.proof = "none") THEN None ELSE x.act

Capsule(x) ==
  IF SummaryStatus(x) # "failed" THEN None
  ELSE [code |-> FailureCode(x), act |-> RetryAction(x)]
=============================================================================
