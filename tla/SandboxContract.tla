-------------------------- MODULE SandboxContract --------------------------
(***************************************************************************)
(* What the bot actor relies on when it awaits executeRequest: the call    *)
(* settles once, by itself, and "interrupted" is only ever the answer to   *)
(* an abort the actor asked for.  It promises nothing more: an aborted     *)
(* script may still come back "completed".                                 *)
(***************************************************************************)
CONSTANT Results          \* results other than "none" and "interrupted"

VARIABLES asked, result

vars == <<asked, result>>

Init == asked = FALSE /\ result = "none"

Ask == asked' = TRUE /\ UNCHANGED result

Settle ==
  /\ result = "none"
  /\ result' \in Results \cup {"interrupted"}
  /\ result' = "interrupted" => asked
  /\ UNCHANGED asked

Next == Ask \/ Settle

Spec == Init /\ [][Next]_vars /\ WF_vars(Settle)
=============================================================================
