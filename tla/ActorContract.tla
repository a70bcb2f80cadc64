--------------------------- MODULE ActorContract ---------------------------
(***************************************************************************)
(* What the task pipeline relies on when it calls the bot actor: a call of *)
(* executeCode is refused at once or holds the bot alone until it is       *)
(* answered, and a call that was told to stop is never answered with       *)
(* "completed" or "failed".  BotActor implements it (BotActor!Contract);   *)
(* TaskPipeline is built from its operators.                               *)
(***************************************************************************)
CONSTANTS
  Messages,  \* a call is named by the message of its job
  None

VARIABLES
  holder,   \* the call that holds the bot, or None
  told,     \* whether it was told to stop
  answer    \* what each call was answered

actorVars == <<holder, told, answer>>

Answers == {"completed", "failed", "raised", "interrupted", "refused"}

(* "raised" is an error of the sandbox request itself. *)
MayAnswer(r) == r \in IF told THEN {"interrupted", "raised"}
                              ELSE {"completed", "failed", "raised"}

ActorInit == holder = None /\ told = FALSE /\ answer = [c \in Messages |-> "none"]

Take(c) ==
  /\ holder = None
  /\ holder' = c /\ told' = FALSE /\ answer' = [answer EXCEPT ![c] = "none"]

Refuse(c) == answer' = [answer EXCEPT ![c] = "refused"] /\ UNCHANGED <<holder, told>>

(* An interrupt: it reaches the call that holds the bot, if there is one. *)
Tell == told' = (holder # None) /\ UNCHANGED <<holder, answer>>

Answer(c, r) ==
  /\ holder = c /\ MayAnswer(r)
  /\ holder' = None /\ told' = FALSE /\ answer' = [answer EXCEPT ![c] = r]

ActorNext ==
  \/ Tell
  \/ \E c \in Messages : Take(c) \/ Refuse(c) \/ \E r \in Answers : Answer(c, r)

ActorSpec == ActorInit /\ [][ActorNext]_actorVars
=============================================================================
