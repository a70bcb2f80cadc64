----------------------------- MODULE MCBotActor -----------------------------
(***************************************************************************)
(* Small instances of BotActor for TLC.  Jobs, replies, reflexes and       *)
(* controls are interchangeable among themselves, so each set of model     *)
(* values is a symmetry set; runs with a liveness property use none.       *)
(***************************************************************************)
EXTENDS BotActor, TLC

ActorSymmetry ==
  Permutations(Jobs) \cup Permutations(Replies)
    \cup Permutations(Reflexes) \cup Permutations(Controls)
=============================================================================
