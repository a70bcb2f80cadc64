--------------------------- MODULE MCTaskPipeline ---------------------------
(***************************************************************************)
(* Small instances of TaskPipeline for TLC.  Messages that are not         *)
(* controls are interchangeable, and so are controls.                      *)
(***************************************************************************)
EXTENDS TaskPipeline, TLC

MessageSymmetry == Permutations(Messages \ Controls) \cup Permutations(Controls)
=============================================================================
