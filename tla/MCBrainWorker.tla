--------------------------- MODULE MCBrainWorker ---------------------------
(* Small instances of BrainWorker for TLC; lines and the tasks of one fate *)
(* are interchangeable.                                                    *)
EXTENDS BrainWorker, TLC

BrainSymmetry ==
  Permutations(Lines) \cup Permutations(Failed) \cup Permutations(Tasks \ Failed)
=============================================================================
