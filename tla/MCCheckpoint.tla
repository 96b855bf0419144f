---------------------------- MODULE MCCheckpoint ----------------------------
(* Checkpoint on small instances; functions and configurations are         *)
(* interchangeable.                                                        *)
EXTENDS Checkpoint, TLC

Symmetry == Permutations(Functions) \cup Permutations(Configs)
=============================================================================
