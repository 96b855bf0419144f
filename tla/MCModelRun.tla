----------------------------- MODULE MCModelRun -----------------------------
(* ModelRun on small instances; configurations are interchangeable. *)
EXTENDS ModelRun, TLC

Symmetry == Permutations(Configs)
=============================================================================
