---------------------------- MODULE MCModelQueue ----------------------------
(***************************************************************************)
(* Instances of ModelQueue for TLC: a model for one GPU, a model for two   *)
(* that is tried twice, and one that no GPU takes without the CPU.         *)
(***************************************************************************)
EXTENDS ModelQueue

MCSpecs ==
  [small |-> [weights |-> 3, headroom |-> 2, preferSharding |-> TRUE,
              allowCpuOffload |-> FALSE, context |-> 9, uncapped |-> TRUE],
   large |-> [weights |-> 6, headroom |-> 3, preferSharding |-> FALSE,
              allowCpuOffload |-> FALSE, context |-> 9, uncapped |-> FALSE],
   huge  |-> [weights |-> 15, headroom |-> 2, preferSharding |-> FALSE,
              allowCpuOffload |-> TRUE, context |-> 9, uncapped |-> FALSE]]

MCQueue == <<"large", "small", "huge", "large">>
=============================================================================
