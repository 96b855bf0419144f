------------------------------- MODULE GpuFit -------------------------------
(***************************************************************************)
(* The memory arithmetic of optima_kaggle/models.py: check_fit, which      *)
(* decides before a download where a model's weights can go, and the cost  *)
(* and search of memory_input_cap.                                         *)
(*                                                                         *)
(* Memory is in whole units, at most three to the GiB, so that a unit is   *)
(* more than the 0.3 GiB that assert_gpu_clean overlooks; a fraction is    *)
(* kept by scaling both sides of a comparison (0.95 is 19/20).  A session  *)
(* has one GPU or two, as on Kaggle.                                       *)
(***************************************************************************)
EXTENDS Integers

CONSTANTS
  NumGpus,       \* torch.cuda.device_count()
  OneGib,        \* units to a GiB
  CpuFree,       \* cpu_free_ram_gib()
  KvPerToken,    \* bytes of KV cache a token takes
  ActPerToken,   \* bytes of activations a prompt token takes in the prefill
  MinOutput,     \* 256: tokens always kept for the reply
  Window,        \* _UNCAPPED_RESERVE_TOKENS
  Bytes          \* bytes to a unit of memory

ASSUME GpuAssumption == NumGpus \in {1, 2} /\ OneGib \in 1..3 /\ CpuFree \in Nat
ASSUME CostAssumption ==
  /\ KvPerToken \in Nat /\ ActPerToken \in Nat
  /\ MinOutput \in Nat /\ Window \in Nat /\ Bytes \in Nat

GPUs == 1..NumGpus

Total(amount) == IF NumGpus = 1 THEN amount[1] ELSE amount[1] + amount[2]

Greater(m, n) == IF m >= n THEN m ELSE n

-----------------------------------------------------------------------------
(***************************************************************************)
(* check_fit.                                                              *)
(***************************************************************************)

\* What is reserved on each GPU, max(1 GiB, headroom / NumGpus), times NumGpus.
Reserved(headroom) == Greater(NumGpus * OneGib, headroom)

\* Mutant: nothing is reserved for the generation.
BudgetUnreserved(free, headroom) == [g \in GPUs |-> 19 * NumGpus * free[g]]

\* What weights may take of each GPU, times 20 * NumGpus.
Budget(free, headroom) ==
  [g \in GPUs |-> Greater(0, 19 * NumGpus * free[g] - 20 * Reserved(headroom))]

\* The first GPU with the most free memory.
BestGpu(free) ==
  CHOOSE g \in GPUs : /\ \A k \in GPUs : free[k] <= free[g]
                      /\ \A k \in GPUs : k < g => free[k] < free[g]

FitsOne(free, headroom, weights) ==
  19 * free[BestGpu(free)] - 20 * headroom - 20 * weights >= 0

FitsShared(free, headroom, weights) ==
  Total(Budget(free, headroom)) >= 20 * NumGpus * weights

FitsWithCpu(free, headroom, weights) ==
  Total(Budget(free, headroom)) + 14 * NumGpus * CpuFree >= 20 * NumGpus * weights

\* FitReport.placement; "none" stands for ModelDoesNotFitError.
Placement(free, spec) ==
  IF FitsOne(free, spec.headroom, spec.weights) /\ ~(spec.preferSharding /\ NumGpus >= 2)
    THEN "single_gpu"
  ELSE IF FitsShared(free, spec.headroom, spec.weights)
    THEN "sharded"
  ELSE IF spec.allowCpuOffload /\ FitsWithCpu(free, spec.headroom, spec.weights)
    THEN "sharded_cpu_offload"
  ELSE "none"

\* What from_pretrained may put on the GPUs when it keeps to device_map and
\* max_memory and the weights are as estimated.
Plans(free, spec) ==
  LET in == Budget(free, spec.headroom)
      within == {a \in [GPUs -> 0..spec.weights] : \A g \in GPUs : 20 * NumGpus * a[g] <= in[g]}
  IN CASE Placement(free, spec) = "single_gpu" ->
            {[g \in GPUs |-> IF g = BestGpu(free) THEN spec.weights ELSE 0]}
       [] Placement(free, spec) = "sharded" ->
            {a \in within : Total(a) = spec.weights}
       [] Placement(free, spec) = "sharded_cpu_offload" ->
            {a \in within : Total(a) <= spec.weights}
       [] OTHER -> {}

\* The check of load_model_safe after loading: a GPU that holds weights keeps
\* what was reserved on it, or the first GPU when none holds any.
HasHeadroom(free, taken, headroom) ==
  LET used == {g \in GPUs : taken[g] > 0}
  IN \A g \in IF used = {} THEN {1} ELSE used : NumGpus * free[g] >= Reserved(headroom)

-----------------------------------------------------------------------------
(***************************************************************************)
(* memory_input_cap.                                                       *)
(***************************************************************************)

Cost(n) ==
  KvPerToken * (n + Greater(MinOutput, Window - n)) + ActPerToken * n + 2 * n * n

\* cost(n) <= 0.8 * room
PromptFits(n, room) == 5 * Cost(n) <= 4 * room * Bytes

\* The least room over the GPUs the model is on: what is free and what the
\* allocator keeps.
Room(free, cached, taken) ==
  LET at == {free[g] + cached[g] : g \in {k \in GPUs : taken[k] > 0}}
      all == {free[1] + cached[1]}
      of  == IF at = {} THEN all ELSE at
  IN CHOOSE r \in of : \A s \in of : r <= s
=============================================================================
