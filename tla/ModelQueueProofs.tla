-------------------------- MODULE ModelQueueProofs --------------------------
(***************************************************************************)
(* The safety of the model queue, for any models, queue and memory sizes   *)
(* on one GPU or two: what check_fit's arithmetic leaves free, what the    *)
(* turns leave behind on the GPUs and in the manifest, and the answer of   *)
(* memory_input_cap.                                                       *)
(***************************************************************************)
EXTENDS ModelQueue, TLAPS

-----------------------------------------------------------------------------
(***************************************************************************)
(* The arithmetic of GpuFit.                                               *)
(***************************************************************************)

LEMMA OneGpuOrTwo == (NumGpus = 1 /\ GPUs = {1}) \/ (NumGpus = 2 /\ GPUs = {1, 2})
BY GpuAssumption DEF GPUs

LEMMA BestGpuIsBest ==
  ASSUME NEW free \in [GPUs -> Int]
  PROVE  BestGpu(free) \in GPUs /\ \A k \in GPUs : free[k] <= free[BestGpu(free)]
<1> DEFINE Best(g) == /\ \A k \in GPUs : free[k] <= free[g]
                      /\ \A k \in GPUs : k < g => free[k] < free[g]
<1>1. \E g \in GPUs : Best(g)
  <2>1. CASE GPUs = {1}
    <3>1. Best(1)
      BY <2>1
    <3> QED BY <2>1, <3>1
  <2>2. CASE GPUs = {1, 2}
    <3>1. free[1] \in Int /\ free[2] \in Int
      BY <2>2
    <3>2. CASE free[1] >= free[2]
      <4>1. Best(1)
        BY <2>2, <3>1, <3>2
      <4> QED BY <2>2, <4>1
    <3>3. CASE free[1] < free[2]
      <4>1. Best(2)
        BY <2>2, <3>1, <3>3
      <4> QED BY <2>2, <4>1
    <3> QED BY <3>1, <3>2, <3>3
  <2> QED BY <2>1, <2>2, OneGpuOrTwo
<1>2. BestGpu(free) = CHOOSE g \in GPUs : Best(g)
  BY DEF BestGpu
<1>3. BestGpu(free) \in GPUs /\ Best(BestGpu(free))
  BY <1>1, <1>2
<1> QED BY <1>3

\* What is reserved on each GPU comes to the headroom at least.
LEMMA ReservedIsEnough ==
  ASSUME NEW h \in Nat
  PROVE  /\ Reserved(h) \in Nat /\ Reserved(h) >= h /\ Reserved(h) >= NumGpus * OneGib
         /\ h >= OneGib => Reserved(h) <= NumGpus * h
BY OneGpuOrTwo, GpuAssumption DEF Reserved, Greater

\* check_fit: a plan leaves free on every GPU it uses what was reserved there,
\* whichever of the placements was chosen (models.py:925-975).
THEOREM PlansLeaveRoom ==
  ASSUME NEW free \in [GPUs -> Int], NEW m \in Models,
         NEW plan \in Plans(free, Specs[m])
  PROVE  /\ plan \in [GPUs -> Nat]
         /\ \A g \in GPUs :
              plan[g] > 0 => NumGpus * (free[g] - plan[g]) >= Reserved(Specs[m].headroom)
<1> DEFINE h == Specs[m].headroom
           w == Specs[m].weights
           in == Budget(free, h)
           within == {a \in [GPUs -> 0..w] : \A g \in GPUs : 20 * NumGpus * a[g] <= in[g]}
<1>1. h \in Nat /\ w \in Nat /\ h >= OneGib
  BY SpecsAssumption, HeadroomAssumption
<1>2. ASSUME NEW g \in GPUs PROVE free[g] \in Int
  OBVIOUS
<1>3. /\ Reserved(h) \in Nat /\ Reserved(h) <= NumGpus * h
  BY <1>1, ReservedIsEnough
<1>4. CASE Placement(free, Specs[m]) = "single_gpu"
  <2> DEFINE b == BestGpu(free)
  <2>1. plan = [g \in GPUs |-> IF g = b THEN w ELSE 0]
    BY <1>4 DEF Plans
  <2>2. 19 * free[b] - 20 * h - 20 * w >= 0
    BY <1>4 DEF Placement, FitsOne
  <2>3. b \in GPUs /\ free[b] \in Int
    BY BestGpuIsBest
  <2>4. free[b] - w >= h
    BY <1>1, <2>2, <2>3
  <2>5. NumGpus * (free[b] - w) >= NumGpus * h
    BY <1>1, <2>3, <2>4, OneGpuOrTwo
  <2>6. plan \in [GPUs -> Nat]
    BY <1>1, <2>1
  <2>7. ASSUME NEW g \in GPUs, plan[g] > 0
        PROVE  NumGpus * (free[g] - plan[g]) >= Reserved(h)
    <3>1. g = b /\ plan[g] = w
      BY <2>1, <2>7
    <3> QED BY <1>1, <1>3, <2>3, <2>5, <3>1, OneGpuOrTwo
  <2> QED BY <2>6, <2>7
<1>5. CASE plan \in within
  <2>1. plan \in [GPUs -> Nat]
    BY <1>1, <1>5
  <2>2. ASSUME NEW g \in GPUs, plan[g] > 0
        PROVE  NumGpus * (free[g] - plan[g]) >= Reserved(h)
    <3>1. 20 * NumGpus * plan[g] <= Greater(0, 19 * NumGpus * free[g] - 20 * Reserved(h))
      BY <1>5 DEF Budget
    <3>2. plan[g] \in Nat /\ free[g] \in Int
      BY <1>2, <2>1
    <3>3. 20 * NumGpus * plan[g] <= 19 * NumGpus * free[g] - 20 * Reserved(h)
      BY <1>3, <2>2, <3>1, <3>2, OneGpuOrTwo DEF Greater
    <3> QED BY <1>3, <2>2, <3>2, <3>3, OneGpuOrTwo
  <2> QED BY <2>1, <2>2
<1>6. Placement(free, Specs[m]) = "single_gpu" \/ plan \in within
  BY DEF Plans
<1> QED BY <1>4, <1>5, <1>6

\* check_fit: preferring to shard never refuses a model that one GPU takes
\* (models.py:938-966).
THEOREM ShardingTakesWhatOneGpuTakes ==
  ASSUME NEW free \in [GPUs -> Int], NEW m \in Models,
         FitsOne(free, Specs[m].headroom, Specs[m].weights)
  PROVE  FitsShared(free, Specs[m].headroom, Specs[m].weights)
<1> DEFINE h == Specs[m].headroom
           w == Specs[m].weights
           b == BestGpu(free)
           in == Budget(free, h)
<1>1. h \in Nat /\ w \in Nat /\ h >= OneGib
  BY SpecsAssumption, HeadroomAssumption
<1>2. b \in GPUs /\ free[b] \in Int
  BY BestGpuIsBest
<1>3. /\ Reserved(h) \in Nat /\ Reserved(h) <= NumGpus * h
  BY <1>1, ReservedIsEnough
<1>4. 19 * free[b] - 20 * h - 20 * w >= 0
  BY DEF FitsOne
<1>5. in[b] \in Nat /\ in[b] >= 20 * NumGpus * w
  <2>1. in[b] = Greater(0, 19 * NumGpus * free[b] - 20 * Reserved(h))
    BY <1>2 DEF Budget
  <2> QED BY <1>1, <1>2, <1>3, <1>4, <2>1, OneGpuOrTwo DEF Greater
<1>6. \A g \in GPUs : in[g] \in Nat
  BY <1>3, OneGpuOrTwo DEF Budget, Greater
<1>7. Total(in) >= in[b]
  BY <1>2, <1>6, OneGpuOrTwo DEF Total
<1>8. Total(in) \in Nat
  BY <1>6, OneGpuOrTwo DEF Total
<1> QED BY <1>1, <1>5, <1>7, <1>8, OneGpuOrTwo DEF FitsShared

-----------------------------------------------------------------------------
(***************************************************************************)
(* The arithmetic of memory_input_cap.                                     *)
(***************************************************************************)

LEMMA ProductMonotone ==
  ASSUME NEW a \in Nat, NEW m \in Nat, NEW n \in Nat, m <= n
  PROVE  a * m <= a * n /\ a * m \in Nat /\ a * n \in Nat
<1>1. n - m \in Nat /\ a * (n - m) \in Nat /\ a * m \in Nat /\ a * n \in Nat
  OBVIOUS
<1>2. a * (n - m) = a * n - a * m
  OBVIOUS
<1> QED BY <1>1, <1>2

\* A longer prompt never costs less: what it takes of the window was reserved
\* for the reply before.
LEMMA CostMonotone ==
  ASSUME NEW m \in Nat, NEW n \in Nat, m <= n
  PROVE  Cost(m) <= Cost(n) /\ Cost(m) \in Nat /\ Cost(n) \in Nat
<1> DEFINE Span(k) == k + Greater(MinOutput, Window - k)
<1>1. Span(m) \in Nat /\ Span(n) \in Nat /\ Span(m) <= Span(n)
  BY CostAssumption DEF Greater
<1>2. KvPerToken * Span(m) <= KvPerToken * Span(n)
      /\ KvPerToken * Span(m) \in Nat /\ KvPerToken * Span(n) \in Nat
  <2> HIDE DEF Span
  <2> QED BY <1>1, CostAssumption, ProductMonotone
<1>3. ActPerToken * m <= ActPerToken * n /\ ActPerToken * m \in Nat /\ ActPerToken * n \in Nat
  BY CostAssumption, ProductMonotone
<1>4. m * m <= n * n /\ m * m \in Nat /\ n * n \in Nat
  <2>1. m * m <= m * n /\ n * m <= n * n
    BY ProductMonotone
  <2> QED BY <2>1
<1>5. /\ Cost(m) = KvPerToken * Span(m) + ActPerToken * m + 2 * (m * m)
      /\ Cost(n) = KvPerToken * Span(n) + ActPerToken * n + 2 * (n * n)
  BY <1>2, <1>3, <1>4 DEF Cost
<1> HIDE DEF Span
<1> QED BY <1>2, <1>3, <1>4, <1>5

LEMMA LeastOfTwo ==
  ASSUME NEW S, S # {}, NEW x \in Int, NEW y \in Int, S \subseteq {x, y}
  PROVE  \E r \in S : \A s \in S : r <= s
<1>1. CASE S = {x}
  BY <1>1
<1>2. CASE S = {y}
  BY <1>2
<1>3. CASE S = {x, y} /\ x <= y
  <2>1. x \in S /\ \A s \in S : x <= s
    BY <1>3
  <2> QED BY <2>1
<1>4. CASE S = {x, y} /\ y <= x
  <2>1. y \in S /\ \A s \in S : y <= s
    BY <1>4
  <2> QED BY <2>1
<1>5. S = {x} \/ S = {y} \/ S = {x, y}
  OBVIOUS
<1> QED BY <1>1, <1>2, <1>3, <1>4, <1>5

LEMMA RoomIsInt ==
  ASSUME NEW free \in [GPUs -> Int], NEW idle \in [GPUs -> Int], NEW on \in [GPUs -> Int]
  PROVE  Room(free, idle, on) \in Int
<1> DEFINE at == {free[g] + idle[g] : g \in {k \in GPUs : on[k] > 0}}
           all == {free[1] + idle[1]}
           of == IF at = {} THEN all ELSE at
<1>1. of # {} /\ of \subseteq {free[g] + idle[g] : g \in GPUs}
  BY OneGpuOrTwo
<1>2. \E r \in of : \A s \in of : r <= s
  <2>1. CASE GPUs = {1}
    <3>1. free[1] + idle[1] \in Int /\ of \subseteq {free[1] + idle[1], free[1] + idle[1]}
      BY <1>1, <2>1
    <3> HIDE DEF of
    <3> QED BY <1>1, <3>1, LeastOfTwo
  <2>2. CASE GPUs = {1, 2}
    <3>1. /\ free[1] + idle[1] \in Int /\ free[2] + idle[2] \in Int
          /\ of \subseteq {free[1] + idle[1], free[2] + idle[2]}
      BY <1>1, <2>2
    <3> HIDE DEF of
    <3> QED BY <1>1, <3>1, LeastOfTwo
  <2> QED BY <2>1, <2>2, OneGpuOrTwo
<1>3. Room(free, idle, on) = CHOOSE r \in of : \A s \in of : r <= s
  BY DEF Room
<1>4. Room(free, idle, on) \in of
  BY <1>2, <1>3
<1>5. PICK g \in GPUs : Room(free, idle, on) = free[g] + idle[g]
  BY <1>1, <1>4
<1> QED BY <1>5

\* What does not fit does not fit when it is longer.
LEMMA FitsMonotone ==
  ASSUME NEW room \in Int, NEW m \in Nat, NEW n \in Nat, m <= n, PromptFits(n, room)
  PROVE  PromptFits(m, room)
<1>1. 4 * room * Bytes \in Int
  BY CostAssumption
<1> QED BY <1>1, CostMonotone DEF PromptFits

-----------------------------------------------------------------------------
(***************************************************************************)
(* The inductive invariant.                                                *)
(***************************************************************************)

\* A turn is under way, who has the handle, and that an interrupt ends the queue.
Turns ==
  /\ pc \notin {"next", "returned", "raised"} => pos \in 1..Len(Queue)
  /\ pc \in {"gates", "search", "enrich"} => handle
  /\ pc \in {"next", "fit", "loaded", "returned"} => ~handle
  /\ interrupted => pc \in {"finally", "raised"}
  /\ interrupted /\ pc = "finally" => raising

\* What the current model holds is its own: without a handle, and not between
\* the load and the handle, it holds nothing, unless an interrupt came there.
Holding ==
  /\ \A g \in GPUs : taken[g] <= held[g]
  /\ resident = IF taken = Zero THEN {} ELSE {pos}
  /\ ~handle /\ pc \notin {"loaded", "raised"} /\ ~interrupted => taken = Zero

\* The turns whose result and status are in.
Told(i) ==
  \/ /\ i < pos
     /\ pc = "failed" => Queue[i] # Slug
  \/ /\ i = pos
     /\ pc \in {"finally", "next", "returned"}

\* The ledger is behind the truth in the except clause, and of a turn that was
\* interrupted; a status that could not be written ends the queue.
Ledger ==
  /\ unwritable => raising
  /\ raising => pc \in {"finally", "raised"} /\ (stop \/ unwritable \/ interrupted)
  /\ pc = "failed" => outcome = [manifest EXCEPT ![Slug] = "failed"]
  /\ ~unwritable /\ interrupted =>
       \A m \in Models : m # Slug => manifest[m] = outcome[m]
  /\ ~unwritable /\ ~interrupted =>
       /\ pc # "failed" => manifest = outcome
       /\ \A i \in 1..Len(Queue) : Told(i) => results[Queue[i]] = manifest[Queue[i]]
  /\ pc = "raised" => raising \/ held # Zero \/ interrupted
  /\ pc = "returned" => pos = Len(Queue)

\* Idle memory of the allocator is a failed load's, or the current model's.
Idle == ~spoilt /\ ~handle /\ pc # "loaded" /\ ~interrupted => cached = Zero

\* The binary search keeps the longest fitting prompt between its ends.
Searching ==
  pc = "search" =>
    /\ Model.uncapped
    /\ Budgeted(Floor) =>
         /\ Budgeted(lo)
         /\ \A n \in (hi + 1)..Model.context : ~Budgeted(n)
    /\ ~Budgeted(Floor) => lo = Floor

IInv ==
  /\ TypeOK
  /\ Turns
  /\ Holding
  /\ Ledger
  /\ Idle
  /\ ShortOnlyWhenHeavier
  /\ Searching
  /\ CapIsLongest

LEMMA StepCases ==
  ASSUME [Next]_vars
  PROVE  \/ UNCHANGED vars
         \/ NextModel \/ Return \/ FailEarly \/ Refuse
         \/ \E part \in {Zero} \cup Plans(Free, Model), outOfMemory \in BOOLEAN :
              LoadFails(part, outOfMemory)
         \/ \E plan \in Plans(Free, Model), extra \in [GPUs -> 0..Extra],
               temporary \in [GPUs -> 0..Temporary] : Load(plan, extra, temporary)
         \/ VerifyFails \/ HeadroomShort \/ Loaded
         \/ GatesPass \/ Narrow \/ Capped \/ EnrichPasses
         \/ \E b \in BOOLEAN : WorkFails(b)
         \/ Except \/ ExceptFails \/ FinallyNoHandle
         \/ \E stale \in BOOLEAN : Unload(stale)
         \/ \E b \in BOOLEAN : Interrupt(b)
         \/ InterruptBetween
BY DEF Next, LoadModel, Work

LEMMA SlugIsModel ==
  ASSUME TypeOK, pos \in 1..Len(Queue)
  PROVE  Slug \in Models /\ Model = Specs[Slug] /\ Model.context \in Nat
BY QueueAssumption, SpecsAssumption DEF Slug, Model

LEMMA FreeIsInt == TypeOK => Free \in [GPUs -> Int]
BY QueueAssumption DEF TypeOK, Free

LEMMA InitIInv == Init => IInv
<1> SUFFICES ASSUME Init PROVE IInv
  OBVIOUS
<1>1. TypeOK
  <2>1. held \in [GPUs -> Nat] /\ taken \in [GPUs -> Nat] /\ cached \in [GPUs -> Nat]
    BY GpuAssumption DEF Init, Zero
  <2>2. /\ manifest \in [Models -> Statuses] /\ results \in [Models -> Statuses]
        /\ outcome \in [Models -> Statuses]
    BY DEF Init, Statuses
  <2>3. pos \in 0..Len(Queue)
    BY QueueAssumption DEF Init
  <2> QED BY <2>1, <2>2, <2>3 DEF Init, TypeOK
<1>2. Turns /\ Ledger /\ Idle /\ Searching /\ ShortOnlyWhenHeavier /\ CapIsLongest
  <2>1. \A i \in 1..Len(Queue) : ~(i < pos) /\ i # pos
    BY DEF Init
  <2> QED BY <2>1 DEF Init, Turns, Ledger, Told, Idle, Searching, ShortOnlyWhenHeavier, CapIsLongest
<1>3. Holding
  <2>1. \A g \in GPUs : held[g] \in Nat /\ taken[g] = 0
    BY <1>1 DEF Init, TypeOK, Zero
  <2> QED BY <2>1 DEF Init, Holding
<1> QED BY <1>1, <1>2, <1>3 DEF IInv

\* The parts that are the same throughout a step that leaves the GPUs alone.
LEMMA DropReleases ==
  ASSUME TypeOK, Holding, Drop
  PROVE  /\ held' \in [GPUs -> Nat] /\ taken' = Zero /\ cached' = Zero
         /\ \A g \in GPUs : taken'[g] <= held'[g]
         /\ resident' = {}
<1>1. held' \in [GPUs -> Nat]
  BY DEF TypeOK, Holding, Drop
<1>2. taken' = Zero /\ cached' = Zero /\ resident' = {}
  BY DEF Holding, Drop
<1>3. \A g \in GPUs : taken'[g] <= held'[g]
  BY <1>1, <1>2 DEF Zero
<1> QED BY <1>1, <1>2, <1>3

LEMMA LoadTakes ==
  ASSUME IInv, NEW plan \in Plans(Free, Model), NEW extra \in [GPUs -> 0..Extra],
         NEW temporary \in [GPUs -> 0..Temporary], Load(plan, extra, temporary)
  PROVE  /\ plan \in [GPUs -> Nat]
         /\ taken' \in [GPUs -> Nat] /\ held' \in [GPUs -> Nat] /\ cached' \in [GPUs -> Nat]
         /\ \A g \in GPUs : taken'[g] <= held'[g]
         /\ Free \in [GPUs -> Int] /\ Free' \in [GPUs -> Int]
         /\ \A g \in GPUs : Free'[g] + cached'[g] >= Free[g] - taken'[g]
         /\ \A g \in GPUs :
              plan[g] > 0 => NumGpus * (Free[g] - plan[g]) >= Reserved(Model.headroom)
<1>1. pos \in 1..Len(Queue) /\ Slug \in Models /\ Model = Specs[Slug] /\ TypeOK
  BY SlugIsModel DEF IInv, Load, Turns
<1>2. Free \in [GPUs -> Int]
  BY <1>1, FreeIsInt
<1>3. /\ plan \in [GPUs -> Nat]
      /\ \A g \in GPUs :
           plan[g] > 0 => NumGpus * (Free[g] - plan[g]) >= Reserved(Model.headroom)
  BY <1>1, <1>2, PlansLeaveRoom
<1>4. taken' \in [GPUs -> Nat]
  BY <1>3, QueueAssumption DEF Load
<1>5. held' \in [GPUs -> Nat] /\ \A g \in GPUs : taken'[g] <= held'[g]
  <2>1. held' = [g \in GPUs |-> held[g] + taken'[g]] /\ held \in [GPUs -> Nat]
    BY <1>1 DEF Load, TypeOK
  <2>2. \A g \in GPUs : held[g] \in Nat /\ taken'[g] \in Nat
    BY <1>4, <2>1
  <2>3. held' \in [GPUs -> Nat]
    BY <2>1, <2>2
  <2>4. \A g \in GPUs : held'[g] = held[g] + taken'[g]
    BY <2>1
  <2> QED BY <2>2, <2>3, <2>4
<1>6. cached' \in [GPUs -> Nat]
  <2>1. \A g \in GPUs : cached[g] \in Nat /\ taken'[g] \in Nat /\ temporary[g] \in Nat
    BY <1>1, <1>4, QueueAssumption DEF TypeOK
  <2>2. cached' = [g \in GPUs |-> Minus(cached[g], taken'[g]) + temporary[g]]
    BY DEF Load
  <2>3. \A g \in GPUs : Minus(cached[g], taken'[g]) + temporary[g] \in Nat
    BY <2>1 DEF Minus
  <2> QED BY <2>2, <2>3
<1>7. Free' \in [GPUs -> Int]
  BY <1>5, <1>6, QueueAssumption DEF Free
<1>8. ASSUME NEW g \in GPUs PROVE Free'[g] + cached'[g] >= Free[g] - taken'[g]
  <2>1. /\ held'[g] = held[g] + taken'[g]
        /\ Free'[g] = Capacity - held'[g] - cached'[g]
        /\ Free[g] = Capacity - held[g] - cached[g]
    BY DEF Load, Free
  <2>2. held[g] \in Nat /\ cached[g] \in Nat /\ taken'[g] \in Nat /\ cached'[g] \in Nat
    BY <1>1, <1>4, <1>6 DEF TypeOK
  <2>3. held'[g] \in Nat /\ Free'[g] \in Int
    BY <1>5, <1>7
  <2>4. Free'[g] + cached'[g] = Capacity - held'[g]
    BY <2>1, <2>2, <2>3, QueueAssumption
  <2> QED BY <2>1, <2>2, <2>4, QueueAssumption
<1> QED BY <1>2, <1>3, <1>4, <1>5, <1>6, <1>7, <1>8

LEMMA TypeStep == IInv /\ [Next]_vars => TypeOK'
<1> SUFFICES ASSUME IInv, [Next]_vars PROVE TypeOK'
  OBVIOUS
<1>t. TypeOK /\ Holding /\ Turns
  BY DEF IInv
<1> USE DEF memory, record, search
<1>1. CASE UNCHANGED vars
  BY <1>t, <1>1 DEF TypeOK, vars
<1>2. CASE NextModel
  <2>1. pos' \in 0..Len(Queue)
    BY <1>t, <1>2, QueueAssumption DEF NextModel, TypeOK
  <2> QED BY <1>t, <1>2, <2>1 DEF NextModel, TypeOK
<1>3. CASE Return \/ Loaded \/ FinallyNoHandle
  BY <1>t, <1>3 DEF Return, Loaded, FinallyNoHandle, LeavesBody, TypeOK
<1>4. ASSUME NEW b \in BOOLEAN, WorkFails(b) PROVE TypeOK'
  <2>1. outcome' \in [Models -> Statuses] /\ pc' = "failed"
    BY <1>t, <1>4 DEF WorkFails, Raises, TypeOK, Statuses
  <2>2. manifest' \in [Models -> Statuses]
    BY <1>t, <1>4 DEF WorkFails, Incomplete, TypeOK, Statuses
  <2> QED BY <1>t, <1>4, <2>1, <2>2 DEF WorkFails, TypeOK
<1>5. ASSUME NEW part \in {Zero} \cup Plans(Free, Model), NEW outOfMemory \in BOOLEAN,
             LoadFails(part, outOfMemory)
      PROVE  TypeOK'
  <2>1. pos \in 1..Len(Queue) /\ Slug \in Models /\ Model = Specs[Slug]
    BY <1>t, <1>5, SlugIsModel DEF LoadFails, Turns
  <2>2. part \in [GPUs -> Nat]
    BY <1>t, <2>1, FreeIsInt, PlansLeaveRoom DEF Zero
  <2>3. cached' \in [GPUs -> Nat]
    BY <1>t, <1>5, <2>2 DEF LoadFails, TypeOK, Greater
  <2>4. outcome' \in [Models -> Statuses] /\ pc' = "failed"
    BY <1>t, <1>5 DEF LoadFails, Raises, TypeOK, Statuses
  <2> QED BY <1>t, <1>5, <2>3, <2>4 DEF LoadFails, TypeOK
<1>6. ASSUME NEW plan \in Plans(Free, Model), NEW extra \in [GPUs -> 0..Extra],
             NEW temporary \in [GPUs -> 0..Temporary], Load(plan, extra, temporary)
      PROVE  TypeOK'
  <2>1. /\ taken' \in [GPUs -> Nat] /\ held' \in [GPUs -> Nat] /\ cached' \in [GPUs -> Nat]
    BY <1>6, LoadTakes
  <2>2. pos \in 1..Len(Queue)
    BY <1>t, <1>6 DEF Load, Turns
  <2>3. resident' \subseteq 1..Len(Queue)
    BY <1>t, <1>6, <2>2 DEF Load, TypeOK
  <2> QED BY <1>t, <1>6, <2>1, <2>3 DEF Load, TypeOK
<1>7. CASE VerifyFails \/ HeadroomShort
  <2>1. /\ held' \in [GPUs -> Nat] /\ taken' = Zero /\ cached' = Zero /\ resident' = {}
    BY <1>t, <1>7, DropReleases DEF VerifyFails, HeadroomShort
  <2>2. Zero \in [GPUs -> Nat]
    BY DEF Zero
  <2>3. outcome' \in [Models -> Statuses] /\ pc' = "failed"
    BY <1>t, <1>7 DEF VerifyFails, HeadroomShort, Raises, TypeOK, Statuses
  <2>4. spoilt' = FALSE
    BY <1>7 DEF VerifyFails, HeadroomShort, Drop
  <2> QED BY <1>t, <1>7, <2>1, <2>2, <2>3, <2>4 DEF VerifyFails, HeadroomShort, TypeOK
<1>8. CASE GatesPass
  <2>1. Floor \in Nat /\ Model.context \in Nat
    BY <1>t, <1>8, SlugIsModel, QueueAssumption DEF GatesPass, Turns
  <2> QED BY <1>t, <1>8, <2>1 DEF GatesPass, TypeOK
<1>9. CASE Narrow
  <2>1. lo' \in Nat /\ hi' \in Nat
    BY <1>t, <1>9 DEF Narrow, TypeOK
  <2> QED BY <1>t, <1>9, <2>1 DEF Narrow, TypeOK
<1>10. CASE Capped
  BY <1>t, <1>10 DEF Capped, TypeOK
<1>11. CASE EnrichPasses
  <2>1. /\ manifest' \in [Models -> Statuses] /\ results' \in [Models -> Statuses]
        /\ outcome' \in [Models -> Statuses]
    BY <1>t, <1>11 DEF EnrichPasses, TypeOK, Statuses
  <2> QED BY <1>t, <1>11, <2>1 DEF EnrichPasses, TypeOK
<1>12. CASE Except \/ ExceptFails
  <2>1. manifest' \in [Models -> Statuses] /\ results' \in [Models -> Statuses]
    BY <1>t, <1>12 DEF Except, ExceptFails, TypeOK, Statuses
  <2>2. raising' \in BOOLEAN /\ pinned' \in BOOLEAN
    BY <1>t, <1>12 DEF Except, ExceptFails, Forget, TypeOK
  <2> QED BY <1>t, <1>12, <2>1, <2>2 DEF Except, ExceptFails, TypeOK
<1>13. ASSUME NEW stale \in BOOLEAN, Unload(stale) PROVE TypeOK'
  <2>1. Zero \in [GPUs -> Nat]
    BY DEF Zero
  <2>2. /\ held' \in [GPUs -> Nat] /\ taken' \in [GPUs -> Nat] /\ cached' \in [GPUs -> Nat]
        /\ resident' \subseteq 1..Len(Queue) /\ spoilt' = FALSE
    <3>1. CASE Drop
      BY <1>t, <2>1, <3>1, DropReleases DEF Drop
    <3>2. CASE cached' = Zero /\ spoilt' = FALSE /\ UNCHANGED <<held, taken, resident>>
      BY <1>t, <2>1, <3>2 DEF TypeOK
    <3> QED BY <1>13, <3>1, <3>2 DEF Unload
  <2>3. pc' \in {"next", "raised"}
    BY <1>13 DEF Unload, LeavesBody
  <2> QED BY <1>t, <1>13, <2>2, <2>3 DEF Unload, TypeOK
<1>14. CASE FailEarly \/ Refuse
  <2>1. outcome' = [outcome EXCEPT ![Slug] = "failed"] /\ pc' = "failed"
    BY <1>14 DEF FailEarly, Refuse, Raises
  <2>2. outcome' \in [Models -> Statuses]
    BY <1>t, <2>1 DEF TypeOK, Statuses
  <2> QED BY <1>t, <1>14, <2>1, <2>2 DEF FailEarly, Refuse, TypeOK
<1>15. ASSUME NEW b \in BOOLEAN, Interrupt(b) PROVE TypeOK'
  <2>1. manifest' \in [Models -> Statuses]
    BY <1>t, <1>15 DEF Interrupt, Incomplete, TypeOK, Statuses
  <2>2. /\ pinned' \in BOOLEAN /\ unwritable' \in BOOLEAN
        /\ raising' = TRUE /\ interrupted' = TRUE
    <3>1. pinned' \in BOOLEAN
      BY <1>t, <1>15, Zenon DEF Interrupt, TypeOK
    <3> QED BY <1>t, <1>15, <3>1 DEF Interrupt, TypeOK
  <2> QED BY <1>t, <1>15, <2>1, <2>2 DEF Interrupt, TypeOK
<1>16. CASE InterruptBetween
  BY <1>t, <1>16 DEF InterruptBetween, TypeOK
<1> QED BY <1>1, <1>2, <1>3, <1>4, <1>5, <1>6, <1>7, <1>8, <1>9, <1>10, <1>11, <1>12, <1>13,
           <1>14, <1>15, <1>16, StepCases

\* The steps that touch neither the GPUs nor the handle within a turn.
Quiet ==
  \/ FailEarly \/ Refuse \/ GatesPass \/ Narrow \/ Capped \/ EnrichPasses
  \/ \E b \in BOOLEAN : WorkFails(b)
  \/ Except \/ ExceptFails
  \/ \E part \in {Zero} \cup Plans(Free, Model), outOfMemory \in BOOLEAN :
       LoadFails(part, outOfMemory)

LEMMA QuietKeeps ==
  ASSUME Quiet
  PROVE  /\ UNCHANGED <<stop, pos, held, taken, resident, handle>>
         /\ pc \in {"fit", "gates", "search", "enrich", "failed"}
         /\ pc' \in {"search", "enrich", "failed", "finally"}
         /\ pc = "fit" => pc' = "failed"
         /\ UNCHANGED interrupted
BY DEF Quiet, FailEarly, Refuse, LoadFails, GatesPass, Narrow, Capped, EnrichPasses, WorkFails,
       Except, ExceptFails, Raises, memory, record, search

LEMMA HoldingStep == IInv /\ [Next]_vars => Turns' /\ Holding'
<1> SUFFICES ASSUME IInv, [Next]_vars PROVE Turns' /\ Holding'
  OBVIOUS
<1>t. TypeOK /\ Holding /\ Turns
  BY DEF IInv
<1> USE DEF memory, record, search
<1>1. CASE UNCHANGED vars
  BY <1>t, <1>1 DEF Turns, Holding, vars
<1>2. CASE NextModel
  <2>1. pos' \in 1..Len(Queue)
    BY <1>t, <1>2, QueueAssumption DEF NextModel, TypeOK
  <2>2. taken = Zero /\ taken' = Zero /\ held' = held /\ resident' = resident
    BY <1>t, <1>2 DEF NextModel, Turns, Holding
  <2>3. pc' = "fit" /\ ~handle' /\ ~interrupted'
    BY <1>t, <1>2 DEF NextModel, Turns
  <2> QED BY <1>t, <2>1, <2>2, <2>3 DEF Turns, Holding
<1>3. CASE Quiet
  <2>1. /\ UNCHANGED <<stop, pos, held, taken, resident, handle>>
        /\ pc \in {"fit", "gates", "search", "enrich", "failed"}
        /\ pc' \in {"search", "enrich", "failed", "finally"}
        /\ pc = "fit" => pc' = "failed"
        /\ UNCHANGED interrupted
    BY <1>3, QuietKeeps
  <2>2. pc' \in {"search", "enrich"} => handle
    BY <1>t, <1>3 DEF Quiet, FailEarly, Refuse, LoadFails, GatesPass, Narrow, Capped,
                      EnrichPasses, WorkFails, Except, ExceptFails, Raises, Turns
  <2> QED BY <1>t, <2>1, <2>2 DEF Turns, Holding
<1>4. CASE Return \/ Loaded \/ FinallyNoHandle
  BY <1>t, <1>4 DEF Return, Loaded, FinallyNoHandle, LeavesBody, Turns, Holding
<1>5. ASSUME NEW plan \in Plans(Free, Model), NEW extra \in [GPUs -> 0..Extra],
             NEW temporary \in [GPUs -> 0..Temporary], Load(plan, extra, temporary)
      PROVE  Turns' /\ Holding'
  <2>1. \A g \in GPUs : taken'[g] <= held'[g]
    BY <1>5, LoadTakes
  <2>2. pos \in 1..Len(Queue) /\ taken = Zero /\ resident = {} /\ ~handle
    BY <1>t, <1>5 DEF Load, Turns, Holding
  <2>3. resident' = IF taken' = Zero THEN {} ELSE {pos}
    BY <1>5, <2>2 DEF Load
  <2>4. pc' = "loaded" /\ pos' = pos /\ handle' = handle /\ Zero' = Zero /\ ~interrupted'
    BY <1>t, <1>5 DEF Load, Zero, Turns
  <2> QED BY <2>1, <2>2, <2>3, <2>4 DEF Turns, Holding
<1>6. CASE VerifyFails \/ HeadroomShort
  <2>1. taken' = Zero /\ resident' = {} /\ \A g \in GPUs : taken'[g] <= held'[g]
    BY <1>t, <1>6, DropReleases DEF VerifyFails, HeadroomShort
  <2>2. pc' = "failed" /\ pos' = pos /\ handle' = handle /\ ~interrupted'
    BY <1>t, <1>6 DEF VerifyFails, HeadroomShort, Raises, Turns
  <2>3. pos \in 1..Len(Queue)
    BY <1>t, <1>6 DEF VerifyFails, HeadroomShort, Turns
  <2> QED BY <2>1, <2>2, <2>3 DEF Turns, Holding
<1>7. ASSUME NEW stale \in BOOLEAN, Unload(stale) PROVE Turns' /\ Holding'
  <2>1. ~handle' /\ pos' = pos
    BY <1>7 DEF Unload
  <2>2. interrupted' /\ pc' = "next" => FALSE
    BY <1>t, <1>7 DEF Unload, LeavesBody, Turns
  <2>3. CASE Drop
    <3>1. taken' = Zero /\ resident' = {} /\ \A g \in GPUs : taken'[g] <= held'[g]
      BY <1>t, <2>3, DropReleases
    <3>2. pc' \in {"next", "raised"}
      BY <1>7 DEF Unload, LeavesBody
    <3> QED BY <2>1, <2>2, <3>1, <3>2 DEF Turns, Holding
  <2>4. CASE UNCHANGED <<held, taken, resident>>
    <3>1. pc' = "next" => taken = Zero
      <4>1. SUFFICES ASSUME pc' = "next" PROVE taken = Zero
        OBVIOUS
      <4>2. held = Zero
        BY <1>7, <2>4, <4>1 DEF Unload
      <4>3. \A g \in GPUs : taken[g] = 0
        BY <1>t, <4>2 DEF TypeOK, Holding, Zero
      <4> QED BY <1>t, <4>3 DEF TypeOK, Zero
    <3>2. pc' \in {"next", "raised"}
      BY <1>7 DEF Unload, LeavesBody
    <3> QED BY <1>t, <2>1, <2>2, <2>4, <3>1, <3>2 DEF Turns, Holding
  <2> QED BY <1>7, <2>3, <2>4 DEF Unload
<1>8. CASE InterruptBetween \/ \E b \in BOOLEAN : Interrupt(b)
  <2>1. /\ UNCHANGED <<held, taken, resident, handle, pos>> /\ interrupted' = TRUE
        /\ pc' \in {"finally", "raised"}
        /\ pc' = "finally" => raising' = TRUE /\ pc \notin {"next", "returned", "raised"}
    BY <1>8 DEF Interrupt, InterruptBetween
  <2> QED BY <1>t, <2>1 DEF Turns, Holding
<1> QED BY <1>1, <1>2, <1>3, <1>4, <1>5, <1>6, <1>7, <1>8, StepCases DEF Quiet

LEMMA IdleStep == IInv /\ [Next]_vars => Idle'
<1> SUFFICES ASSUME IInv, [Next]_vars PROVE Idle'
  OBVIOUS
<1>t. TypeOK /\ Idle
  BY DEF IInv
<1> USE DEF memory, record, search
<1>1. CASE /\ UNCHANGED <<cached, spoilt>>
           /\ handle => handle'
           /\ interrupted => interrupted'
           /\ pc = "loaded" => pc' = "loaded" \/ handle' \/ interrupted'
  BY <1>t, <1>1 DEF Idle, Zero
<1>2. CASE spoilt' \/ pc' = "loaded" \/ cached' = Zero
  BY <1>2 DEF Idle, Zero
<1>3. CASE UNCHANGED vars
  BY <1>1, <1>3 DEF vars
<1>4. CASE \/ NextModel \/ Return \/ FailEarly \/ Refuse \/ Loaded \/ Except
           \/ ExceptFails \/ FinallyNoHandle \/ InterruptBetween
  BY <1>1, <1>4 DEF NextModel, Return, FailEarly, Refuse, Loaded, Except, ExceptFails,
     FinallyNoHandle, InterruptBetween
<1>5. CASE \/ GatesPass \/ Narrow \/ Capped \/ EnrichPasses
           \/ \E b \in BOOLEAN : WorkFails(b)
           \/ \E b \in BOOLEAN : Interrupt(b)
  BY <1>1, <1>5 DEF GatesPass, Narrow, Capped, EnrichPasses, WorkFails, Interrupt
<1>6. CASE \/ VerifyFails \/ HeadroomShort
           \/ \E part \in {Zero} \cup Plans(Free, Model), outOfMemory \in BOOLEAN :
                LoadFails(part, outOfMemory)
           \/ \E plan \in Plans(Free, Model), extra \in [GPUs -> 0..Extra],
                 temporary \in [GPUs -> 0..Temporary] : Load(plan, extra, temporary)
           \/ \E stale \in BOOLEAN : Unload(stale)
  BY <1>2, <1>6 DEF VerifyFails, HeadroomShort, LoadFails, Load, Unload, Drop
<1> QED BY <1>3, <1>4, <1>5, <1>6, StepCases

\* The weights are loaded as planned, unless they are heavier than estimated.
LEMMA FitStep == IInv /\ [Next]_vars => ShortOnlyWhenHeavier'
<1> SUFFICES ASSUME IInv, [Next]_vars PROVE ShortOnlyWhenHeavier'
  OBVIOUS
<1>t. TypeOK /\ Holding /\ Turns /\ ShortOnlyWhenHeavier
  BY DEF IInv
<1> USE DEF memory, record, search
<1>1. CASE UNCHANGED vars
  BY <1>t, <1>1 DEF vars, ShortOnlyWhenHeavier, Free, Model, Slug
<1>2. ASSUME NEW plan \in Plans(Free, Model), NEW extra \in [GPUs -> 0..Extra],
             NEW temporary \in [GPUs -> 0..Temporary], Load(plan, extra, temporary)
      PROVE  ShortOnlyWhenHeavier'
  <2>1. /\ plan \in [GPUs -> Nat] /\ taken' \in [GPUs -> Nat]
        /\ Free \in [GPUs -> Int] /\ Free' \in [GPUs -> Int]
        /\ \A g \in GPUs : Free'[g] + cached'[g] >= Free[g] - taken'[g]
        /\ cached' \in [GPUs -> Nat]
        /\ \A g \in GPUs :
             plan[g] > 0 => NumGpus * (Free[g] - plan[g]) >= Reserved(Model.headroom)
    BY <1>2, LoadTakes
  <2>2. pos \in 1..Len(Queue) /\ Slug \in Models /\ Model = Specs[Slug]
    BY <1>t, <1>2, SlugIsModel DEF Load, Turns
  <2>3. Model.weights \in Nat \ {0} /\ Model.headroom \in Nat
    BY <2>2, SpecsAssumption
  <2> DEFINE Left == [g \in GPUs |-> Free'[g] + cached'[g]]
  <2>4. Slug' = Slug /\ Model' = Model
    BY <1>2 DEF Load, Slug, Model
  <2>5. SUFFICES ASSUME ~(Total(taken') > Model.weights), ~Model.allowCpuOffload
                 PROVE  HasHeadroom(Left, taken', Model.headroom)
    BY <2>4 DEF ShortOnlyWhenHeavier
  <2>6. Total(plan) = Model.weights
    <3>1. Placement(Free, Model) \in {"single_gpu", "sharded"}
      BY <2>5 DEF Placement, Plans
    <3>2. CASE Placement(Free, Model) = "sharded"
      BY <3>2 DEF Plans
    <3>3. CASE Placement(Free, Model) = "single_gpu"
      <4>1. plan = [g \in GPUs |-> IF g = BestGpu(Free) THEN Model.weights ELSE 0]
        BY <3>3 DEF Plans
      <4>2. BestGpu(Free) \in GPUs
        BY <2>1, BestGpuIsBest
      <4> QED BY <2>3, <4>1, <4>2, OneGpuOrTwo DEF Total
    <3> QED BY <3>1, <3>2, <3>3
  <2>7. \A g \in GPUs : taken'[g] = plan[g] + extra[g] /\ extra[g] \in Nat /\ plan[g] \in Nat
    BY <1>2, <2>1, QueueAssumption DEF Load
  <2>8. \A g \in GPUs : extra[g] = 0
    <3>1. Total(taken') <= Model.weights
      <4>1. Total(taken') \in Nat
        BY <2>1, OneGpuOrTwo DEF Total
      <4> QED BY <2>3, <2>5, <4>1
    <3> QED BY <2>6, <2>7, <3>1, OneGpuOrTwo DEF Total
  <2>9. ASSUME NEW g \in GPUs, taken'[g] > 0
        PROVE  NumGpus * Left[g] >= Reserved(Model.headroom)
    <3>1. taken'[g] = plan[g] /\ plan[g] > 0
      BY <2>7, <2>8, <2>9
    <3>2. /\ Left[g] >= Free[g] - plan[g]
          /\ NumGpus * (Free[g] - plan[g]) >= Reserved(Model.headroom)
      BY <2>1, <3>1
    <3>3. /\ Left[g] \in Int /\ Free[g] \in Int /\ plan[g] \in Nat
          /\ Reserved(Model.headroom) \in Nat
      BY <2>1, <2>3, ReservedIsEnough
    <3> HIDE DEF Left
    <3> QED BY <3>2, <3>3, OneGpuOrTwo
  <2>10. {g \in GPUs : taken'[g] > 0} # {}
    <3>1. \A g \in GPUs : taken'[g] = plan[g] /\ plan[g] \in Nat
      BY <2>7, <2>8
    <3>2. \E g \in GPUs : plan[g] > 0
      BY <2>3, <2>6, <3>1, OneGpuOrTwo DEF Total
    <3> QED BY <3>1, <3>2
  <2> HIDE DEF Left
  <2> QED BY <2>9, <2>10 DEF HasHeadroom
<1>3. CASE pc' # "loaded"
  BY <1>3 DEF ShortOnlyWhenHeavier
<1>4. \/ UNCHANGED vars \/ pc' # "loaded"
      \/ \E plan \in Plans(Free, Model), extra \in [GPUs -> 0..Extra],
            temporary \in [GPUs -> 0..Temporary] : Load(plan, extra, temporary)
  BY StepCases DEF NextModel, Return, FailEarly, Refuse, LoadFails, VerifyFails, HeadroomShort,
     Loaded, GatesPass, Narrow, Capped, EnrichPasses, WorkFails, Except, ExceptFails,
     FinallyNoHandle, Unload, Interrupt, InterruptBetween, Raises, LeavesBody
<1> QED BY <1>1, <1>2, <1>3, <1>4

\* The body of a turn raises: from here to the except clause the manifest lacks
\* this one status.
LEMMA RaisingKeepsLedger ==
  ASSUME TypeOK, Ledger, pc \in {"fit", "loaded", "gates", "enrich"}, ~interrupted, Raises,
         \/ UNCHANGED manifest
         \/ manifest' = [manifest EXCEPT ![Slug] = "enrichment_incomplete"],
         UNCHANGED <<stop, pos, raising, results, unwritable, interrupted>>
  PROVE  Ledger'
<1>1. ~raising /\ ~unwritable /\ manifest = outcome /\ manifest \in [Models -> Statuses]
  BY DEF Ledger, TypeOK
<1>2. outcome' = [outcome EXCEPT ![Slug] = "failed"] /\ pc' = "failed" /\ Slug' = Slug
  BY DEF Raises, Slug
<1>3. outcome' = [manifest' EXCEPT ![Slug] = "failed"]
  BY <1>1, <1>2
<1>4. ASSUME NEW i \in 1..Len(Queue), Told(i)' PROVE results'[Queue[i]] = manifest'[Queue[i]]
  <2>1. i < pos /\ Queue[i] # Slug
    BY <1>2, <1>4 DEF Told
  <2>2. results[Queue[i]] = manifest[Queue[i]]
    BY <1>1, <2>1 DEF Ledger, Told
  <2>3. Queue[i] \in Models
    BY QueueAssumption
  <2> QED BY <1>1, <2>1, <2>2, <2>3
<1>5. ~raising' /\ ~unwritable' /\ ~interrupted'
  BY <1>1
<1> QED BY <1>2, <1>3, <1>4, <1>5 DEF Ledger

\* A status is written: the rest of the queue keeps its entries.
LEMMA WritingKeepsLedger ==
  ASSUME TypeOK, Ledger, pos \in 1..Len(Queue), ~unwritable, ~interrupted,
         NEW status \in Statuses,
         manifest' = [manifest EXCEPT ![Slug] = status],
         results' = [results EXCEPT ![Slug] = status],
         outcome' = manifest',
         pc' = "finally", raising' => stop,
         UNCHANGED <<stop, pos, unwritable, interrupted>>
  PROVE  Ledger'
<1>1. manifest \in [Models -> Statuses] /\ results \in [Models -> Statuses]
  BY DEF TypeOK
<1>2. ASSUME NEW i \in 1..Len(Queue), Told(i)' PROVE results'[Queue[i]] = manifest'[Queue[i]]
  <2>1. Queue[i] \in Models
    BY QueueAssumption
  <2>2. CASE Queue[i] = Slug
    BY <1>1, <2>1, <2>2
  <2>3. CASE Queue[i] # Slug
    <3>1. i < pos
      BY <1>2, <2>3 DEF Told, Slug
    <3>2. results[Queue[i]] = manifest[Queue[i]]
      BY <2>3, <3>1 DEF Ledger, Told
    <3> QED BY <1>1, <2>1, <2>3, <3>2
  <2> QED BY <2>2, <2>3
<1> QED BY <1>2 DEF Ledger

\* A step within a turn that writes nothing.
LEMMA QuietKeepsLedger ==
  ASSUME Ledger, pc \in {"fit", "loaded", "gates", "search"},
         pc' \in {"loaded", "gates", "search", "enrich"},
         UNCHANGED <<stop, pos, raising, record>>
  PROVE  Ledger'
<1> USE DEF record
<1>1. ASSUME NEW i \in 1..Len(Queue), Told(i)' PROVE Told(i)
  BY <1>1 DEF Told
<1>2. ~raising' /\ ~unwritable'
  BY DEF Ledger
<1>3. Slug' = Slug
  BY DEF Slug
<1> QED BY <1>1, <1>2, <1>3 DEF Ledger

LEMMA LedgerStep == IInv /\ [Next]_vars => Ledger'
<1> SUFFICES ASSUME IInv, [Next]_vars PROVE Ledger'
  OBVIOUS
<1>t. TypeOK /\ Turns /\ Ledger /\ TypeOK'
  BY TypeStep DEF IInv
<1> USE DEF memory, record, search
<1>1. CASE UNCHANGED vars
  BY <1>t, <1>1 DEF Ledger, Told, vars, Zero, Slug
<1>2. CASE NextModel
  <2>1. /\ ~raising /\ ~unwritable /\ ~interrupted /\ pos' = pos + 1 /\ pos \in Nat
        /\ pc = "next" /\ pc' = "fit" /\ UNCHANGED <<stop, raising, record>>
    BY <1>t, <1>2 DEF NextModel, Ledger, TypeOK, Turns
  <2>2. ASSUME NEW i \in 1..Len(Queue), Told(i)' PROVE results'[Queue[i]] = manifest'[Queue[i]]
    <3>1. i < pos \/ i = pos
      BY <2>1, <2>2 DEF Told
    <3> QED BY <1>t, <2>1, <3>1 DEF Ledger, Told
  <2>3. ~raising' /\ ~unwritable' /\ ~interrupted' /\ manifest' = outcome'
    BY <1>t, <2>1 DEF Ledger
  <2> QED BY <2>1, <2>2, <2>3 DEF Ledger
<1>3. CASE Return
  <2>1. pos = Len(Queue) /\ pc = "next" /\ pc' = "returned"
        /\ UNCHANGED <<stop, pos, raising, record, held>>
    BY <1>3 DEF Return
  <2>2. ASSUME NEW i \in 1..Len(Queue), Told(i)' PROVE Told(i)
    BY <2>1, <2>2 DEF Told
  <2>3. Slug' = Slug
    BY <2>1 DEF Slug
  <2>4. Zero' = Zero /\ pc' # "raised"
    BY <2>1 DEF Zero
  <2> QED BY <1>t, <2>1, <2>2, <2>3, <2>4 DEF Ledger
<1>4. CASE \/ FailEarly \/ Refuse \/ VerifyFails \/ HeadroomShort
           \/ \E part \in {Zero} \cup Plans(Free, Model), outOfMemory \in BOOLEAN :
                LoadFails(part, outOfMemory)
  <2>1. /\ pc \in {"fit", "loaded"} /\ Raises
        /\ UNCHANGED <<stop, pos, raising, manifest, results, unwritable, interrupted>>
    BY <1>4 DEF FailEarly, Refuse, VerifyFails, HeadroomShort, LoadFails
  <2>2. ~interrupted
    BY <1>t, <2>1 DEF Turns
  <2> QED BY <1>t, <2>1, <2>2, RaisingKeepsLedger
<1>5. CASE \/ Loaded \/ GatesPass \/ Narrow \/ Capped
           \/ \E plan \in Plans(Free, Model), extra \in [GPUs -> 0..Extra],
                 temporary \in [GPUs -> 0..Temporary] : Load(plan, extra, temporary)
  <2>1. /\ pc \in {"fit", "loaded", "gates", "search"}
        /\ pc' \in {"loaded", "gates", "search", "enrich"}
        /\ UNCHANGED <<stop, pos, raising, record>>
    BY <1>5 DEF Loaded, GatesPass, Narrow, Capped, Load
  <2> QED BY <1>t, <2>1, QuietKeepsLedger
<1>6. CASE EnrichPasses
  <2>1. ~raising /\ ~unwritable /\ ~interrupted /\ manifest = outcome /\ pos \in 1..Len(Queue)
    BY <1>t, <1>6 DEF EnrichPasses, Ledger, Turns
  <2>2. /\ manifest' = [manifest EXCEPT ![Slug] = "enrichment_passed"]
        /\ results' = [results EXCEPT ![Slug] = "enrichment_passed"]
        /\ outcome' = manifest' /\ pc' = "finally"
        /\ UNCHANGED <<stop, pos, raising, unwritable, interrupted>>
    BY <1>6, <2>1 DEF EnrichPasses
  <2>3. "enrichment_passed" \in Statuses
    BY DEF Statuses
  <2> QED BY <1>t, <2>1, <2>2, <2>3, WritingKeepsLedger
<1>7. CASE Except
  <2>1. ~raising /\ ~unwritable /\ ~interrupted /\ pos \in 1..Len(Queue)
    BY <1>t, <1>7 DEF Except, Ledger, Turns
  <2>2. /\ manifest' = [manifest EXCEPT ![Slug] = "failed"]
        /\ results' = [results EXCEPT ![Slug] = "failed"]
        /\ outcome' = manifest' /\ pc' = "finally" /\ raising' = stop
        /\ UNCHANGED <<stop, pos, unwritable, interrupted>>
    BY <1>t, <1>7 DEF Except, Forget, Ledger
  <2>3. "failed" \in Statuses
    BY DEF Statuses
  <2> QED BY <1>t, <2>1, <2>2, <2>3, WritingKeepsLedger
<1>8. CASE ExceptFails
  BY <1>t, <1>8 DEF ExceptFails, Ledger
<1>9. CASE FinallyNoHandle
  <2>1. /\ pc = "finally" /\ pc' = IF raising THEN "raised" ELSE "next"
        /\ UNCHANGED <<stop, pos, raising, record, held>>
    BY <1>9 DEF FinallyNoHandle, LeavesBody
  <2>2. ASSUME NEW i \in 1..Len(Queue), Told(i)' PROVE Told(i)
    BY <2>1, <2>2 DEF Told
  <2>3. Slug' = Slug
    BY <2>1 DEF Slug
  <2> QED BY <1>t, <2>1, <2>2, <2>3 DEF Ledger
<1>10. ASSUME NEW stale \in BOOLEAN, Unload(stale) PROVE Ledger'
  <2>1. /\ pc = "finally" /\ pc' \in {"raised", "next"}
        /\ pc' = "raised" => raising \/ held' # Zero
        /\ pc' = "next" => ~raising
        /\ UNCHANGED <<stop, pos, raising, record>>
    BY <1>10 DEF Unload, LeavesBody
  <2>2. Zero' = Zero /\ Slug' = Slug
    BY <2>1 DEF Zero, Slug
  <2>3. ASSUME NEW i \in 1..Len(Queue), Told(i)' PROVE Told(i)
    BY <2>1, <2>3 DEF Told
  <2> QED BY <1>t, <2>1, <2>2, <2>3 DEF Ledger
<1>11. ASSUME NEW b \in BOOLEAN, WorkFails(b) PROVE Ledger'
  <2>1. /\ pc \in {"gates", "enrich"} /\ Raises
        /\ UNCHANGED <<stop, pos, raising, results, unwritable, interrupted>>
    BY <1>11 DEF WorkFails
  <2>2. \/ UNCHANGED manifest
        \/ manifest' = [manifest EXCEPT ![Slug] = "enrichment_incomplete"]
    BY <1>11 DEF WorkFails, Incomplete
  <2>3. ~interrupted
    BY <1>t, <2>1 DEF Turns
  <2> QED BY <1>t, <2>1, <2>2, <2>3, RaisingKeepsLedger
<1>12. ASSUME NEW b \in BOOLEAN, Interrupt(b) PROVE Ledger'
  <2>1. /\ pc \in {"fit", "loaded", "gates", "search", "enrich", "failed"}
        /\ pc' = "finally" /\ raising' = TRUE /\ interrupted' = TRUE
        /\ UNCHANGED <<stop, pos, results, outcome>>
    BY <1>12 DEF Interrupt
  <2>2. ~interrupted /\ ~unwritable /\ pos \in 1..Len(Queue) /\ Slug' = Slug
    BY <1>t, <2>1 DEF Turns, Ledger, Slug
  <2>3. \A m \in Models : m # Slug => manifest'[m] = manifest[m]
    BY <1>t, <1>12 DEF Interrupt, Incomplete, TypeOK
  <2>4. \A m \in Models : m # Slug => manifest[m] = outcome[m]
    BY <1>t, <2>1, <2>2 DEF Ledger, TypeOK
  <2> QED BY <2>1, <2>2, <2>3, <2>4 DEF Ledger
<1>13. CASE InterruptBetween
  <2>1. /\ pc \in {"next", "finally"} /\ pc' = "raised" /\ interrupted' = TRUE
        /\ UNCHANGED <<stop, pos, raising, manifest, results, outcome, unwritable>>
    BY <1>13 DEF InterruptBetween
  <2>2. Slug' = Slug
    BY <2>1 DEF Slug
  <2>3. ~unwritable => \A m \in Models : m # Slug => manifest[m] = outcome[m]
    BY <1>t, <2>1 DEF Ledger
  <2> QED BY <1>t, <2>1, <2>2, <2>3 DEF Ledger
<1> QED BY <1>1, <1>2, <1>3, <1>4, <1>5, <1>6, <1>7, <1>8, <1>9, <1>10, <1>11, <1>12, <1>13,
           StepCases

LEMMA BudgetedMonotone ==
  ASSUME TypeOK, NEW m \in Nat, NEW n \in Nat, m <= n, Budgeted(n)
  PROVE  Budgeted(m)
<1>1. Free \in [GPUs -> Int] /\ cached \in [GPUs -> Int] /\ taken \in [GPUs -> Int]
  BY FreeIsInt DEF TypeOK
<1>2. Room(Free, cached, taken) \in Int
  BY <1>1, RoomIsInt
<1> QED BY <1>2, FitsMonotone DEF Budgeted

LEMMA SearchStep == IInv /\ [Next]_vars => Searching' /\ CapIsLongest'
<1> SUFFICES ASSUME IInv, [Next]_vars PROVE Searching' /\ CapIsLongest'
  OBVIOUS
<1>t. TypeOK /\ Turns /\ Searching /\ CapIsLongest
  BY DEF IInv
<1> USE DEF memory, record, search
<1>1. CASE UNCHANGED vars
  <2>1. Model' = Model /\ \A n : Budgeted(n)' = Budgeted(n)
    BY <1>1 DEF vars, Model, Slug, Budgeted, Free
  <2>2. lo' = lo /\ hi' = hi /\ pc' = pc
    BY <1>1 DEF vars
  <2> QED BY <1>t, <2>1, <2>2 DEF Searching, CapIsLongest
<1>2. CASE GatesPass \/ Narrow \/ Capped
  <2>1. Model' = Model /\ \A n : Budgeted(n)' = Budgeted(n)
    BY <1>2 DEF GatesPass, Narrow, Capped, Model, Slug, Budgeted, Free
  <2>2. pos \in 1..Len(Queue) /\ Model.context \in Nat /\ Floor \in Nat
    BY <1>t, <1>2, SlugIsModel, QueueAssumption DEF GatesPass, Narrow, Capped, Turns
  <2>3. lo \in Nat /\ hi \in Nat
    BY <1>t DEF TypeOK
  <2>4. CASE GatesPass
    <3>1. CASE Model.uncapped
      <4>1. pc' = "search" /\ lo' = Floor /\ hi' = Model.context
        BY <2>4, <3>1 DEF GatesPass
      <4>2. (hi' + 1)..Model.context = {}
        BY <2>2, <4>1
      <4> QED BY <2>1, <3>1, <4>1, <4>2 DEF Searching, CapIsLongest
    <3>2. CASE ~Model.uncapped
      <4>1. pc' = "enrich"
        BY <2>4, <3>2 DEF GatesPass
      <4> QED BY <2>1, <3>2, <4>1 DEF Searching, CapIsLongest
    <3> QED BY <3>1, <3>2
  <2>5. CASE Narrow
    <3> DEFINE mid == (lo + hi + 1) \div 2
    <3>1. /\ pc = "search" /\ pc' = "search" /\ Budgeted(Floor) /\ lo < hi
          /\ IF Budgeted(mid) THEN lo' = mid /\ hi' = hi ELSE hi' = mid - 1 /\ lo' = lo
      BY <2>5 DEF Narrow
    <3>2. mid \in Nat /\ lo < mid /\ mid <= hi
      BY <2>3, <3>1
    <3> HIDE DEF mid
    <3>3. Budgeted(lo')
      BY <1>t, <3>1 DEF Searching
    <3>4. ASSUME NEW n \in (hi' + 1)..Model.context PROVE ~Budgeted(n)
      <4>1. CASE Budgeted(mid)
        BY <1>t, <3>1, <3>4, <4>1 DEF Searching
      <4>2. CASE ~Budgeted(mid)
        <5>1. n \in Nat /\ mid <= n
          BY <2>2, <3>1, <3>2, <3>4, <4>2
        <5> QED BY <1>t, <3>2, <4>2, <5>1, BudgetedMonotone
      <4> QED BY <4>1, <4>2
    <3>5. Model.uncapped
      BY <1>t, <3>1 DEF Searching
    <3> QED BY <2>1, <3>1, <3>3, <3>4, <3>5 DEF Searching, CapIsLongest
  <2>6. CASE Capped
    <3>1. pc = "search" /\ pc' = "enrich" /\ lo' = lo /\ (lo >= hi \/ ~Budgeted(Floor))
      BY <2>6 DEF Capped
    <3>2. CASE Budgeted(Floor)
      <4>1. Budgeted(lo) /\ \A n \in (hi + 1)..Model.context : ~Budgeted(n)
        BY <1>t, <3>1, <3>2 DEF Searching
      <4>2. \A n \in (lo + 1)..Model.context : n \in (hi + 1)..Model.context
        BY <2>2, <2>3, <3>1, <3>2
      <4> QED BY <2>1, <3>1, <4>1, <4>2 DEF Searching, CapIsLongest
    <3>3. CASE ~Budgeted(Floor)
      <4>1. lo = Floor
        BY <1>t, <3>1, <3>3 DEF Searching
      <4>2. \A n \in Floor..Model.context : ~Budgeted(n)
        BY <1>t, <2>2, <3>3, BudgetedMonotone
      <4> QED BY <2>1, <3>1, <4>1, <4>2 DEF Searching, CapIsLongest
    <3> QED BY <3>2, <3>3
  <2> QED BY <1>2, <2>4, <2>5, <2>6
<1>3. CASE pc' \notin {"search", "enrich"}
  BY <1>3 DEF Searching, CapIsLongest
<1>4. UNCHANGED vars \/ GatesPass \/ Narrow \/ Capped \/ pc' \notin {"search", "enrich"}
  BY StepCases DEF NextModel, Return, FailEarly, Refuse, LoadFails, Load, VerifyFails,
     HeadroomShort, Loaded, EnrichPasses, WorkFails, Except, ExceptFails, FinallyNoHandle, Unload,
     Interrupt, InterruptBetween, Raises, LeavesBody
<1> QED BY <1>1, <1>2, <1>3, <1>4

-----------------------------------------------------------------------------
(***************************************************************************)
(* The theorems.                                                           *)
(***************************************************************************)

LEMMA SpecIInv == Spec => []IInv
<1>1. IInv /\ [Next]_vars => IInv'
  BY TypeStep, HoldingStep, LedgerStep, IdleStep, FitStep, SearchStep DEF IInv
<1> QED BY InitIInv, <1>1, PTL DEF Spec

\* Every variable of the queue keeps its type.
THEOREM QueueTypeOK == Spec => []TypeOK
<1>1. IInv => TypeOK
  BY DEF IInv
<1> QED BY SpecIInv, <1>1, PTL

\* run_model_queue never has two models on the GPUs, and a queue that goes on
\* or returns has none.
THEOREM QueueOneResident == Spec => []OneResident
<1>1. IInv => OneResident
  BY DEF IInv, Holding, Turns, OneResident
<1> QED BY SpecIInv, <1>1, PTL

\* Whether the queue returns or raises, the manifest tells how each model's turn
\* ended; an interrupt leaves in doubt only the model whose turn it ended, since
\* except Exception (enrichment.py:1113) lets it pass.
THEOREM QueueAccounted == Spec => []Accounted
<1>1. ASSUME IInv PROVE Accounted
  <2>1. ASSUME pc \in {"next", "returned", "raised"}, ~unwritable, NEW m \in Models,
               ~(interrupted /\ m = Slug)
        PROVE  manifest[m] = outcome[m]
    <3>1. CASE interrupted
      BY <1>1, <2>1, <3>1 DEF IInv, Ledger
    <3>2. CASE ~interrupted
      BY <1>1, <2>1, <3>2 DEF IInv, Ledger
    <3> QED BY <3>1, <3>2
  <2>2. ASSUME pc = "returned", NEW i \in DOMAIN Queue
        PROVE  results[Queue[i]] = manifest[Queue[i]]
    <3>1. i \in 1..Len(Queue) /\ Len(Queue) \in Nat
      BY QueueAssumption
    <3>2. ~unwritable /\ ~interrupted /\ pos = Len(Queue)
      BY <1>1, <2>2 DEF IInv, Ledger, Turns
    <3>3. i < pos \/ i = pos
      BY <3>1, <3>2
    <3>4. Told(i)
      BY <2>2, <3>3 DEF Told
    <3> QED BY <1>1, <3>1, <3>2, <3>4 DEF IInv, Ledger
  <2> QED BY <2>1, <2>2 DEF Accounted
<1> QED BY SpecIInv, <1>1, PTL

\* A failed model ends the queue only when asked to, when memory could not be
\* released, the status not be written, or the user interrupts it.
THEOREM QueueIsolatesFailures == Spec => []IsolatesFailures
<1>1. IInv => IsolatesFailures
  BY DEF IInv, Ledger, IsolatesFailures
<1> QED BY SpecIInv, <1>1, PTL

\* A model as heavy as estimated, and wholly on the GPUs, is found to leave too
\* little for the generation only for the memory that loading it has left with
\* the allocator, which models.py:1205 does not count as free.
THEOREM QueueShortOnlyWhenHeavier == Spec => []ShortOnlyWhenHeavier
<1>1. IInv => ShortOnlyWhenHeavier
  BY DEF IInv
<1> QED BY SpecIInv, <1>1, PTL

\* The binary search of memory_input_cap answers the longest prompt that fits.
THEOREM QueueCapIsLongest == Spec => []CapIsLongest
<1>1. IInv => CapIsLongest
  BY DEF IInv
<1> QED BY SpecIInv, <1>1, PTL

\* check_fit refuses no model for what a released one had.
THEOREM QueueRefusedOnlyAfterFailure == Spec => RefusedOnlyAfterFailure
<1> DEFINE A == Refuse => \/ Placement([g \in GPUs |-> Capacity], Model) = "none"
                          \/ held # Zero
                          \/ spoilt
<1>1. ASSUME IInv PROVE A
  <2>1. SUFFICES ASSUME Refuse, held = Zero, ~spoilt
                 PROVE  Placement([g \in GPUs |-> Capacity], Model) = "none"
    OBVIOUS
  <2>2. cached = Zero
    BY <1>1, <2>1 DEF IInv, Idle, Turns, Refuse
  <2>3. Free = [g \in GPUs |-> Capacity]
    <3>1. \A g \in GPUs : Capacity - held[g] - cached[g] = Capacity
      BY <2>1, <2>2, QueueAssumption DEF Zero
    <3> QED BY <3>1 DEF Free
  <2> QED BY <2>1, <2>3 DEF Refuse
<1>2. IInv => [A]_vars
  BY <1>1
<1> HIDE DEF A
<1>3. Spec => [][A]_vars
  BY SpecIInv, <1>2, PTL
<1> QED BY <1>3 DEF RefusedOnlyAfterFailure, A
=============================================================================
