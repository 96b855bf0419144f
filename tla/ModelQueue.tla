----------------------------- MODULE ModelQueue -----------------------------
(***************************************************************************)
(* run_model_queue (optima_kaggle/enrichment.py): the models of a queue,   *)
(* one after the other, are checked against the GPUs' memory, loaded,      *)
(* gated, enriched with and unloaded; with load_model_safe, unload_model   *)
(* and assert_gpu_clean it hands the same GPUs from model to model.        *)
(*                                                                         *)
(* Of each GPU the model keeps the memory that live tensors hold and the   *)
(* memory that the allocator has from the driver and no tensor uses: only  *)
(* _cleanup_gpu gives the latter back, and check_fit takes neither for     *)
(* free.  What happens in the gates and the enrichment is ModelRun's.      *)
(***************************************************************************)
EXTENDS GpuFit, Sequences

CONSTANTS
  Specs,           \* ModelSpec and weight estimate of each model
  Queue,           \* the slugs, in order
  Capacity,        \* memory of a GPU
  Extra,           \* bound: what real weights may exceed the estimate by
  Temporary,       \* bound: what loading may leave with the allocator of a GPU
  Floor            \* 512: memory_input_cap never answers less

Models == DOMAIN Specs

ASSUME QueueAssumption ==
  /\ Queue \in Seq(Models)
  /\ Capacity \in Nat /\ Extra \in Nat /\ Temporary \in Nat /\ Floor \in Nat
ASSUME SpecsAssumption ==
  Specs \in [Models -> [weights: Nat \ {0}, headroom: Nat, preferSharding: BOOLEAN,
                        allowCpuOffload: BOOLEAN, context: Nat, uncapped: BOOLEAN]]

\* required_headroom_gib never answers less than 1.3 GiB.
ASSUME HeadroomAssumption == \A m \in Models : Specs[m].headroom >= OneGib

VARIABLES
  stop,       \* the argument stop_on_failure
  pos,        \* how many models have been taken from the queue
  pc,         \* where the loop body stands
  held,       \* live tensors on each GPU
  taken,      \* the part of them that is the current model's
  resident,   \* the turns of the queue whose models are on a GPU
  cached,     \* memory the allocator keeps on each GPU
  handle,     \* handle is not None
  pinned,     \* something besides the handle refers to the current model
  raising,    \* an exception is leaving the loop body
  manifest,   \* run_manifest.json: the status of each model
  results,    \* results, by model
  outcome,    \* observer: how the last turn of each model really ended
  unwritable, \* observer: set_model_status raised, or was cut short
  interrupted,\* observer: the user has interrupted the queue
  spoilt,     \* observer: a load has failed since the last clean-up
  lo, hi      \* memory_input_cap

memory == <<held, taken, resident, cached, spoilt>>
record == <<manifest, results, outcome, unwritable, interrupted>>
search == <<lo, hi>>
vars == <<stop, pos, pc, memory, handle, pinned, raising, record, search>>

-----------------------------------------------------------------------------
Statuses == {"none", "failed", "enrichment_incomplete", "enrichment_passed"}
Zero  == [g \in GPUs |-> 0]
Slug  == Queue[pos]
Model == Specs[Slug]

\* torch.cuda.mem_get_info()[0]
Free == [g \in GPUs |-> Capacity - held[g] - cached[g]]

TypeOK ==
  /\ stop \in BOOLEAN
  /\ pos \in 0..Len(Queue)
  /\ pc \in {"next", "fit", "loaded", "gates", "search", "enrich", "failed", "finally",
             "returned", "raised"}
  /\ held \in [GPUs -> Nat]
  /\ taken \in [GPUs -> Nat]
  /\ resident \subseteq 1..Len(Queue)
  /\ cached \in [GPUs -> Nat]
  /\ handle \in BOOLEAN
  /\ pinned \in BOOLEAN
  /\ raising \in BOOLEAN
  /\ manifest \in [Models -> Statuses]
  /\ results \in [Models -> Statuses]
  /\ outcome \in [Models -> Statuses]
  /\ unwritable \in BOOLEAN
  /\ interrupted \in BOOLEAN
  /\ spoilt \in BOOLEAN
  /\ lo \in Nat
  /\ hi \in Nat

\* The notebook may still hold a model of its own on the first GPU, and an
\* earlier session's statuses are in the manifest.
Init ==
  /\ stop \in BOOLEAN
  /\ pos = 0
  /\ pc = "next"
  /\ held \in {Zero, [Zero EXCEPT ![1] = OneGib]}
  /\ taken = Zero
  /\ resident = {}
  /\ cached = Zero
  /\ handle = FALSE
  /\ pinned = FALSE
  /\ raising = FALSE
  /\ manifest \in [Models -> {"none", "enrichment_passed"}]
  /\ results = [m \in Models |-> "none"]
  /\ outcome = manifest
  /\ unwritable = FALSE
  /\ interrupted = FALSE
  /\ spoilt = FALSE
  /\ lo = 0 /\ hi = 0

-----------------------------------------------------------------------------
NextModel ==
  /\ pc = "next"
  /\ pos < Len(Queue)
  /\ pos' = pos + 1
  /\ pc' = "fit"
  /\ UNCHANGED <<stop, memory, handle, pinned, raising, record, search>>

Return ==
  /\ pc = "next"
  /\ pos = Len(Queue)
  /\ pc' = "returned"
  /\ UNCHANGED <<stop, pos, memory, handle, pinned, raising, record, search>>

\* The body raises: the turn has ended badly.
Raises == pc' = "failed" /\ outcome' = [outcome EXCEPT ![Slug] = "failed"]

\* resolve_spec, the settings, the disk, bitsandbytes or the tokenizer: nothing
\* is on a GPU yet.
FailEarly ==
  /\ pc = "fit"
  /\ Raises
  /\ UNCHANGED <<stop, pos, memory, handle, pinned, raising, manifest, results,
                 unwritable, interrupted, search>>

\* check_fit raises ModelDoesNotFitError, in the loop or again in
\* load_model_safe.
Refuse ==
  /\ pc = "fit"
  /\ Placement(Free, Model) = "none"
  /\ Raises
  /\ UNCHANGED <<stop, pos, memory, handle, pinned, raising, manifest, results,
                 unwritable, interrupted, search>>

Minus(m, n) == IF m <= n THEN 0 ELSE m - n

\* from_pretrained fails with part of the weights on the GPUs.  The traceback
\* refers to them while the exception is handled, so that the clean-up after an
\* out-of-memory error releases only what was idle before; when it has been
\* handled they go back to the allocator, and stay there.
LoadFails(part, outOfMemory) ==
  /\ pc = "fit"
  /\ part \in {Zero} \cup Plans(Free, Model)
  /\ Placement(Free, Model) # "none"
  /\ cached' = [g \in GPUs |->
                  IF outOfMemory THEN part[g] ELSE Greater(cached[g], part[g])]
  /\ spoilt' = TRUE
  /\ Raises
  /\ UNCHANGED <<stop, pos, held, taken, resident, handle, pinned, raising,
                 manifest, results, unwritable, interrupted, search>>

\* The weights are loaded as planned, or heavier than estimated.  Idle memory of
\* the allocator is used first; what from_pretrained had for itself besides, to
\* quantize for instance, stays with the allocator.
Load(plan, extra, temporary) ==
  /\ pc = "fit"
  /\ plan \in Plans(Free, Model)
  /\ extra \in [GPUs -> 0..Extra]
  /\ \A g \in GPUs : extra[g] > 0 => plan[g] > 0 /\ plan[g] + extra[g] <= Free[g]
  /\ taken' = [g \in GPUs |-> plan[g] + extra[g]]
  /\ held' = [g \in GPUs |-> held[g] + taken'[g]]
  /\ temporary \in [GPUs -> 0..Temporary]
  /\ cached' = [g \in GPUs |-> Minus(cached[g], taken'[g]) + temporary[g]]
  /\ \A g \in GPUs :
       temporary[g] > 0 => plan[g] > 0 /\ held'[g] + cached'[g] <= Capacity
  /\ resident' = IF taken' = Zero THEN resident ELSE resident \cup {pos}
  /\ pc' = "loaded"
  /\ UNCHANGED <<stop, pos, spoilt, handle, pinned, raising, record, search>>

\* Mutant: the allocator is not made to give back what it keeps.
DropUncleaned ==
  /\ held' = [g \in GPUs |-> held[g] - taken[g]]
  /\ taken' = Zero
  /\ resident' = resident \ {pos}
  /\ cached' = [g \in GPUs |-> cached[g] + taken[g]]
  /\ spoilt' = FALSE

\* model is deleted: its tensors and all idle memory are given back.
Drop ==
  /\ held' = [g \in GPUs |-> held[g] - taken[g]]
  /\ taken' = Zero
  /\ resident' = resident \ {pos}
  /\ cached' = Zero
  /\ spoilt' = FALSE

\* A device that is not allowed, or no Linear4bit module.
VerifyFails ==
  /\ pc = "loaded"
  /\ Drop
  /\ Raises
  /\ UNCHANGED <<stop, pos, handle, pinned, raising, manifest, results, unwritable,
                 interrupted, search>>

\* InsufficientHeadroomError.
HeadroomShort ==
  /\ pc = "loaded"
  /\ ~HasHeadroom(Free, taken, Model.headroom)
  /\ Drop
  /\ Raises
  /\ UNCHANGED <<stop, pos, handle, pinned, raising, manifest, results, unwritable,
                 interrupted, search>>

Loaded ==
  /\ pc = "loaded"
  /\ HasHeadroom(Free, taken, Model.headroom)
  /\ handle' = TRUE
  /\ pc' = "gates"
  /\ UNCHANGED <<stop, pos, memory, pinned, raising, record, search>>

-----------------------------------------------------------------------------
\* The gates pass; a prompt without a limit of its own gets one by memory.
GatesPass ==
  /\ pc = "gates"
  /\ IF Model.uncapped
       THEN pc' = "search" /\ lo' = Floor /\ hi' = Model.context
       ELSE pc' = "enrich" /\ UNCHANGED search
  /\ UNCHANGED <<stop, pos, memory, handle, pinned, raising, record>>

Budgeted(n) == PromptFits(n, Room(Free, cached, taken))

\* Mutant: the middle that is too large is kept as the upper end.
NarrowOffByOne ==
  /\ pc = "search"
  /\ Budgeted(Floor)
  /\ lo < hi
  /\ LET mid == (lo + hi + 1) \div 2
     IN IF Budgeted(mid) THEN lo' = mid /\ UNCHANGED hi
                         ELSE hi' = mid - 2 /\ UNCHANGED lo
  /\ UNCHANGED <<stop, pos, pc, memory, handle, pinned, raising, record>>

\* One round of the binary search.
Narrow ==
  /\ pc = "search"
  /\ Budgeted(Floor)
  /\ lo < hi
  /\ LET mid == (lo + hi + 1) \div 2
     IN IF Budgeted(mid) THEN lo' = mid /\ UNCHANGED hi
                         ELSE hi' = mid - 1 /\ UNCHANGED lo
  /\ UNCHANGED <<stop, pos, pc, memory, handle, pinned, raising, record>>

Capped ==
  /\ pc = "search"
  /\ lo >= hi \/ ~Budgeted(Floor)
  /\ pc' = "enrich"
  /\ UNCHANGED <<stop, pos, memory, handle, pinned, raising, record, search>>

EnrichPasses ==
  /\ pc = "enrich"
  /\ manifest' = [manifest EXCEPT ![Slug] = "enrichment_passed"]
  /\ results' = [results EXCEPT ![Slug] = "enrichment_passed"]
  /\ outcome' = [outcome EXCEPT ![Slug] = "enrichment_passed"]
  /\ pc' = "finally"
  /\ UNCHANGED <<stop, pos, memory, handle, pinned, raising, unwritable,
                 interrupted, search>>

\* What the finally clause of run_full_enrichment may have written.
Incomplete(status) ==
  \/ status = manifest
  \/ /\ pc = "enrich"
     /\ status = [manifest EXCEPT ![Slug] = "enrichment_incomplete"]

\* A gate or the enrichment raises, perhaps from a frame that has the model in
\* a local variable, such as generate_text.
WorkFails(inFrame) ==
  /\ pc \in {"gates", "enrich"}
  /\ pinned' = inFrame
  /\ Incomplete(manifest')
  /\ Raises
  /\ UNCHANGED <<stop, pos, memory, handle, raising, results, unwritable,
                 interrupted, search>>

-----------------------------------------------------------------------------
\* The except clause.  An exception that is not raised again is forgotten at
\* its end, and with it the frames.
Forget == raising' = stop /\ pinned' = (pinned /\ stop)

\* Mutant: the status is written only by a queue that goes on.
ExceptRaisingFirst ==
  /\ pc = "failed"
  /\ results' = [results EXCEPT ![Slug] = "failed"]
  /\ manifest' = IF stop THEN manifest ELSE [manifest EXCEPT ![Slug] = "failed"]
  /\ Forget
  /\ pc' = "finally"
  /\ UNCHANGED <<stop, pos, memory, handle, outcome, unwritable, interrupted, search>>

\* Mutant: the queue stops on every failure.
ExceptAlwaysRaising ==
  /\ pc = "failed"
  /\ results' = [results EXCEPT ![Slug] = "failed"]
  /\ manifest' = [manifest EXCEPT ![Slug] = "failed"]
  /\ raising' = TRUE
  /\ pc' = "finally"
  /\ UNCHANGED <<stop, pos, memory, handle, pinned, outcome, unwritable,
                 interrupted, search>>

Except ==
  /\ pc = "failed"
  /\ results' = [results EXCEPT ![Slug] = "failed"]
  /\ manifest' = [manifest EXCEPT ![Slug] = "failed"]
  /\ Forget
  /\ pc' = "finally"
  /\ UNCHANGED <<stop, pos, memory, handle, outcome, unwritable, interrupted, search>>

\* set_model_status raises in the except clause: a torn manifest, a full disk.
ExceptFails ==
  /\ pc = "failed"
  /\ results' = [results EXCEPT ![Slug] = "failed"]
  /\ unwritable' = TRUE
  /\ raising' = TRUE
  /\ pc' = "finally"
  /\ UNCHANGED <<stop, pos, memory, handle, pinned, manifest, outcome, interrupted,
                 search>>

\* The user interrupts a turn: except Exception lets a KeyboardInterrupt pass, so
\* that neither the result nor the status is written, and finally is reached.
\* The status may be one that the turn has written itself; a write that is cut
\* short leaves the manifest unreadable.  What a load was filling is left out:
\* the queue ends and looks at no GPU again.
Interrupt(inFrame) ==
  /\ pc \in {"fit", "loaded", "gates", "search", "enrich", "failed"}
  /\ \/ Incomplete(manifest')
     \/ /\ pc = "enrich"
        /\ manifest' = [manifest EXCEPT ![Slug] = "enrichment_passed"]
     \/ /\ pc = "failed"
        /\ manifest' = [manifest EXCEPT ![Slug] = "failed"]
  /\ \/ UNCHANGED unwritable
     \/ /\ pc \in {"enrich", "failed"}
        /\ unwritable' = TRUE
  /\ interrupted' = TRUE
  /\ raising' = TRUE
  /\ pinned' = (pinned \/ inFrame)
  /\ pc' = "finally"
  /\ UNCHANGED <<stop, pos, memory, handle, results, outcome, search>>

\* Between two turns, or while a model is unloaded.
InterruptBetween ==
  /\ pc \in {"next", "finally"}
  /\ interrupted' = TRUE
  /\ pc' = "raised"
  /\ UNCHANGED <<stop, pos, memory, handle, pinned, raising, manifest, results,
                 outcome, unwritable, search>>

LeavesBody == pc' = IF raising THEN "raised" ELSE "next"

FinallyNoHandle ==
  /\ pc = "finally"
  /\ ~handle
  /\ LeavesBody
  /\ UNCHANGED <<stop, pos, memory, handle, pinned, raising, record, search>>

\* Mutant: the memory is not looked at after unloading.
UnloadUnchecked(stale) ==
  /\ pc = "finally"
  /\ handle
  /\ IF pinned \/ stale
       THEN cached' = Zero /\ spoilt' = FALSE /\ UNCHANGED <<held, taken, resident>>
       ELSE Drop
  /\ handle' = FALSE
  /\ pinned' = FALSE
  /\ LeavesBody
  /\ UNCHANGED <<stop, pos, raising, record, search>>

\* unload_model and assert_gpu_clean.  A stale reference elsewhere keeps the
\* model alive as a frame of an exception in flight does.
Unload(stale) ==
  /\ pc = "finally"
  /\ handle
  /\ IF pinned \/ stale
       THEN cached' = Zero /\ spoilt' = FALSE /\ UNCHANGED <<held, taken, resident>>
       ELSE Drop
  /\ handle' = FALSE
  /\ pinned' = FALSE
  /\ IF held' = Zero THEN LeavesBody ELSE pc' = "raised"
  /\ UNCHANGED <<stop, pos, raising, record, search>>

-----------------------------------------------------------------------------
LoadModel ==
  \/ \E part \in {Zero} \cup Plans(Free, Model), outOfMemory \in BOOLEAN :
       LoadFails(part, outOfMemory)
  \/ \E plan \in Plans(Free, Model), extra \in [GPUs -> 0..Extra],
        temporary \in [GPUs -> 0..Temporary] : Load(plan, extra, temporary)
  \/ VerifyFails
  \/ HeadroomShort
  \/ Loaded

Work == GatesPass \/ Narrow \/ Capped \/ EnrichPasses \/ \E b \in BOOLEAN : WorkFails(b)

Next ==
  \/ NextModel
  \/ Return
  \/ FailEarly
  \/ Refuse
  \/ pc \in {"fit", "loaded"} /\ LoadModel
  \/ Work
  \/ Except
  \/ ExceptFails
  \/ FinallyNoHandle
  \/ \E stale \in BOOLEAN : Unload(stale)
  \/ \E b \in BOOLEAN : Interrupt(b)
  \/ InterruptBetween

Spec == Init /\ [][Next]_vars

-----------------------------------------------------------------------------
(***************************************************************************)
(* Properties.                                                             *)
(***************************************************************************)

\* No model is loaded beside another one, and while the queue goes on none is
\* left from an earlier turn: what cannot be released ends the queue.
OneResident ==
  /\ resident # {} => resident = {pos}
  /\ pc \in {"next", "returned"} => resident = {}

\* The manifest says of every model how its last turn ended, of one whose turn
\* has not come what it said before: whether the queue returns, raises or is
\* interrupted.  Only of the model whose turn was interrupted it may say what it
\* said before.  A queue that returns has a result for each of its models.
Accounted ==
  /\ pc \in {"next", "returned", "raised"} /\ ~unwritable =>
       \A m \in Models :
         \/ manifest[m] = outcome[m]
         \/ interrupted /\ m = Slug
  /\ pc = "returned" =>
       \A i \in DOMAIN Queue : results[Queue[i]] = manifest[Queue[i]]

\* With stop_on_failure off, a model's failure does not end the queue: it ends
\* early only when memory could not be released, the status not be written or
\* the user interrupts it.
IsolatesFailures ==
  pc = "raised" /\ ~stop => held # Zero \/ unwritable \/ interrupted

\* load_model_safe finds less memory left than was reserved only when the
\* weights were heavier than estimated, or for the memory that loading has left
\* with the allocator, which nothing gives back before the check: with that
\* memory, what check_fit accepts leaves room for the generation on every GPU it
\* uses.  (With part of the weights on the CPU those on the GPUs cannot be
\* compared with the estimate.)
ShortOnlyWhenHeavier ==
  pc = "loaded" /\ ~HasHeadroom(Free, taken, Model.headroom)
    => \/ Total(taken) > Model.weights
       \/ Model.allowCpuOffload
       \/ HasHeadroom([g \in GPUs |-> Free[g] + cached[g]], taken, Model.headroom)

\* A model that empty GPUs would take is refused only while something is held on
\* them or a failed load has left memory with the allocator.
RefusedOnlyAfterFailure ==
  [][Refuse => \/ Placement([g \in GPUs |-> Capacity], Model) = "none"
               \/ held # Zero
               \/ spoilt]_vars

\* memory_input_cap answers the longest prompt that fits into 0.8 of the room
\* there is, or the floor when nothing fits.
CapIsLongest ==
  pc = "enrich" /\ Model.uncapped =>
    \/ /\ Budgeted(lo)
       /\ \A n \in (lo + 1)..Model.context : ~Budgeted(n)
    \/ /\ lo = Floor
       /\ \A n \in Floor..Model.context : ~Budgeted(n)
=============================================================================
