--------------------------- MODULE ResumableEnrich ---------------------------
(***************************************************************************)
(* The two enrichment loops that resume from their own output file:        *)
(* enrich_nodes (colab/colab_pipeline.py) and enrich_analysis              *)
(* (optima/enricher.py).  Both read the completed functions of an existing *)
(* output, walk the functions of base.json in order, and save the artifact *)
(* built so far after each function they enrich.  They differ in the last  *)
(* save: enrich_nodes renames a temporary file as everywhere else,         *)
(* enrich_analysis writes the output in place.                             *)
(***************************************************************************)
EXTENDS Integers

CONSTANTS
  Count,         \* number of functions in base.json
  AtomicFinish,  \* is the last save a rename (enrich_nodes)?
  MaxRuns        \* bound: runs started

ASSUME CountAssumption == Count \in Nat \ {0}
ASSUME AtomicFinishAssumption == AtomicFinish \in BOOLEAN
ASSUME MaxRunsAssumption == MaxRuns \in Nat

VARIABLES
  exists,   \* is there an output file?
  torn,     \* is it the remains of an interrupted write in place?
  output,   \* its functions' enrichments
  runs,     \* runs started
  loopPc,       \* "stopped", "loop" or "finished"
  limit,    \* the run handles the first limit functions
  prior,    \* functions the output had completed when the run started
  result,   \* the artifact in memory
  at        \* the function the loop is at

loopVars == <<exists, torn, output, runs, loopPc, limit, prior, result, at>>

Functions   == 1..Count
Enrichments == {"none", "completed", "failed"}
Bare        == [f \in Functions |-> "none"]     \* base.json

LoopTypeOK ==
  /\ exists \in BOOLEAN
  /\ torn \in BOOLEAN
  /\ output \in [Functions -> Enrichments]
  /\ runs \in 0..MaxRuns
  /\ loopPc \in {"stopped", "loop", "finished"}
  /\ limit \in 0..Count
  /\ prior \subseteq Functions
  /\ result \in [Functions -> Enrichments]
  /\ at \in 1..(Count + 1)

LoopInit ==
  /\ exists = FALSE
  /\ torn = FALSE
  /\ output = Bare
  /\ runs = 0
  /\ loopPc = "stopped"
  /\ limit = 0
  /\ prior = {}
  /\ result = Bare
  /\ at = 1

Completed(artifact) == {f \in Functions : artifact[f] = "completed"}

PriorOf == IF exists THEN Completed(output) ELSE {}

\* json.load refuses a torn output: no run starts on it.
Start(n) ==
  /\ loopPc # "loop"
  /\ runs < MaxRuns
  /\ ~torn
  /\ runs' = runs + 1
  /\ limit' = n
  /\ prior' = PriorOf
  /\ result' = Bare
  /\ at' = 1
  /\ loopPc' = "loop"
  /\ UNCHANGED <<exists, torn, output>>

\* Mutant: a prior function is skipped without taking its enrichment over.
KeepPriorNot ==
  /\ loopPc = "loop"
  /\ at <= limit
  /\ at \in prior
  /\ at' = at + 1
  /\ UNCHANGED <<exists, torn, output, runs, loopPc, limit, prior, result>>

KeepPrior ==
  /\ loopPc = "loop"
  /\ at <= limit
  /\ at \in prior
  /\ result' = [result EXCEPT ![at] = "completed"]
  /\ at' = at + 1
  /\ UNCHANGED <<exists, torn, output, runs, loopPc, limit, prior>>

\* The attempts on one function end in an enrichment, which is saved with
\* everything before it.
EnrichAndSave(outcome) ==
  /\ loopPc = "loop"
  /\ at <= limit
  /\ at \notin prior
  /\ result' = [result EXCEPT ![at] = outcome]
  /\ output' = result'
  /\ exists' = TRUE
  /\ at' = at + 1
  /\ UNCHANGED <<torn, runs, loopPc, limit, prior>>

\* The last save, with the metadata and metrics.
Finish ==
  /\ loopPc = "loop"
  /\ at > limit
  /\ output' = result
  /\ exists' = TRUE
  /\ loopPc' = "finished"
  /\ UNCHANGED <<torn, runs, limit, prior, result, at>>

\* The process dies, or an exception leaves the loop: prepare_model, called
\* for a model that went away, may raise.
Crash ==
  /\ loopPc = "loop"
  /\ loopPc' = "stopped"
  /\ UNCHANGED <<exists, torn, output, runs, limit, prior, result, at>>

CrashInFinish ==
  /\ loopPc = "loop"
  /\ at > limit
  /\ ~AtomicFinish
  /\ exists' = TRUE
  /\ torn' = TRUE
  /\ output' = Bare
  /\ loopPc' = "stopped"
  /\ UNCHANGED <<runs, limit, prior, result, at>>

LoopNext ==
  \/ \E n \in 0..Count : Start(n)
  \/ KeepPrior
  \/ \E outcome \in {"completed", "failed"} : EnrichAndSave(outcome)
  \/ Finish
  \/ Crash
  \/ CrashInFinish

LoopSpec == LoopInit /\ [][LoopNext]_loopVars

-----------------------------------------------------------------------------
(***************************************************************************)
(* Properties.                                                             *)
(***************************************************************************)

\* A run that finishes has an enrichment for every function it was asked for,
\* and has kept what the output held of them when it started.
FinishedRunKeepsPrior ==
  loopPc = "finished" =>
    \A f \in 1..limit :
      /\ output[f] # "none"
      /\ f \in prior => output[f] = "completed"

\* What a run cut short leaves behind of the functions it passed: an output it
\* saved shows all of them, up to the last it enriched itself.
SavedOutputHasNoGaps ==
  (exists /\ ~torn) =>
    \E n \in Functions \cup {0} : \A f \in Functions :
      output[f] # "none" <=> f <= n
=============================================================================
