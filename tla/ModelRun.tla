------------------------------ MODULE ModelRun ------------------------------
(***************************************************************************)
(* One model's enrichment of one base.json on Kaggle: the notebook's cells *)
(* (kaggle/optima_llm_enrichment.ipynb, cells 8 to 17), the smoke-test     *)
(* gates, run_full_enrichment and the artifacts of                         *)
(* optima_kaggle/enrichment.py.                                            *)
(*                                                                         *)
(* Kernels follow one another on one run directory.  Within a kernel the   *)
(* user runs the model's cells in any order; a cell that raises, or is     *)
(* interrupted, unloads the model.  A kernel can be killed at any moment.  *)
(* The model's checkpoint is the file of module JsonlFile, with torn and   *)
(* unterminated lines; the other files are modelled as they are written:   *)
(* gates.json and run_manifest.json in place, enhanced_<slug>.json by      *)
(* rename.  Functions and Configs are JsonlFile's.                         *)
(***************************************************************************)
EXTENDS JsonlFile, FiniteSets

CONSTANTS
  Outcomes,          \* what a write cut short can leave, a part of WriteOutcomes
  Gates,             \* REQUIRED_GATES: "gate1" to "gate4"
  SmokeGates,        \* those that open a checkpoint: "gate3" and "gate4"
  MaterializeEvery,  \* materialize_every
  MaxKernels,        \* bound: kernels started
  MaxRound,          \* bound: a function is enriched at most so often
  NoGate, NoOwner, NoArtifact,  \* what is not there yet
  Torn               \* a file json.loads refuses

\* Functions are numbered in the order flatten_functions lists them.
ASSUME FunctionsAssumption ==
  IsFiniteSet(Functions) /\ Functions # {} /\ Functions \subseteq Nat
ASSUME OutcomesAssumption == Outcomes \subseteq WriteOutcomes
ASSUME GatesAssumption == SmokeGates \cup {"gate1"} \subseteq Gates
ASSUME BoundsAssumption ==
  /\ MaterializeEvery \in Nat \ {0}
  /\ MaxKernels \in Nat
  /\ MaxRound \in Nat \ {0}
ASSUME SentinelsAssumption ==
  /\ NoArtifact \notin [records: [Functions -> MaybeRecords], partial: BOOLEAN]
  /\ Torn # "enrichment_passed"

VARIABLES
  \* on disk
  gates,      \* gates.json
  smoke,      \* the configuration in the header of gate3's and gate4's checkpoint
  file,       \* the model's checkpoint, <slug>.checkpoint.jsonl
  artifact,   \* enhanced_<slug>.json
  status,     \* the model's status in run_manifest.json
  \* in the kernel
  kernel,     \* ctx.session_id
  pc,         \* what the kernel is doing
  config,     \* config_hash(handle.spec, gen)
  loaded,     \* HANDLE is not None
  records,    \* ckpt._records, while run_full_enrichment has the checkpoint open
  todo,       \* functions the full run has still to enrich
  index       \* how many it has enriched

disk == <<gates, smoke, file, artifact, status>>
full == <<records, todo, index>>
vars == <<gates, smoke, file, artifact, status, kernel, pc, config, loaded,
          records, todo, index>>

GateRecords == [passed: BOOLEAN, cfg: Configs, kernel: 1..MaxKernels]
Statuses    == {"none", "enrichment_incomplete", "enrichment_passed"}

Unloaded == [f \in Functions |-> NoRecord]

\* run_full_enrichment has the model's checkpoint open.
Running == {"enriching", "periodic", "aborting", "aborted", "settling"}

TypeOK ==
  /\ gates \in [Gates -> GateRecords \cup {NoGate}] \cup {Torn}
  /\ smoke \in [SmokeGates -> Configs \cup {NoOwner, Torn}]
  /\ file \in Files
  /\ artifact \in [records: [Functions -> MaybeRecords], partial: BOOLEAN]
                  \cup {NoArtifact}
  /\ status \in Statuses \cup {Torn}
  /\ kernel \in 0..MaxKernels
  /\ pc \in {"dead", "idle"} \cup Running
  /\ config \in Configs
  /\ loaded \in BOOLEAN
  /\ records \in [Functions -> MaybeRecords]
  /\ todo \subseteq Functions
  /\ index \in 0..Cardinality(Functions)

Init ==
  /\ gates = [g \in Gates |-> NoGate]
  /\ smoke = [g \in SmokeGates |-> NoOwner]
  /\ file = EmptyFile
  /\ artifact = NoArtifact
  /\ status = "none"
  /\ kernel = 0
  /\ pc = "dead"
  /\ config \in Configs
  /\ loaded = FALSE
  /\ records = Unloaded
  /\ todo = {}
  /\ index = 0

-----------------------------------------------------------------------------
(***************************************************************************)
(* The kernel.                                                             *)
(***************************************************************************)

\* RunContext.create loads and saves the manifest; it raises on a torn one.
StartKernel(c) ==
  /\ pc = "dead"
  /\ kernel < MaxKernels
  /\ status # Torn
  /\ kernel' = kernel + 1
  /\ config' = c
  /\ pc' = "idle"
  /\ UNCHANGED <<disk, loaded, full>>

\* Killed while create rewrites the manifest.
KillInStart ==
  /\ pc = "dead"
  /\ kernel < MaxKernels
  /\ status # Torn
  /\ kernel' = kernel + 1
  /\ status' = Torn
  /\ UNCHANGED <<gates, smoke, file, artifact, pc, config, loaded, full>>

\* Another set of generation settings, in the kernel that is running.
EditConfig(c) ==
  /\ pc = "idle"
  /\ config' = c
  /\ UNCHANGED <<disk, kernel, pc, loaded, full>>

\* load_model_safe returns, whatever the gates say.
LoadModel ==
  /\ pc = "idle"
  /\ ~loaded
  /\ loaded' = TRUE
  /\ UNCHANGED <<disk, kernel, pc, config, full>>

\* run_full_enrichment is left, and its Checkpoint object forgotten.
LeaveFull == records' = Unloaded /\ todo' = {} /\ index' = 0

\* The cell's except clause: emergency_unload, and the exception goes on.
CellFails ==
  /\ loaded' = FALSE
  /\ pc' = "idle"
  /\ LeaveFull
  /\ UNCHANGED <<kernel, config>>

Dies ==
  /\ pc' = "dead"
  /\ loaded' = FALSE
  /\ LeaveFull
  /\ UNCHANGED <<kernel, config>>

\* Between two writes.
Kill ==
  /\ pc # "dead"
  /\ Dies
  /\ UNCHANGED disk

\* While run_manifest.json is rewritten in place, by set_model_status.
KillTearingManifest ==
  /\ pc \in {"aborted", "settling"}
  /\ status' = Torn
  /\ Dies
  /\ UNCHANGED <<gates, smoke, file, artifact>>

-----------------------------------------------------------------------------
(***************************************************************************)
(* The gates.                                                              *)
(***************************************************************************)

\* gate3 and gate4 open their own checkpoint before anything else.
SmokeOpens(g) == g \in SmokeGates => smoke[g] \in {NoOwner, config}

AfterSmoke(g) ==
  smoke' = [h \in SmokeGates |-> IF h = g THEN config ELSE smoke[h]]

\* Gate g runs to record_gate, which adds its record to gates.json and then
\* raises if the gate did not pass.
RunGate(g, passed) ==
  /\ pc = "idle"
  /\ loaded
  /\ SmokeOpens(g)
  /\ gates # Torn
  /\ AfterSmoke(g)
  /\ gates' = [gates EXCEPT ![g] = [passed |-> passed, cfg |-> config, kernel |-> kernel]]
  /\ IF passed
     THEN UNCHANGED <<pc, loaded, kernel, config, full>>
     ELSE CellFails
  /\ UNCHANGED <<file, artifact, status>>

\* ResumeMismatchError or CheckpointCorruptError from the gate's own checkpoint.
GateRefused(g) ==
  /\ pc = "idle"
  /\ loaded
  /\ ~SmokeOpens(g)
  /\ CellFails
  /\ UNCHANGED disk

\* The gate raises before record_gate has written: enrich_one raised or the
\* cell was interrupted, or gates.json is torn (JSONDecodeError).
GateRaises(g) ==
  /\ pc = "idle"
  /\ loaded
  /\ SmokeOpens(g)
  /\ AfterSmoke(g)
  /\ CellFails
  /\ UNCHANGED <<gates, file, artifact, status>>

\* Killed within a gate: its checkpoint may exist, or be cut short in a way
\* that a later gate does not read; gates.json may be torn.
KillInGate(g) ==
  /\ pc = "idle"
  /\ loaded
  /\ SmokeOpens(g)
  /\ \/ AfterSmoke(g)
     \/ smoke' = [h \in SmokeGates |-> IF h = g THEN Torn ELSE smoke[h]]
  /\ gates' \in {gates, Torn}
  /\ Dies
  /\ UNCHANGED <<file, artifact, status>>

-----------------------------------------------------------------------------
(***************************************************************************)
(* run_full_enrichment.                                                    *)
(***************************************************************************)

\* Mutant: gate 1 of an earlier kernel counts.
GatesPassedAnyKernel ==
  /\ gates # Torn
  /\ \A g \in Gates : /\ gates[g] # NoGate
                      /\ gates[g].passed
                      /\ gates[g].cfg = config

\* require_all_gates_passed.
GatesPassed ==
  /\ gates # Torn
  /\ \A g \in Gates : /\ gates[g] # NoGate
                      /\ gates[g].passed
                      /\ gates[g].cfg = config
  /\ gates["gate1"].kernel = kernel

\* Mutant: completed functions are enriched again.
ToDoAll(recs) == Functions

\* The list todo of run_full_enrichment, and the function that the loop takes
\* from it next.
ToDo(recs) == {f \in Functions : ~IsCompleted(recs[f])}
IsNext(f)  == f \in todo /\ \A g \in todo : f <= g

\* run_full_enrichment has its checkpoint and goes into the loop.
Begins(recs) ==
  /\ pc = "idle"
  /\ loaded
  /\ GatesPassed
  /\ \A f \in ToDo(recs) : RoundOf(recs[f]) < MaxRound
  /\ records' = recs
  /\ todo' = ToDo(recs)
  /\ index' = 0
  /\ pc' = "enriching"
  /\ UNCHANGED <<gates, smoke, artifact, status, kernel, config, loaded>>

CreateFull ==
  /\ ~HasContent(file)
  /\ file' = AddLine(EmptyFile, HeaderLine(config), TRUE)
  /\ Begins(Unloaded)

\* The header cut short by an exception or by the kernel's death.
CreateCutShort(outcome) ==
  /\ pc = "idle"
  /\ loaded
  /\ GatesPassed
  /\ ~HasContent(file)
  /\ file' = TornWrite(EmptyFile, HeaderLine(config), outcome)
  /\ CellFails \/ Dies
  /\ UNCHANGED <<gates, smoke, artifact, status>>

\* Mutant: the records of the file are not taken over.
ResumeFullUnread ==
  /\ HasContent(file)
  /\ Loads(file)
  /\ LoadedHeader(file) = config
  /\ Begins(Unloaded)
  /\ UNCHANGED file

ResumeFull ==
  /\ HasContent(file)
  /\ Loads(file)
  /\ LoadedHeader(file) = config
  /\ Begins(LoadedRecords(file))
  /\ UNCHANGED file

RefuseFull ==
  /\ pc = "idle"
  /\ loaded
  /\ \/ ~GatesPassed
     \/ HasContent(file) /\ ~Loads(file)
     \/ HasContent(file) /\ Loads(file) /\ LoadedHeader(file) # config
  /\ CellFails
  /\ UNCHANGED disk

NewRecord(f, ok) == RecordLine(f, ok, RoundOf(records[f]) + 1)

\* enrich_one returns and ckpt.append writes its record.
Enrich(f, ok) ==
  /\ pc = "enriching"
  /\ IsNext(f)
  /\ file' = AddLine(file, NewRecord(f, ok), TRUE)
  /\ records' = [records EXCEPT ![f] = NewRecord(f, ok)]
  /\ todo' = todo \ {f}
  /\ index' = index + 1
  /\ pc' = IF (index + 1) % MaterializeEvery = 0 THEN "periodic" ELSE "enriching"
  /\ UNCHANGED <<gates, smoke, artifact, status, kernel, config, loaded>>

\* Mutant: append sets _records before it writes.
AppendRemembered(f, ok, outcome) ==
  /\ pc = "enriching"
  /\ IsNext(f)
  /\ file' = TornWrite(file, NewRecord(f, ok), outcome)
  /\ \/ /\ pc' = "aborting"
        /\ records' = [records EXCEPT ![f] = NewRecord(f, ok)]
        /\ UNCHANGED <<kernel, config, loaded, todo, index>>
     \/ Dies
  /\ UNCHANGED <<gates, smoke, artifact, status>>

\* append cut short before it has set _records, by an exception (the finally
\* clause then runs) or by the kernel's death.
AppendCutShort(f, ok, outcome) ==
  /\ pc = "enriching"
  /\ IsNext(f)
  /\ file' = TornWrite(file, NewRecord(f, ok), outcome)
  /\ \/ pc' = "aborting" /\ UNCHANGED <<kernel, config, loaded, full>>
     \/ Dies
  /\ UNCHANGED <<gates, smoke, artifact, status>>

\* Between two appends enrich_one or materialize raises, or the user
\* interrupts the cell.
FullRaises ==
  /\ pc \in {"enriching", "periodic"}
  /\ pc' = "aborting"
  /\ UNCHANGED <<disk, kernel, config, loaded, full>>

\* materialize: base.json and the checkpoint's records, saved atomically.
Materialize(partial) == artifact' = [records |-> records, partial |-> partial]

MaterializePeriodic ==
  /\ pc = "periodic"
  /\ Materialize(TRUE)
  /\ pc' = "enriching"
  /\ UNCHANGED <<gates, smoke, file, status, kernel, config, loaded, full>>

\* The finally clause, after the loop and after an exception.
MaterializeFinal ==
  /\ pc = "enriching"
  /\ todo = {}
  /\ Materialize(FALSE)
  /\ pc' = "settling"
  /\ UNCHANGED <<gates, smoke, file, status, kernel, config, loaded, full>>

MaterializeAborted ==
  /\ pc = "aborting"
  /\ Materialize(TRUE)
  /\ pc' = "aborted"
  /\ UNCHANGED <<gates, smoke, file, status, kernel, config, loaded, full>>

SetPassed ==
  /\ pc = "settling"
  /\ status' = "enrichment_passed"
  /\ pc' = "idle"
  /\ LeaveFull
  /\ UNCHANGED <<gates, smoke, file, artifact, kernel, config, loaded>>

\* Mutant: a run cut short passes as well.
SetIncompleteAsPassed ==
  /\ pc = "aborted"
  /\ status' = "enrichment_passed"
  /\ CellFails
  /\ UNCHANGED <<gates, smoke, file, artifact>>

SetIncomplete ==
  /\ pc = "aborted"
  /\ status' = "enrichment_incomplete"
  /\ CellFails
  /\ UNCHANGED <<gates, smoke, file, artifact>>

\* materialize or set_model_status raises, or is interrupted, in the finally
\* clause or after it: the status stays, or the manifest is torn.
SettleRaises ==
  /\ pc \in {"aborting", "aborted", "settling"}
  /\ status' \in IF pc = "aborting" THEN {status} ELSE {status, Torn}
  /\ CellFails
  /\ UNCHANGED <<gates, smoke, file, artifact>>

\* What the kernel does of itself, once the full run has started.
FullStep ==
  \/ \E f \in Functions, ok \in BOOLEAN : Enrich(f, ok)
  \/ FullRaises
  \/ MaterializePeriodic
  \/ MaterializeFinal
  \/ MaterializeAborted
  \/ SetPassed
  \/ SetIncomplete
  \/ SettleRaises

Next ==
  \/ \E c \in Configs : StartKernel(c) \/ EditConfig(c)
  \/ LoadModel
  \/ \E g \in Gates : \/ \E passed \in BOOLEAN : RunGate(g, passed)
                      \/ GateRefused(g)
                      \/ GateRaises(g)
                      \/ KillInGate(g)
  \/ CreateFull
  \/ ResumeFull
  \/ RefuseFull
  \/ FullStep
  \/ Kill
  \/ KillInStart
  \/ KillTearingManifest
  \/ \E outcome \in Outcomes :
       \/ CreateCutShort(outcome)
       \/ \E f \in Functions, ok \in BOOLEAN : AppendCutShort(f, ok, outcome)

Spec == Init /\ [][Next]_vars

-----------------------------------------------------------------------------
(***************************************************************************)
(* Properties.                                                             *)
(***************************************************************************)

\* "Each model must pass GATES 1-4 before the full run starts", under the
\* settings the records are made with: no line enters the checkpoint unless
\* gates.json says so for these settings, gate 1 in this kernel, and the file
\* has no other header, however the user orders cells, edits settings and
\* restarts, and whatever was torn before.
RecordsAreGated ==
  [][file' # file =>
       /\ gates # Torn
       /\ \A g \in Gates : gates[g] # NoGate /\ gates[g].passed /\ gates[g].cfg = config
       /\ gates["gate1"].kernel = kernel
       /\ \A i \in HeaderIndices(file) : file.lines[i].cfg = config]_vars

\* Resuming neither redoes nor loses a completed function, but for one that a
\* torn write put at risk: its record is the unterminated last line, which the
\* next append joins.
CompletedStays ==
  [][file' # file =>
       \A f \in Functions :
         LET record == LoadedRecords(file)[f]
         IN IsCompleted(record) =>
              \/ LoadedRecords(file')[f] = record
              \/ ~file.newline /\ file.lines[Len(file.lines)] = record]_vars

MalformedLines == {i \in DOMAIN file.lines : IsMalformed(file.lines[i])}

Shows(f) == artifact # NoArtifact /\ artifact.records[f] # NoRecord

\* What the artifact shows and the checkpoint has in no line as new.
Ahead == {f \in Functions :
            /\ Shows(f)
            /\ \A i \in RecordIndices(file, f) :
                 file.lines[i].round < artifact.records[f].round}

\* The artifact "is derived from" the checkpoint and "can always be rebuilt":
\* it shows a function in a newer state than any line of the checkpoint only
\* where torn writes have cost lines, two functions to each malformed line:
\* the unterminated record a session had loaded and the acknowledged one that
\* joined it.  An artifact that is not partial shows every function.
ArtifactBehindCheckpoint ==
  /\ Cardinality(Ahead) <= 2 * Cardinality(MalformedLines)
  /\ artifact # NoArtifact /\ ~artifact.partial => \A f \in Functions : Shows(f)

\* discover_passed_corpora reads only the status, and make_embedding_view then
\* opens the artifact: a model that has passed has one with an enrichment for
\* every function, also while a later kernel retries its failures, or was
\* killed doing so; but for the functions, two to each malformed line, that
\* torn writes took from the checkpoint after it had passed.
PassedMeansCovered ==
  status = "enrichment_passed" =>
    /\ artifact # NoArtifact
    /\ Cardinality({f \in Functions : ~Shows(f)}) <= 2 * Cardinality(MalformedLines)

-----------------------------------------------------------------------------
(***************************************************************************)
(* The checkpoint as a durable map, while no line of it is torn.           *)
(***************************************************************************)

\* Every write so far has left its whole line or nothing.
Undamaged(f) == f.newline /\ \A i \in DOMAIN f.lines : ~IsMalformed(f.lines[i])

\* The session that may still append; after an exception the finally clause
\* only reads the dictionary.
Appending == pc \in {"enriching", "periodic", "settling"}

BoundedRecords == [kind: {"function"}, fn: Functions, ok: BOOLEAN, round: 1..MaxRound]

Map == INSTANCE DurableMap WITH
  Results  <- BoundedRecords,
  NoResult <- NoRecord,
  owner    <- IF HasContent(file) THEN LoadedHeader(file) ELSE NoOwner,
  store    <- LoadedRecords(file),
  open     <- Appending,
  view     <- IF Appending THEN records ELSE Unloaded

\* Over cells, settings, exceptions and kernels, run_full_enrichment does to
\* its checkpoint only what a durable map allows, until a write cut short
\* leaves less than its line and more than nothing.
UsesDurableMap ==
  Map!Init /\ [][Undamaged(file') => UNCHANGED Map!vars \/ Map!Next]_<<file, records, pc>>
=============================================================================
