# A TLA+ verification project for Optima

Optima turns a C/C++ source tree into a JSON knowledge base (`base.json`), has
language models describe every function of it (*enrichment*), embeds the result
into vector indexes and compares retrieval pipelines over them. This directory
holds TLA+ modules for the parts of the program that keep state across steps,
crashes and restarts, TLC configurations that check them on small instances, and
TLAPS proofs of their main properties for every instance.

Paths below are relative to the repository. `PROJECT.json` maps every definition
to the lines it stands for and lists the runs, their mutants, the hazards and the
theorems.

## Running

    tlc -config CheckpointTorn.cfg MCCheckpoint.tla     # any run of the table below
    tlapm CheckpointProofs.tla                          # any module named *Proofs

## 1. Inventory

### The system

| Part | Code | State it keeps | Operations | Module |
|---|---|---|---|---|
| Static analyzer | `optima/analyzer.py` | none (one pass over libclang's AST) | analyze | - |
| LM Studio enrichment | `optima/enricher.py` | the output file it resumes from | `enrich_function`, `enrich_analysis` | ResumableEnrich (the loop) |
| Colab enrichment | `colab/colab_pipeline.py` | the output file it resumes from | `enrich_nodes`, helpers | ResumableEnrich (the loop) |
| Snapshot and run context | `optima_kaggle/snapshot.py` | run directory, `run_manifest.json`, frozen benchmark | `load_base_snapshot`, `RunContext.create`, `set_model_status`, `restore_resume_state`, `freeze_benchmark`, `final_report` | RunDirectory, ModelRun |
| GPU environment, models | `optima_kaggle/environment.py`, `models.py` | the loaded model, GPU memory | `check_fit`, `load_model_safe`, `memory_input_cap`, `unload_model`, `assert_gpu_clean` | GpuFit, ModelQueue |
| Function enrichment | `enrich_one` in `optima_kaggle/enrichment.py` | locals of one call, `attempts.jsonl` | one call | EnrichOne |
| Checkpoint | `Checkpoint` in `enrichment.py` | `<slug>.checkpoint.jsonl` and a dictionary | `open_or_create`, `append`, `is_completed`, `get` | Checkpoint |
| Gates and full run | `record_gate` ... `run_full_enrichment` | `gates.json`, smoke checkpoints, `enhanced_<slug>.json`, model status | `gate1` to `gate4`, `run_full_enrichment`, `materialize` | ModelRun |
| Model queue | `run_model_queue` | the model in hand, results, statuses | the loop over models | ModelQueue |
| Index build | `optima_kaggle/retrieval_eval.py`, `optima/rag/embedding_simple.py` | embedding view, `index.faiss`, `index.pkl`, metadata, fingerprint | `build_indexes`, `embed_corpus` | IndexBuild |
| Suite runner | `optima/rag/research/suite.py`, `experiment.py`, `reporting.py` | `runs/<id>/`, the session's caches | `run_suite`, `save_run`, `load_runs`, `write_suite_reports` | SuiteRunner |
| Embedding cache | `research/dense.py` | `<key>.npz` files, shared by processes | `EmbeddingCache.key`, `load`, `store`, `DenseIndex.build` | EmbeddingCache |
| Retrieval pipeline | `research/{pipeline,fusion,graph,rerank}.py` | locals of one query | `search`, `rrf_fuse`, `expand`, `rerank` | Retrieval |
| Evaluation | `evaluation/`, `optima/rag/evaluation.py`, `research/{metrics,reporting}.py` | none | metrics, tables, plots | - |
| Command lines | `optima/__main__.py`, `optima/cli.py`, `optima/rag/__main__.py`, `research/cli.py` | none | dispatch | - |

`optima-test-suite/` (curl, libpng, a chess engine), `benchmarks/` and
`configs/` are subject programs and data, not part of the program.

### How the parts interact

A Kaggle notebook (`kaggle/optima_llm_enrichment.ipynb`) drives one run directory:
snapshot, restore, freeze the benchmark, then for each model load, gates 1 to 4,
full enrichment, unload, and at the end indexes and evaluation. All interaction
is through files: `run_full_enrichment` writes the checkpoint and the model's
status; `discover_passed_corpora` reads the status; `make_embedding_view` reads the
artifact; `embed_corpus` reads the view. Within a process there are no threads. What
makes the system hard is that a kernel may be interrupted, run out of memory or be
lost at any point, that the user runs cells in any order and edits settings in
between, that the next kernel starts from what is on disk, in the same working
directory or in an empty one with earlier outputs attached, and that one GPU's memory
is handed from model to model. Of the files, the checkpoint is appended to and
fsynced, the artifacts are renamed into place, and the rest (`gates.json`,
`run_manifest.json`, indexes, metadata, fingerprints, results of runs) is rewritten in
place. The one place where processes meet is the embedding cache, a directory that
suites started side by side may share.

### What makes each part correct

- *Checkpoint*: a record whose append returned is not lost, but to a torn line that a
  later append continues; the last record of a function is its newest; a file never
  mixes configurations.
- *enrich_one*: a call ends; retries and repair notes refer to the attempt just
  before; the record says what happened; only a lost GPU aborts the model's run.
- *Model run*: no record without the gates of its settings; completed work is
  neither redone nor lost, and artifact and status promise no more than the
  checkpoint has, but for what torn lines of the checkpoint cost.
- *Snapshot and restore*: a run directory never mixes two contents of `base.json`;
  the longest checkpoint in reach is never lost; a frozen benchmark never changes.
- *Model queue*: one model at a time on the GPUs; one model's failure does not end
  the queue unless asked to; the manifest says how each turn ended that was not
  interrupted; what the check before loading accepts leaves the room it reserved, but
  for what loading leaves with the allocator; the prompt limit found is the longest
  that fits.
- *Resumable loops*: resuming and being cut short never loses what was there.
- *Index build*: an index in use is the index of the present corpus, embedded by
  the real model.
- *Suite runner*: identical configurations are executed once and re-recorded
  faithfully; a report shows every planned run; a stored run is never rewritten.
- *Embedding cache*: an index has the vectors of the encoder asked for; whatever is
  killed, an entry can be read.
- *Retrieval*: what the graph expansion adds is nearest to the seeds and fully
  supported, whatever its caps cut off, and adding it never demotes what it does
  not concern.

The hazards, each at its line and with the properties that address it, are in
`PROJECT.json`.

## 2. Modules

    JsonlFile <-- Checkpoint, ModelRun          both implement DurableMap
        |              |          |
    JsonlFileProofs <-- CheckpointProofs, ModelRunProofs

    EnrichOne, ResumableEnrich <-- EnrichmentProofs
    RunDirectory               <-- RunDirectoryProofs
    IndexBuild, SuiteRunner    <-- BenchmarkProofs
    GpuFit <-- ModelQueue      <-- ModelQueueProofs
    EmbeddingCache, Retrieval  <-- ResearchProofs

**JsonlFile** is the data of a checkpoint file: a sequence of lines, each a
header, a record or something `json.loads` rejects, and whether the last line has
its newline. `AddLine` is `handle.write(line + "\n")` on a file opened for
appending: without a newline before it, the new line joins the last. `Loads`,
`LoadedHeader` and `LoadedRecords` are what `Checkpoint._load` makes of a file, and
`TornWrite` is what a write cut short leaves: nothing, a fragment, the line without its
newline, or all of it. `JsonlFileProofs` has the lemmas on these operators.

**Checkpoint** is the class: `Create`, `Resume`, `RefuseMismatch` and
`RefuseCorrupt` are the four ways through `open_or_create`, `AppendRecord` is
`append`, the `CrashIn...` actions leave one of `Outcomes` of the line being
written, `Stop` is the end of the process. `mode` says whether the file is open or
which exception left `open_or_create`; `header` and `records` are the object's
fields; `acked` is an observer that remembers the appends that returned.

**DurableMap** is what a checkpoint promises: a durable map with an owner. Two
modules are shown to implement it: `Checkpoint`, with `store <- LoadedRecords(file)`,
when an interrupted write leaves all or nothing of its line; and `ModelRun`, in every
step up to the first write that leaves less than its line and more than nothing.

**EnrichOne** is one call of `enrich_one`. `pc` is the place in the loop body,
`attempt` is `attempts_made`, `category` and `lastRaw` are the locals of these
names (a reply is known by the attempt that produced it), `note` the reply quoted
by the repair note of the current prompt, `budget` the `max_new_tokens` of the coming
generation, `logged` what `attempts.jsonl` says last of an attempt. The prompt's
text is abstracted to whether it can be built, a reply to whether it parses and
whether it hit the token limit. The loop's exits are written once, as `Break` and
`Continue`.

**ModelRun** is one model's work on one run directory, over several kernels. On
disk: `gates.json` (with the configuration and kernel each gate was recorded
under), the headers of the smoke checkpoints, the model's checkpoint as the `file` of
`JsonlFile`, the artifact and the status in `run_manifest.json`. In the kernel: its
place, the settings, whether a model is loaded, the dictionary of the open checkpoint
(`records`), what is left to do. One action per cell outcome (`StartKernel`,
`EditConfig`, `LoadModel`, `RunGate`, `GateRefused`, `GateRaises`, and for the full run
`CreateFull`, `ResumeFull`, `RefuseFull`, which has the gates, the other configuration and
the corrupt file), one per step of `run_full_enrichment`, and kills between any two
writes and within each write in place. `CreateCutShort` and `AppendCutShort` leave any
part of the line being written, by the kernel's death or by an exception, after which
the `finally` clause runs and the same kernel may go on. An exception or interrupt may
come between any two steps (`FullRaises`, `SettleRaises`). A cell that raises unloads its
model (`CellFails`).

**RunDirectory** is the run directory as kernels come and go. `root` is the working
directory, a run directory under each name: `load_base_snapshot` names it after the
data set, `download_base_snapshot` after the content. `inputs` are earlier working
directories, attached read-only. A kernel starts in the same directory or a fresh one,
with any content of `base.json` (`StartKernel`), and goes through the cells in order:
`LoadBase` or `RefuseBase`, `CreateContext` or `RefuseManifest`, the restore file by file
(`RestoreCheckpoint`, `RestoreGates`), `freeze_benchmark` in its two writes
(`FreezeQueries`, `FreezeManifest`, `FreezeReuse`, `FreezeRefuse`), then gates and
enrichment as far as they write what is restored (`RunGates`, `Enrich`). `Kill...` cuts
each write short: a copied checkpoint may be any prefix of its source (`Prefixes`), and
`KillInWork` leaves `gates.json` torn, a new checkpoint any prefix of its header and
record, and an old one all its lines and part of the next. The next record continues a
line without its line break (`WithRecord`). Where `ModelRun` looks at one model's
records, this module looks at which `base.json` they are about.

**GpuFit** is the arithmetic of `check_fit`, of the check after loading and of
`memory_input_cap`, in whole numbers: a fraction is kept by scaling both sides of a
comparison. `Placement` is the report's field, `Plans` all the ways `from_pretrained` may
then distribute the weights.

**ModelQueue** is `run_model_queue` with `load_model_safe`, `unload_model` and
`assert_gpu_clean`. Of each GPU it keeps what live tensors hold (`held`, and of it what
the current model has `taken`) and what the allocator keeps without using it (`cached`).
A turn is `NextModel`, then `FailEarly`, `Refuse`, `LoadFails` or `Load`, the checks
`VerifyFails`, `HeadroomShort` or `Loaded`, the gates and the binary search for the prompt
limit (`Narrow`), the enrichment, and the `except` and `finally` clauses (`Except`,
`ExceptFails`, `Unload`, `FinallyNoHandle`). `pinned` is a reference beside the handle,
such as a frame of the exception in flight, that keeps the model's tensors alive.
`Load` fills the GPUs in any way the report of `check_fit` allows, with weights that may be
heavier than estimated, and leaves up to `Temporary` units with the allocator of a GPU, which
nothing gives back before the check that follows. `Interrupt` is the `KeyboardInterrupt`
that `except Exception` lets pass, at any place of a turn: it reaches the `finally` clause
with the status as it was. `InterruptBetween` is one outside the `try`, or within the
`finally` clause.

**ResumableEnrich** is the loop that `enrich_nodes` and `enrich_analysis` share: the
completed functions of the existing output, the walk over `base.json`, the save
after each function enriched, the final save. `AtomicFinish` tells the two apart:
`enrich_analysis` ends with an `open(output_file, 'w')`. It is FALSE in the run: a
last save in place can do all that a renamed one can. Its names differ from those of
`EnrichOne` (`LoopSpec`, `loopPc`), because one module has the proofs of both.

**IndexBuild** is `build_indexes` for one mode, alias and corpus, with what it calls.
Corpus contents are numbered, since `materialize` stamps each artifact with the
time; an index file is the content and embedder it was made from, or torn. All
five writes may be cut short. When FAISS raises, `create_vector_index` falls back to
memory and leaves the files as they are by then; the observer `faissFailed` remembers
that this has happened, so that the properties can say what holds until then. Its names
differ from those of `SuiteRunner` (`IndexSpec`, `place`), because one module has the
proofs of both. The document count that `_assert_index_ok` compares is left out: every
content of a corpus has one document for each function of `base.json`.

**SuiteRunner** is `run_suite` over an `ExperimentStore`, for several sessions on one
suite. A run is its identity, label, configuration key, success and the state of
its two files. `executed`, `done` and the order in which they are consulted are as
in the code. `Stored` writes a run's files into the directory of its name, over what is
there: that nothing is there is `save_run`'s check, in `Reuse` and `ReuseCollides`.
`KillInSave` leaves any prefix of what `save_run` does.

**EmbeddingCache** is `DenseIndex.build` by several processes on one cache directory.
`store` writes `<key>.tmp.npz` and renames it; every writer of a key uses the same
temporary name, so that a file, known by what it was opened as, can be emptied or
renamed by another writer while it is open. `tmp` and `entry` are the names, `files` what
the files hold: an archive has its vectors (`body`) first and its directory (`dir`)
last. `Hit`, `Miss`, `ReadFails` and `HitUnreadable` are the outcomes of `load`; `Open`,
`WriteBody`, `WriteDir`, `Rename` and `StoreFails` the steps of `store`; `Kill` ends a
process anywhere. `Key` is `key()`: the encoder's description of itself, in which the
hashing encoder leaves out its prefix.

**Retrieval** is one query: `Fuse` is the first reciprocal rank fusion, `Follow` takes
the next frontier node of `expand`, `Visit` follows its next link (`PassOver`, `FindNew`,
`MeetSeed` and `MeetAgain` are the ways through the loop's body), `Deepen` is the next
depth, `FuseAgain` the second fusion with the graph's list, `Rerank` the reordered head.
The variables between `depth` and `nextOrigins` are the locals of `expand`: `hop_of`, the
candidates in the order they were found, their evidence, and both frontiers with the
seeds carried along. The corpus (who calls whom) is chosen initially, and so is the
query, as the lists its retrievers return. Scores are sums and rankings are sorts, written
without a fold so that proofs can expand them.

The `MC...` modules give TLC its instances and symmetry sets.

Definitions marked *Mutant* are plausible bugs: each is paired in
`PROJECT.json` with a definition it replaces and a property that is then violated.

## 3. Runs

| Run | Properties | Shows | Bounds |
|---|---|---|---|
| `checkpoint_atomic` | `AckedSurvive`, `ImplementsDurableMap` | with atomic writes acknowledged records survive and the checkpoint implements `DurableMap` | 2 functions, 2 configurations, 2 rounds |
| `checkpoint_torn` | `OneConfiguration`, `RoundsIncrease`, `LossIsBounded` | with every torn outcome: one configuration per file, the last record is the newest, at most one acknowledged record lost per torn line | 2 functions, 2 configurations, 3 rounds |
| `enrich_one` | `RepairQuotesPreviousReply`, `RecordExplained`, `TruncatedGetsMoreRoom`, `Terminates` | repair notes, budgets, the record, termination | 3 attempts; budgets 32, 500, 768, 2048 and by context |
| `model_run` | `ArtifactBehindCheckpoint`, `PassedMeansCovered`, `RecordsAreGated`, `CompletedStays`, `UsesDurableMap` | with every torn outcome: artifact and status behind the checkpoint, two functions to a torn line; gated records; completed functions stay, but for an unterminated last record; `DurableMap` until a line is damaged | 3 functions, 2 configurations, 1 gate, 2 kernels, 2 rounds, `materialize_every` 2 |
| `run_directory` | `RecordsOfOneBase`, `ManifestVouches`, `FrozenStays`, `LongestSurvives` | what is restored, frozen and enriched never mixes two `base.json` and never loses the longest checkpoint with a record | 2 contents, 3 kernels, 3 lines |
| `run_directory_resume` | `ResumeFindsPreviousRun` | **violated**: a restore from the output of a lost session finds nothing | same |
| `model_queue` | `OneResident`, `Accounted`, `IsolatesFailures`, `ShortOnlyWhenHeavier`, `CapIsLongest`, `RefusedOnlyAfterFailure` | one model at a time, isolated failures, true statuses but for an interrupted turn, room for the generation but for what loading left idle, the longest prompt | 2 GPUs of 8 units, 3 models, 4 turns, weights up to 1 unit heavier per GPU, 1 unit left idle by loading |
| `resumable_enrich` | `FinishedRunKeepsPrior`, `SavedOutputHasNoGaps` | finished runs keep prior work; saved outputs have no gaps | 3 functions, 3 runs |
| `index_build` | `StaleOnlyAfterFaissFailed`, `FingerprintVouches`, `RefusedIsRebuilt` | no stale, torn or mock index in use until FAISS fails; fingerprints vouch; refused is rebuilt | 3 contents |
| `suite_runner` | `ReuseIsFaithful`, `ReportShowsPlan`, `StoredRunsKept` | faithful reuse, complete reports, nothing written over | 4 planned runs, 3 of one configuration; 2 sessions; 2 suffixes |
| `embedding_cache` | `UnreadableOnlyWhenShared`, `VectorsAreOfEncoder`, `HealsUnlessCut` | when an entry cannot be read, when it heals, whose vectors an index gets | 2 processes, 3 encoders, 4 runs, 6 files |
| `retrieval` | `SearchTypeOK`, `HopIsDistance`, `EvidenceIsSupport`, `BetterSeedsFirst`, `GraphOnlyLifts` | the capped expansion against a reference definition of reachability; the second fusion | every corpus of 5 functions and up to 4 calls, 6 queries, 2 seeds, depth 2, 2 neighbours, 2 added |

The run that ends in a violation checks a sentence of the repository against what
the code does; `PROJECT.json` quotes the sentence under "findings". The type
invariants that no run lists are theorems and are not run again, and so is
`ExecutedOnceASession`.

*Why the bounds are enough.* A torn line needs one crash to be made, one session to
be continued in, and another to be refused by: three rounds of one function, or two
of two, reach all of it, and the second configuration meets every state of the file.
Three attempts let an error stand between a refused reply and the prompt that
would quote it. Two kernels let every file of the first be met by the second, and a kernel
opens the checkpoint again after a cell that raised, so that a line is torn, continued
and refused within them; one gate, with a checkpoint and bound to the kernel, stands for
the four. Three functions under `materialize_every` 2 let the artifact lag behind the
checkpoint, which loses two of them to one torn line, and two rounds let a failed
function be retried. Three kernels of a run directory
give a restore two inputs of different lengths, one of them a cut-off copy. Four turns
let a model be tried, fail, be followed by others and be tried again; the three models
exercise the three placements, and the capacities are chosen so that one leftover unit
decides a fit. Three runs let a resumed run be cut short and resumed. Three corpus
contents let an index be two contents behind. Three labels of one configuration let a
reused run be followed by another, and two suffixes let them collide or not. Two
processes storing one key and two more runs reach an entry that is published unfinished,
read, finished and replaced; of the three encoders one names itself fully and two
share a name. Five functions with two seeds, two added and depth two let the cap cut a
frontier in its middle, two walks meet in one function and a seed reach another. What
these bounds leave open the proofs close for the proved components.

Deadlock checking is off where the system really stops: a budget of kernels, runs or
sessions that is used up (`MaxKernels`, `MaxRuns`, `MaxSessions`), a queue that has
returned or raised, a query that is answered.

*Fairness.* `WF(Step)` of `EnrichOne`: the loop is straight code and a generation is
bounded by its token budget. `WF(Build(p))` of `EmbeddingCache`, for each process: a process
that is not killed is scheduled. A kill or a failing disk is never obliged to happen,
and nothing obliges the user to start anything. The other modules promise nothing
eventually.

## 4. Proofs

Every theorem holds for all values of the constants under the named assumptions of
its module; two of them also assume that interrupted writes leave all or nothing
(`AtomicWrites`).

| Module | Theorem | States |
|---|---|---|
| `CheckpointProofs` | `CheckpointOneConfiguration`, `CheckpointRoundsIncrease`, `CheckpointMemoryCoversFile`, `CheckpointLossIsBounded` | the invariants they are named after, whatever an interrupted write leaves; with the third, `TypeOK` |
| | `AtomicWritesAckedSurvive` | `AckedSurvive`, under `AtomicWrites` |
| | `CheckpointIsDurableMap` | `ImplementsDurableMap`, under `AtomicWrites` |
| `EnrichmentProofs` | `EnrichOneRepairQuotesPreviousReply`, `EnrichOneRecordExplained` | the invariants they are named after |
| | `EnrichOneRetries` | `TypeOK`, `RetriesFollowRetryable`, `RetryableUsesEveryAttempt` |
| | `EnrichOneTruncatedGetsMoreRoom` | the action property |
| | `ResumableTypeOK`, `ResumableKeepsPrior`, `ResumableOutputHasNoGaps` | `LoopTypeOK`, `FinishedRunKeepsPrior`, `SavedOutputHasNoGaps` of `ResumableEnrich` |
| `ModelRunProofs` | `ArtifactAlwaysBehind` | `TypeOK`, `ArtifactBehindCheckpoint` |
| | `PassedAlwaysCovered` | `PassedMeansCovered` |
| | `RecordsAlwaysGated`, `CompletedAlwaysStays` | the action properties `RecordsAreGated`, `CompletedStays` |
| | `CheckpointUsedAsMap` | `UsesDurableMap` |
| `BenchmarkProofs` | `NoStaleIndexReuse` | `IndexTypeOK`, `StaleOnlyAfterFaissFailed` |
| | `FingerprintAlwaysVouches` | `FingerprintVouches` |
| | `RefusedIsRebuiltAlways` | `RefusedIsRebuilt` |
| | `SuiteTypeOK`, `SuiteReuseIsFaithful`, `SuiteReportShowsPlan`, `SuiteExecutedOnce` | `TypeOK`, `ReuseIsFaithful`, `ReportShowsPlan`, `ExecutedOnceASession` |
| | `SuiteStoredRunsKept` | the action property `StoredRunsKept` |
| `RunDirectoryProofs` | `RunDirectoryTypeOK`, `RunDirectoryRecordsOfOneBase`, `RunDirectoryManifestVouches` | the invariants they are named after |
| | `RunDirectoryFrozenStays`, `RunDirectoryLongestSurvives` | the action properties |
| `ModelQueueProofs` | `QueueTypeOK`, `QueueOneResident`, `QueueAccounted`, `QueueIsolatesFailures`, `QueueShortOnlyWhenHeavier`, `QueueCapIsLongest` | the invariants they are named after |
| | `QueueRefusedOnlyAfterFailure` | the action property |
| `ResearchProofs` | `CacheTypeOK`, `CacheUnreadableOnlyWhenShared`, `CacheVectorsAreOfEncoder` | the invariants they are named after |
| | `SearchTypesHold`, `SearchHopIsDistance`, `SearchEvidenceIsSupport`, `SearchBetterSeedsFirst`, `SearchGraphOnlyLifts` | `SearchTypeOK` and the other invariants of `Retrieval` |

*Checkpoint.* `RoundsIncrease` alone is not inductive: a session appends the round
after the one in its memory, which helps only if memory covers the file; and memory
covers the file only because `_load` takes the last record, which is the newest only
because rounds increase. The invariant has both, with the fact that an open file
carries its header. Torn writes are the delicate case: a line that is joined by the
next becomes malformed and leaves the set of records, so that records disappear from
the middle of the order, which preserves it. `LossIsBounded` compares two counts
that rise at different steps: a torn line is malformed at once, but the record it spoils
is lost only when the next line joins it. `LossInv` therefore counts settled lines alone,
those that nothing can be joined to any more: a write settles at most one line, and if
that line is malformed, at most the record of one function goes with it. For `AckedSurvive` the invariant
adds that every line of the file is well formed and terminated, which holds only
without torn writes; without the assumption it is false (section 5). The refinement
adds that an open session's memory is exactly what a load of the file would give
(`MemoryIsFile`): the appended record becomes the last of its function and leaves all
others and the header alone.

*enrich_one.* The invariant says of every earlier attempt that its last log entry is
retryable, ties `category`, `lastRaw` and the log of the attempt just before together
at the top of the loop, and says that an out-of-memory error has been logged whenever
its retry is under way (`OutOfMemoryLogged`): an exception that escapes is explained.
`TruncatedGetsMoreRoom` rests on `BudgetIsGiven`: what an attempt was given follows from
the log entry before it alone, and out-of-memory errors only lower it. The proof showed
that an earlier form of the property was false: the code doubles the fixed budget, not
the last one, so that a second truncation in a row gets no more room than the first.

*Resumable loops.* `ResumableInv` says that the nodes in memory are exactly those the walk
has passed, with every completed one of the input among them (`ResultIsPassed`), that a
saved output is a prefix of the walk, and that a finished run has saved all of it.

*Model run.* While a full run has the checkpoint open, its gates have passed under the
checkpoint's configuration, every function is either still to do and not completed, or
recorded, and an artifact that is about to settle the status shows every function
(`InRun`, `ToDoOpen`, `Settling`). What torn writes cost is counted: the artifact and the
open session's memory may know two functions for each malformed line that the file no
longer has, the unterminated record a session had loaded and the acknowledged one that
joined it, but only one for a last line that is cut short and not yet joined (`Budget`,
`LossInBudget`). Without that difference the bound is not inductive, since a record joins a
malformed line without making another. `Covered` is the same count for a status that has
passed: the artifact is only ever rewritten from records that lack no more than the
budget. `FileInOrder` has what makes the last record of a function its newest, and
`MemoryIsFile` that until a line is damaged the open session's memory is what a load
would give: on it rests `UsesDurableMap`. Steps outside a full run leave the checkpoint and
the artifact alone (`OutsideFrame`), so that the action properties and the refinement are
about the few actions that write the file.

*Index build.* A build that was killed leaves files of any age, so that nothing is
known of them but through the fingerprint. The invariant says, place by place, what
a build in progress has established (`Progress`), and that from its first write on
the fingerprint on disk is of an older content (`InOrder`): contents never come back.
All of it is claimed only until FAISS fails (`Sound`); what holds also afterwards is the
type and that a build is of the present source (`Current`).

*Run directory.* `SoundDir` is what is true of every run directory there ever was, so
that it holds of an input because it held of the working directory it once was: a log
is about what its header says, a readable manifest is of the queries beside it.
`Kernel` adds what the running kernel has established by its stage: the base at hand is
the directory's, and between the two writes of a freeze the queries are its own and the
manifest is unusable. `LongestSurvives` follows because a copy only ever replaces a
shorter log, and its source stays where it is; a record that is cut short never takes away
a line that has its line break.

*Model queue.* `Turns` says where there is a handle, `Holding` ties memory to it (without a
handle, and not between the load and the handle, the current model holds nothing), `Ledger` the manifest to the way
turns ended, with the results of the turns there are (`Told`) and but for the model whose
turn was interrupted, `Idle` that nothing is left with the allocator between turns unless
a load failed or the queue was interrupted, `Searching` that the longest fitting prompt stays between `lo` and `hi`. `PlansLeaveRoom`
and `ShardingTakesWhatOneGpuTakes` are the arithmetic on all placements: a plan leaves on
each GPU what was reserved, although the reservation is per GPU and the fit is decided over
all. `ShortOnlyWhenHeavier` is about that plan, with the allocator's idle memory counted
back. `CapIsLongest` rests on the cost of a prompt growing with its length.

*Suite runner.* `Remembered` says that what `executed` holds is stored, successful and of
this session and key; `Dated` that no stored run is of a later session; both give
`ReuseIsFaithful` and, with `SuccessRemembered` (a success of this session is in
`executed`), `ExecutedOnceASession`. `Passed` says that every position behind the current one
has a whole record under its label, where `DoneShown` answers for the labels a resumed
session skips; the report inherits both. `StoredRunsKept` needs the identities: one that is being
executed is not yet stored, because a session and position come once, and a reused one is
written only where `Exists` says there is none.

*Embedding cache.* `Writing` says of each writer what its open file has by its place in
`store`, `OneKey` that a file is under names and in hands of one key only, `KeptParts` that
whatever a file holds was written by an encoder of that key. A file that is named as an
entry and lacks a part has a writer that lost its temporary name to another
(`MeetingsNoted`): `Alone` says that a single writer of a key still has its own. Vectors
are of a key, and a key determines the encoder unless its description is incomplete.

*Retrieval.* The theorems hold for any corpus, any lists and any limits. `StateInv` says what
the traversal's variables are to each other at any point: the next frontier is all of this
depth, the candidates are the functions with evidence. On it rest three more invariants.
`DistanceInv` says that as long as the cap is not reached everything the links followed so
far lead to is known (`Complete`): only with it is a function that is found at a depth at no
smaller distance, since a function found while there is room cannot have been passed over.
`EvidenceInv` carries the seeds of each frontier node as those that reach it
(`OriginsReach`), what is handed on as the support so far (`HandedSupport`), and counts every
link followed, whichever came first (`FollowedCount`); the walks it speaks of do not
change while their depth is explored, since what is found is outside what was in reach
before (`FindNewKeepsWalks`). `OrderInv` compares seeds along three lists at once, the rest
of the frontier, the next frontier and the candidates: what a node hands on is never better
than what was handed on before it. `GraphOnlyLifts` needs no history: it is a fact about
fusion (`OneMoreListLifts`), that one more list adds a contribution to what it holds and
changes neither the best rank nor the first list of anything else to its disadvantage.
Sums, sorts and walks are recursive functions; `RecursionExists` says that they exist and
`ClimbsToAll` is the induction on a bounded range of numbers, as a statement about sets.

Only model-checked: liveness (`Terminates`, `HealsUnlessCut`), since TLAPS
reasons about neither fairness nor `ENABLED`. Every other property of a passing run is a
theorem.

## 5. Known divergences

One sentence of the repository is refuted by a run of section 3: the notebook's
"resume with RESUME_INPUT_DIR" finds nothing, because `restore_resume_state`
(`snapshot.py:597`) looks for `runs/base-<sha12>` and `load_base_snapshot` writes
`runs/<dataset>` (`run_directory_resume`). The models show further places where the
code and what is said of it part; they are recorded here and have no run of their own.

*Checkpoint and enrichment.*

- *A torn line is tolerated, then fatal.* `Checkpoint.append` (`enrichment.py:560`) continues
  an unterminated last line; one more append puts the malformed line in the middle of
  the file, which the next session refuses as corrupt (`:523`) although the session
  before had accepted the torn line.
- *A record can be lost.* For the same reason the two joined lines are rejected, though
  the append returned after its fsync and line 481 calls the file "the source of truth".
  `AckedSurvive` fails under the outcomes of `CheckpointTorn.cfg`; `LossIsBounded` is what
  remains.
- *The artifact and the status can be ahead of the checkpoint.* After such a loss the
  artifact shows functions the checkpoint does not have, though line 481 says it "can
  always be rebuilt"; a kernel that materializes from what it loaded takes them out of the
  artifact of a model that has passed, and completed functions are enriched again.
  `ArtifactBehindCheckpoint`, `PassedMeansCovered` and `CompletedStays` say how many and
  which.
- *An error can escape `enrich_one`.* The out-of-memory retry stands inside an `except`
  clause (`enrichment.py:309`): what it raises is not caught by its siblings, while
  `:992` and `:1036` reckon with a record for every function.
- *A doubled budget can be smaller.* `min(max_new_tokens * 2, 1536)` (`enrichment.py:276`)
  lowers a fixed budget above 1536, which line 273 says is doubled. `TruncatedGetsMoreRoom`
  excludes such budgets.
- *A halved budget can be larger.* `max(128, max_new_tokens // 2)` (`enrichment.py:296`)
  raises a budget below 128, as the tests use, though lines 290 to 292 speak of a
  "halved output budget". `TruncatedGetsMoreRoom` excludes these as well.
- *Gates cannot be re-run after an edit.* `gate3` and `gate4` (`enrichment.py:850`, `:908`)
  open a checkpoint of their own under the old `config_hash` and raise
  `ResumeMismatchError`, while line 770 tells the user to "re-run the gates."
  (`GateRefused`).
- *A torn `gates.json` blocks later kernels.* `record_gate` (`enrichment.py:748`) rewrites
  it in place and reads it without a guard (`GateRaises`), while the notebook
  promises a run that "survives a lost session".
- *A resumed run that is cut short loses prior work.* `enrich_nodes` saves its own nodes
  over the output it resumes from (`colab_pipeline.py:437`) before it has walked past all
  that was there, though line 372 promises "resumable writes".

*Snapshot and queue.*

- *Restoring overwrites.* The docstring at `snapshot.py:566` says that a local file is never
  overwritten with a shorter one; a `.json` file is copied whatever is there (`:606`,
  `RestoreGates`), so that `gates.json` of an old kernel replaces a newer one.
- *The manifest keeps an old hash.* `RunContext.create` sets `base_sha256` with `setdefault`
  (`snapshot.py:526`): when `base.json` was removed, as the error advises, and regenerated,
  the manifest names the old one.
- *A failed download leaves its decompressed file.* The `finally` clause of
  `download_base_snapshot` (`snapshot.py:205`) removes the `.part` file alone.
- *Isolation has a hole in the memory.* `enrichment.py:1113` isolates a model's failure from
  the others, but memory of a load that failed stays with the allocator (`models.py:1142`),
  and the next `check_fit` counts it as taken: `RefusedOnlyAfterFailure` says when this
  may refuse a model.
- *An interrupt leaves the old status.* `except Exception` (`enrichment.py:1113`) lets the
  user's interrupt pass: the model whose turn it was keeps in `run_manifest.json` what an
  earlier kernel wrote, `enrichment_passed` perhaps. `Accounted` excepts it.
- *Loading can be counted against the room.* The free memory is read (`models.py:1205`)
  before `_cleanup_gpu` has made the allocator give back what loading no longer uses: a
  model as heavy as estimated can be refused, though lines 1198 to 1200 speak of "the
  reservation check_fit() used". `ShortOnlyWhenHeavier` counts that memory back.
- *Unloading can end the queue.* `unload_model` raising in the `finally` clause
  (`enrichment.py:1120`) ends the queue whatever `stop_on_failure` says: `IsolatesFailures` is
  what remains.

*Indexes, suites and the cache.*

- *A swallowed FAISS error leaves a stale index.* `create_vector_index`
  (`embedding_simple.py:193`) goes on in memory, and the fingerprint of the new corpus is
  written beside the old files, against `retrieval_eval.py:7`. `StaleOnlyAfterFaissFailed` is
  what remains.
- *`--resume` records finished runs again.* Reuse is decided before the list of finished
  labels is consulted (`suite.py:197`), so that a finished label whose configuration was
  executed in this session gets a second record (`cli.py:176`, `README.md:456`).
- *A torn result blocks a suite.* `save_run` (`experiment.py:318`) writes in place; a
  torn `result.json` stops every later session, a torn `per_query.jsonl.gz` its report
  (`Start`, `Report`), while `README.md:456` offers `--resume`.
- *The cache key misses a prefix.* `dense.py:156` keys by "model + prefixes", but
  `HashingEncoder.info` (`:62`) leaves its prefix out: two hashing encoders share an entry
  (`VectorsAreOfEncoder` excepts them).
- *An unreadable entry is not always ignored.* `dense.py:186` says it is; a truncated archive
  raises `BadZipFile` or `EOFError`, which the clause does not catch (`HitUnreadable`).

## 6. Abstractions

- Prompts, replies, enrichments and metrics are abstracted to what control flow
  tests: parses or not, truncated or not, completed or not.
- What a write in place that is cut short leaves is one of a few: of a checkpoint's line
  nothing, a fragment that does not parse, everything but the newline, or everything; of
  other files nothing new or remains that do not parse. Renames are atomic and fsynced
  lines durable. `RunDirectory` counts lines and keeps of the last one whether it has its
  line break.
- In `EnrichOne` an `OSError` of the attempts log and the user's interrupt are left out:
  either leaves `enrich_one` without a record, which `ModelRun` has as `FullRaises`.
- One process works on a run directory or suite at a time, as the notebook and the
  command line do.
- In `ModelRun` a loop of the full run takes the functions in their order, which is that
  of `flatten_functions`. There, `base.json` does not change within a run directory; in `RunDirectory` it
  does.
- In `RunDirectory` a run directory has one model's checkpoint, since each file is
  restored by itself; inputs are given explicitly, in any order; a download is the content
  it yields, because it goes to a file of its own and is renamed.
- In `ModelQueue` memory is in whole units of at least a third of a GiB, so that the
  0.3 GiB `assert_gpu_clean` overlooks are none; loading leaves at most `Temporary` units
  idle on a GPU it uses; `required_headroom_gib` and
  `estimate_weights_gib` are constants of each model; there are one or two GPUs.
- In `IndexBuild` the corpora are independent, since each has a directory of its own.
- In `SuiteRunner` ids of executed runs are distinct (time and two random bytes);
  `partial` counts as `ok`, as it does in the code.
- In `EmbeddingCache` one corpus of texts is followed; texts are hashed into the key, so
  that another corpus has other entries. An archive is two writes, its vectors and its
  directory.
- In `Retrieval` retrievers are the lists they return and the cross-encoder is any order
  of the pool; scores are integers (`Scale` is a common multiple of the divisors); a call
  is followed both ways; dependency relations, routing, the final `top_k` and the cut of
  the evidence shown are left out.
- Bounds on counters: `MaxRound`, `MaxKernels`, `MaxLines`, `MaxRuns`, `MaxVersion`,
  `MaxSessions`, `MaxFiles`, `MaxCalls`, `Extra`, `Temporary`.

## 7. Not modelled

By lines, most of the repository is vendored C and C++ that Optima analyzes
(`optima-test-suite/`): curl, libpng, a chess engine. They are inputs, and no
behaviour of Optima is in them. The program itself is Python; of it the modules cover
the parts that keep state across steps. Left out:

- *Static analyzer, corpus and document construction*: translation of an AST or of JSON
  into other data, in one pass, without state.
- *Prompt reduction ladder*: a fixed list of text reductions tried until the prompt
  fits; `EnrichOne` has its two outcomes. A model would restate the list.
- *LM Studio client*: an HTTP client without state; its attempts on one function are one
  outcome of `ResumableEnrich`, and its loop is the simpler relative of `enrich_one`.
- *Model registry and downloads, quantization settings, `emergency_unload`*: calls into
  libraries around `ModelQueue`'s actions, without decisions of their own.
- *`_Caches` of the suite runner*: one session's memory. Its key is stale after an
  unexpected error (`suite.py:105`), and the run that then gets no encoder loads its own
  (`pipeline.py:118`): the result is the same.
- *Retrievers, encoders, cosine search, routing profiles*: numeric scoring; `Retrieval`
  starts from their lists.
- *Metrics, bootstrap statistics, evaluation harness, plots, retrieval evaluation on
  Kaggle*: floating point over finished results, without resumption or shared state.
- *Ablation plan builder*: enumerates configurations; that labels are unique is the
  assumption `PlanAssumption`.
- *Legacy RAG pipeline, command lines, scripts*: sequential dispatch.
