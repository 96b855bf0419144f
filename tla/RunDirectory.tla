---------------------------- MODULE RunDirectory ----------------------------
(***************************************************************************)
(* The run directory of optima_kaggle/snapshot.py over several kernels:    *)
(* load_base_snapshot and download_base_snapshot, RunContext.create,       *)
(* restore_resume_state with find_resume_dirs, and freeze_benchmark.       *)
(*                                                                         *)
(* A kernel has a working directory and, attached read-only, the working   *)
(* directories of earlier kernels.  It may be started again in the same    *)
(* working directory or in an empty one, and killed at any point, in the   *)
(* middle of a write too.  One data set is followed; its base.json may be  *)
(* regenerated, so that Bases has several contents, known by their sha256. *)
(*                                                                         *)
(* load_base_snapshot names a run directory after the data set,            *)
(* download_base_snapshot after the content.  Of a checkpoint the model    *)
(* keeps what restoring and opening it look at: the base of its header,    *)
(* its lines, the bases its records are about, and whether the last line   *)
(* is cut off.  ModelRun and Checkpoint say what is in the records.        *)
(***************************************************************************)
EXTENDS Integers, Sequences, FiniteSets

CONSTANTS
  Bases,        \* contents of base.json
  MaxKernels,   \* bound: kernels started
  MaxLines,     \* bound: lines of a checkpoint, its header included
  Dataset,      \* the name of the data set's run directory
  Missing,      \* no such file
  Torn          \* a file whose writing was cut short

ASSUME BoundsAssumption == MaxKernels \in Nat /\ MaxLines \in Nat
ASSUME SentinelsAssumption ==
  /\ Dataset \notin Bases
  /\ Missing # Torn
  /\ {Missing, Torn} \cap Bases = {}

VARIABLES
  root,      \* the working directory: a run directory under each name
  inputs,    \* the working directories of earlier kernels, as attached
  kernel,    \* how many kernels have been started
  base,      \* the content of this kernel's BASE_JSON, Missing when none runs
  name,      \* the name of its run directory, ctx.run_dir
  stage,     \* the notebook cell it is in
  source,    \* restoring: the input being copied from, 0 for none
  todo       \* restoring: the inputs left

vars == <<root, inputs, kernel, base, name, stage, source, todo>>

-----------------------------------------------------------------------------
(***************************************************************************)
(* Files.                                                                  *)
(***************************************************************************)

Names  == Bases \cup {Dataset}
Stamps == [base: Bases, kernel: 1..MaxKernels]
ASSUME StampsAssumption == {Missing, Torn} \cap Stamps = {}
Logs   == [header: Bases \cup {Missing}, lines: 0..MaxLines, about: SUBSET Bases, torn: BOOLEAN]

\* A benchmark and a gates.json are known by who wrote them: each kernel asks
\* for benchmark settings of its own.
RunDirs == [base: Bases \cup {Missing, Torn},
            manifest: {Missing, Torn, "whole"},
            checkpoint: Logs,
            gates: Stamps \cup {Missing, Torn},
            queries: Stamps \cup {Missing, Torn},
            frozen: Stamps \cup {Missing, Torn}]

NoLog == [header |-> Missing, lines |-> 0, about |-> {}, torn |-> FALSE]

EmptyDir == [base |-> Missing, manifest |-> Missing, checkpoint |-> NoLog, gates |-> Missing,
             queries |-> Missing, frozen |-> Missing]

EmptyRoot == [n \in Names |-> EmptyDir]

\* What writing or copying a log leaves when it is cut short: its first lines,
\* the last of them with its line break or not, of a first line that has none
\* the header or less.
FirstLines(log, n, t) ==
  [log EXCEPT !.lines = n, !.torn = t, !.about = IF n = 1 THEN {} ELSE log.about]

NoHeader == [header |-> Missing, lines |-> 1, about |-> {}, torn |-> TRUE]

Prefixes(log) ==
  {NoLog, NoHeader} \cup {FirstLines(log, n, t) : n \in 1..log.lines, t \in BOOLEAN}

-----------------------------------------------------------------------------
TypeOK ==
  /\ root \in [Names -> RunDirs]
  /\ inputs \in Seq([Names -> RunDirs])
  /\ kernel \in 0..MaxKernels
  /\ Len(inputs) <= kernel
  /\ base \in Bases \cup {Missing}
  /\ name \in Names
  /\ stage \in {"dead", "started", "loaded", "ready", "checkpoints", "gates", "restored",
                "freezing", "frozen"}
  /\ source \in 0..Len(inputs)
  /\ todo \subseteq DOMAIN inputs

Init ==
  /\ root = EmptyRoot
  /\ inputs = <<>>
  /\ kernel = 0
  /\ base = Missing
  /\ name = Dataset
  /\ stage = "dead"
  /\ source = 0
  /\ todo = {}

Dir == root[name]
Stamp == [base |-> base, kernel |-> kernel]

Writes(field, value) == root' = [root EXCEPT ![name] = [@ EXCEPT ![field] = value]]

-----------------------------------------------------------------------------
(***************************************************************************)
(* Starting a kernel.                                                      *)
(***************************************************************************)

\* The user starts a kernel, in the same working directory or, with the old
\* one attached, in a new one.
StartKernel(fresh, b, n) ==
  /\ stage = "dead"
  /\ kernel < MaxKernels
  /\ kernel' = kernel + 1
  /\ base' = b
  /\ name' = n
  /\ IF fresh THEN root # EmptyRoot /\ inputs' = Append(inputs, root) /\ root' = EmptyRoot
              ELSE UNCHANGED <<inputs, root>>
  /\ stage' = "started"
  /\ UNCHANGED <<source, todo>>

\* The advice of the error message: remove base.json, and nothing else.
RemoveBase ==
  /\ stage = "dead"
  /\ kernel < MaxKernels
  /\ root[Dataset].base # Missing
  /\ root' = [root EXCEPT ![Dataset].base = Missing]
  /\ UNCHANGED <<inputs, kernel, base, name, stage, source, todo>>

Ends == /\ stage' = "dead"
        /\ base' = Missing
        /\ name' = Dataset
        /\ source' = 0
        /\ todo' = {}
        /\ UNCHANGED <<inputs, kernel>>

\* A base.json that is there must hash to the content at hand.
Matches == Dir.base \in {Missing, base}

LoadBase ==
  /\ stage = "started"
  /\ Matches
  /\ IF Dir.base = Missing THEN Writes("base", base) ELSE UNCHANGED root
  /\ stage' = "loaded"
  /\ UNCHANGED <<inputs, kernel, base, name, source, todo>>

\* BaseJsonError: the directory holds another base.json, or a torn one.
RefuseBase ==
  /\ stage = "started"
  /\ ~Matches
  /\ Ends
  /\ UNCHANGED root

\* RunContext.create reads run_manifest.json and writes it in place.
CreateContext ==
  /\ stage = "loaded"
  /\ Dir.manifest # Torn
  /\ Writes("manifest", "whole")
  /\ stage' = "ready"
  /\ UNCHANGED <<inputs, kernel, base, name, source, todo>>

RefuseManifest ==
  /\ stage = "loaded"
  /\ Dir.manifest = Torn
  /\ Ends
  /\ UNCHANGED root

-----------------------------------------------------------------------------
(***************************************************************************)
(* restore_resume_state, file by file over the inputs in any order.        *)
(***************************************************************************)

StartRestore ==
  /\ stage = "ready"
  /\ inputs # <<>>
  /\ todo' = DOMAIN inputs
  /\ stage' = "checkpoints"
  /\ UNCHANGED <<root, inputs, kernel, base, name, source>>

\* Mutant: the data set's directory is looked for.
FromDataset(i) == inputs[i][Dataset]

\* Only a directory named after the content is looked for in an input.
From(i) == inputs[i][base]

\* Mutant: the last of several inputs wins.
TakesAlways(i) == From(i).checkpoint.lines > 0

\* A .jsonl file is copied when it has more lines than the local one.
Takes(i) == From(i).checkpoint.lines > Dir.checkpoint.lines

RestoreCheckpoint(i) ==
  /\ stage = "checkpoints"
  /\ i \in todo
  /\ source' = i
  /\ todo' = todo \ {i}
  /\ IF Takes(i) THEN Writes("checkpoint", From(i).checkpoint) ELSE UNCHANGED root
  /\ stage' = "gates"
  /\ UNCHANGED <<inputs, kernel, base, name>>

\* A .json file of the smoke directory is copied whatever is there.
RestoreGates ==
  /\ stage = "gates"
  /\ IF From(source).gates # Missing THEN Writes("gates", From(source).gates)
                                     ELSE UNCHANGED root
  /\ source' = 0
  /\ stage' = IF todo = {} THEN "restored" ELSE "checkpoints"
  /\ UNCHANGED <<inputs, kernel, base, name, todo>>

-----------------------------------------------------------------------------
(***************************************************************************)
(* freeze_benchmark: the queries first, then the manifest.                 *)
(***************************************************************************)

BeforeFreeze == stage \in {"ready", "restored"}

\* Mutant: a manifest that cannot be used is replaced.
BothUsable == Dir.queries # Missing /\ Dir.frozen \in Stamps /\ Dir.frozen.base = base

BothExist == Dir.queries # Missing /\ Dir.frozen # Missing

\* The frozen benchmark is reused when its manifest is of this base.
FreezeReuse ==
  /\ BeforeFreeze
  /\ BothExist
  /\ Dir.frozen \in Stamps
  /\ Dir.frozen.base = base
  /\ Dir.queries # Torn
  /\ stage' = "frozen"
  /\ UNCHANGED <<root, inputs, kernel, base, name, source, todo>>

\* A torn manifest, one of another base, torn queries: the cell raises.
FreezeRefuse ==
  /\ BeforeFreeze
  /\ BothExist
  /\ Dir.queries = Torn \/ Dir.frozen = Torn \/ (Dir.frozen \in Stamps /\ Dir.frozen.base # base)
  /\ Ends
  /\ UNCHANGED root

\* Mutant: the manifest is written first.
FreezeManifestFirst ==
  /\ BeforeFreeze
  /\ ~BothExist
  /\ Writes("frozen", Stamp)
  /\ stage' = "freezing"
  /\ UNCHANGED <<inputs, kernel, base, name, source, todo>>

FreezeQueries ==
  /\ BeforeFreeze
  /\ ~BothExist
  /\ Writes("queries", Stamp)
  /\ stage' = "freezing"
  /\ UNCHANGED <<inputs, kernel, base, name, source, todo>>

FreezeManifest ==
  /\ stage = "freezing"
  /\ Writes("frozen", Stamp)
  /\ stage' = "frozen"
  /\ UNCHANGED <<inputs, kernel, base, name, source, todo>>

-----------------------------------------------------------------------------
(***************************************************************************)
(* The cells after that: gates and enrichment (ModelRun), as far as they   *)
(* write the files that are restored.                                      *)
(***************************************************************************)

\* The gates are run.  record_gate cannot read a torn file.
RunGates ==
  /\ stage = "frozen"
  /\ Dir.gates # Torn
  /\ Dir.gates # Stamp
  /\ Writes("gates", Stamp)
  /\ UNCHANGED <<inputs, kernel, base, name, stage, source, todo>>

\* require_all_gates_passed: of this base, and the first gate of this session.
GatesPassed == Dir.gates = Stamp

\* A checkpoint of another base is refused, one without a header too.
Opens(log) == log.lines = 0 \/ log.header = base

Created(log) ==
  IF log.lines = 0 THEN [header |-> base, lines |-> 1, about |-> {}, torn |-> FALSE]
                   ELSE log

\* Onto a line without its line break the record is written as its
\* continuation: a header is lost that way.
WithRecord(log) ==
  IF ~log.torn THEN [log EXCEPT !.lines = @ + 1, !.about = @ \cup {base}]
  ELSE IF log.lines = 1 THEN [NoHeader EXCEPT !.torn = FALSE]
  ELSE [log EXCEPT !.torn = FALSE]

CanEnrich ==
  /\ stage = "frozen"
  /\ GatesPassed
  /\ Opens(Dir.checkpoint)
  /\ WithRecord(Created(Dir.checkpoint)).lines <= MaxLines

Enrich ==
  /\ CanEnrich
  /\ Writes("checkpoint", WithRecord(Created(Dir.checkpoint)))
  /\ UNCHANGED <<inputs, kernel, base, name, stage, source, todo>>

-----------------------------------------------------------------------------
(***************************************************************************)
(* A kernel ends between two writes or within one.                         *)
(***************************************************************************)

Stop == stage # "dead" /\ Ends /\ UNCHANGED root

\* shutil.copy2 of a local base.json; a download is renamed into place.
KillInLoad ==
  /\ stage = "started"
  /\ name = Dataset
  /\ Dir.base = Missing
  /\ Writes("base", Torn)
  /\ Ends

KillInCreate ==
  /\ stage = "loaded"
  /\ Dir.manifest # Torn
  /\ Writes("manifest", Torn)
  /\ Ends

KillInRestore ==
  /\ \/ /\ stage = "checkpoints"
        /\ \E i \in todo : /\ Takes(i)
                           /\ \E log \in Prefixes(From(i).checkpoint) : Writes("checkpoint", log)
     \/ /\ stage = "gates"
        /\ From(source).gates # Missing
        /\ Writes("gates", Torn)
  /\ Ends

KillInFreeze ==
  /\ \/ BeforeFreeze /\ ~BothExist /\ Writes("queries", Torn)
     \/ stage = "freezing" /\ Writes("frozen", Torn)
  /\ Ends

\* Within record_gate, or within Checkpoint's writes: of a new file any part, of
\* an old one all that was there and part of a line.
KillInWork ==
  /\ \/ stage = "frozen" /\ Dir.gates \notin {Torn, Stamp} /\ Writes("gates", Torn)
     \/ /\ CanEnrich
        /\ LET new == WithRecord(Created(Dir.checkpoint))
           IN \/ /\ Dir.checkpoint.lines = 0
                 /\ \E log \in Prefixes(new) : Writes("checkpoint", log)
              \/ Writes("checkpoint", [new EXCEPT !.torn = TRUE])
  /\ Ends

Kill == Stop \/ KillInLoad \/ KillInCreate \/ KillInRestore \/ KillInFreeze \/ KillInWork

-----------------------------------------------------------------------------
Load    == LoadBase \/ RefuseBase \/ CreateContext \/ RefuseManifest
Restore == StartRestore \/ RestoreGates \/ \E i \in DOMAIN inputs : RestoreCheckpoint(i)
Freeze  == FreezeReuse \/ FreezeRefuse \/ FreezeQueries \/ FreezeManifest

Next ==
  \/ \E fresh \in BOOLEAN, b \in Bases : \E n \in {Dataset, b} : StartKernel(fresh, b, n)
  \/ RemoveBase
  \/ Load
  \/ Restore
  \/ Freeze
  \/ RunGates
  \/ Enrich
  \/ Kill

Spec == Init /\ [][Next]_vars

-----------------------------------------------------------------------------
(***************************************************************************)
(* Properties.                                                             *)
(***************************************************************************)

Roots == {root} \cup {inputs[i] : i \in DOMAIN inputs}

\* No checkpoint, here or in an input, has records about another base.json than
\* the one its header names, and under a content's name the header names that
\* content: restore_resume_state looks for nothing else, and open_or_create
\* refuses what a changed base.json leaves in a directory named after the data
\* set.
RecordsOfOneBase ==
  \A r \in Roots, n \in Names :
    LET log == r[n].checkpoint
    IN /\ log.about \subseteq {log.header}
       /\ n \in Bases => log.header \in {n, Missing}

\* A manifest that can be read is of the queries beside it, whatever writes
\* were cut short before it was written.
ManifestVouches ==
  \A r \in Roots, n \in Names :
    r[n].frozen \in Stamps => r[n].queries = r[n].frozen

\* A benchmark that was returned to a kernel is the one every later kernel of
\* that directory is given: its queries and its manifest never change again,
\* whatever settings the kernel asks for and wherever it is killed.
FrozenStays ==
  [][\A n \in Names :
       root[n].frozen \in Stamps /\ root' # EmptyRoot
         => root'[n].frozen = root[n].frozen /\ root'[n].queries = root[n].queries]_vars

\* Of the base.json at hand the longest checkpoint with a record there is, here
\* or in an input, is never lost: not even to a copy or an append that is cut
\* short.
LinesOf(r, b) == {r[n].checkpoint.lines : n \in {m \in Names : r[m].checkpoint.header = b}}
Reach(b, n) == \E r \in Roots : \E k \in LinesOf(r, b) : k >= n

LongestSurvives ==
  [][\A b \in Bases, n \in 2..MaxLines : base = b /\ Reach(b, n) => Reach(b, n)']_vars

\* What the notebook promises: the checkpoint of a session that was lost is
\* there again after a restore from its output.
ResumeFindsPreviousRun ==
  [][stage = "gates" /\ stage' = "restored"
       => \A i \in DOMAIN inputs, n \in Names :
            inputs[i][n].checkpoint.header = base
              => inputs[i][n].checkpoint.lines <= Dir'.checkpoint.lines]_vars
=============================================================================
