----------------------------- MODULE Checkpoint -----------------------------
(***************************************************************************)
(* The class Checkpoint of optima_kaggle/enrichment.py: an append-only,    *)
(* fsynced JSONL file, opened and written by one process at a time, which  *)
(* may stop at any moment, in the middle of a write too.                   *)
(***************************************************************************)
EXTENDS JsonlFile, FiniteSets

CONSTANTS
  Outcomes,    \* what an interrupted write can leave, a part of WriteOutcomes
  MaxRound     \* bound: no function is recorded more often than this

ASSUME OutcomesAssumption == Outcomes \subseteq WriteOutcomes
ASSUME MaxRoundAssumption == MaxRound \in Nat

VARIABLES
  file,        \* the checkpoint file
  mode,        \* "closed", "open", or the exception open_or_create raised
  header,      \* self.header: the configuration, or NoHeader
  records,     \* self._records
  acked        \* observer: the last record whose append returned

vars == <<file, mode, header, records, acked>>

NoHeader   == "no header"
Unloaded   == [f \in Functions |-> NoRecord]
Modes      == {"closed", "open", "mismatch", "corrupt"}

TypeOK ==
  /\ file \in Files
  /\ mode \in Modes
  /\ header \in Configs \cup {NoHeader}
  /\ records \in [Functions -> MaybeRecords]
  /\ acked \in [Functions -> MaybeRecords]

Init ==
  /\ file = EmptyFile
  /\ mode = "closed"
  /\ header = NoHeader
  /\ records = Unloaded
  /\ acked = Unloaded

-----------------------------------------------------------------------------
(***************************************************************************)
(* open_or_create: a missing or empty file is created with its header, an  *)
(* existing one is loaded and its header compared.                         *)
(***************************************************************************)

Create(c) ==
  /\ mode = "closed"
  /\ ~HasContent(file)
  /\ file' = AddLine(EmptyFile, HeaderLine(c), TRUE)
  /\ mode' = "open"
  /\ header' = c
  /\ records' = Unloaded
  /\ UNCHANGED acked

CrashInCreate(c, outcome) ==
  /\ mode = "closed"
  /\ ~HasContent(file)
  /\ file' = TornWrite(EmptyFile, HeaderLine(c), outcome)
  /\ UNCHANGED <<mode, header, records, acked>>

\* Mutant: the stored header is not compared with the caller's.
ResumeAnyHeader(c) ==
  /\ mode = "closed"
  /\ HasContent(file)
  /\ Loads(file)
  /\ mode' = "open"
  /\ header' = c
  /\ records' = LoadedRecords(file)
  /\ UNCHANGED <<file, acked>>

\* Mutant: the records of the file are not taken over.
ResumeWithoutRecords(c) ==
  /\ mode = "closed"
  /\ HasContent(file)
  /\ Loads(file)
  /\ LoadedHeader(file) = c
  /\ mode' = "open"
  /\ header' = c
  /\ records' = Unloaded
  /\ UNCHANGED <<file, acked>>

Resume(c) ==
  /\ mode = "closed"
  /\ HasContent(file)
  /\ Loads(file)
  /\ LoadedHeader(file) = c
  /\ mode' = "open"
  /\ header' = c
  /\ records' = LoadedRecords(file)
  /\ UNCHANGED <<file, acked>>

RefuseMismatch(c) ==
  /\ mode = "closed"
  /\ HasContent(file)
  /\ Loads(file)
  /\ LoadedHeader(file) # c
  /\ mode' = "mismatch"
  /\ UNCHANGED <<file, header, records, acked>>

RefuseCorrupt ==
  /\ mode = "closed"
  /\ HasContent(file)
  /\ ~Loads(file)
  /\ mode' = "corrupt"
  /\ UNCHANGED <<file, header, records, acked>>

-----------------------------------------------------------------------------
(***************************************************************************)
(* append: one line, flushed and fsynced, then the dictionary.             *)
(***************************************************************************)

\* Mutant: the round of a prior record is forgotten.
NextRecordRoundOne(f, b) == RecordLine(f, b, 1)

NextRecord(f, b) == RecordLine(f, b, RoundOf(records[f]) + 1)

AppendRecord(f, b) ==
  /\ mode = "open"
  /\ RoundOf(records[f]) < MaxRound
  /\ file' = AddLine(file, NextRecord(f, b), TRUE)
  /\ records' = [records EXCEPT ![f] = NextRecord(f, b)]
  /\ acked' = [acked EXCEPT ![f] = NextRecord(f, b)]
  /\ UNCHANGED <<mode, header>>

CrashInAppend(f, b, outcome) ==
  /\ mode = "open"
  /\ RoundOf(records[f]) < MaxRound
  /\ file' = TornWrite(file, NextRecord(f, b), outcome)
  /\ mode' = "closed"
  /\ header' = NoHeader
  /\ records' = Unloaded
  /\ UNCHANGED acked

\* The process ends, crashes between two calls, or lets the exception go.
Stop ==
  /\ mode # "closed"
  /\ mode' = "closed"
  /\ header' = NoHeader
  /\ records' = Unloaded
  /\ UNCHANGED <<file, acked>>

Next ==
  \/ \E c \in Configs : Create(c) \/ Resume(c) \/ RefuseMismatch(c)
  \/ \E c \in Configs, outcome \in Outcomes : CrashInCreate(c, outcome)
  \/ RefuseCorrupt
  \/ \E f \in Functions, b \in BOOLEAN :
        \/ AppendRecord(f, b)
        \/ \E outcome \in Outcomes : CrashInAppend(f, b, outcome)
  \/ Stop

Spec == Init /\ [][Next]_vars

-----------------------------------------------------------------------------
(***************************************************************************)
(* Safety.                                                                 *)
(***************************************************************************)

\* ResumeMismatchError (open_or_create) keeps results of two configurations
\* apart: the session appending to a file is of the configuration its header
\* names, whatever was torn before.
OneConfiguration ==
  mode = "open" => \A i \in HeaderIndices(file) : file.lines[i].cfg = header

\* "Last write wins" (_load) is sound because rounds of a function only grow
\* along the file, over any number of sessions and torn writes: the last
\* record of a function is its newest.
RoundsIncrease ==
  \A f \in Functions : \A i, j \in RecordIndices(file, f) :
     i < j => file.lines[i].round < file.lines[j].round

\* Whatever is torn or lost, an open session never misses a record that is
\* still readable in the file: is_completed and get never answer from a past
\* older than the disk.
MemoryCoversFile ==
  mode = "open" =>
    \A f \in Functions : \A i \in RecordIndices(file, f) :
       RoundOf(records[f]) >= file.lines[i].round

\* The promise of "append-only, fsynced ... the source of truth": a record
\* whose append returned, or a newer one of its function, is what the next
\* session loads.
AckedSurvive ==
  \A f \in Functions : acked[f] # NoRecord =>
    /\ Loads(file)
    /\ RoundOf(LoadedRecords(file)[f]) >= acked[f].round

\* What torn writes can cost: each leaves at most one malformed line, and a
\* malformed line stands for at most one record whose append had returned.
\* All other such records, or newer ones, are still lines of the file.
Lost == {f \in Functions :
           /\ acked[f] # NoRecord
           /\ \A i \in RecordIndices(file, f) : file.lines[i].round < acked[f].round}

LossIsBounded ==
  Cardinality(Lost)
    <= Cardinality({i \in DOMAIN file.lines : IsMalformed(file.lines[i])})

-----------------------------------------------------------------------------
(***************************************************************************)
(* The map this file implements, when an interrupted write leaves all of   *)
(* its line or nothing of it.                                              *)
(***************************************************************************)

AbstractOwner == IF HasContent(file) THEN LoadedHeader(file) ELSE NoHeader

BoundedRecords == [kind: {"function"}, fn: Functions, ok: BOOLEAN,
                   round: 1..MaxRound]

Abstract == INSTANCE DurableMap WITH
  Results  <- BoundedRecords,
  NoResult <- NoRecord,
  NoOwner  <- NoHeader,
  owner    <- AbstractOwner,
  store    <- LoadedRecords(file),
  open     <- mode = "open",
  view     <- records

\* A checkpoint is a durable map.
ImplementsDurableMap == Abstract!Spec
=============================================================================
