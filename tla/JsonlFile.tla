----------------------------- MODULE JsonlFile -----------------------------
(***************************************************************************)
(* The bytes of a checkpoint file of optima_kaggle/enrichment.py, seen the *)
(* way Checkpoint._load sees them: a sequence of lines, each a header, a   *)
(* function record or something json.loads rejects, and whether the last   *)
(* line ends with a newline.  Appending to a file whose last line has no   *)
(* newline does not start a line: the new bytes join the last one.         *)
(***************************************************************************)
EXTENDS Integers, Sequences

CONSTANTS
  Functions,   \* function ids of base.json
  Configs      \* (base_sha256, config_hash) pairs a header can carry

\* json.dumps writes one object per line; ok stands for
\* status = "completed" and evaluation.json_valid (they are set together).
HeaderLine(c)       == [kind |-> "header", cfg |-> c]
RecordLine(f, b, n) == [kind |-> "function", fn |-> f, ok |-> b, round |-> n]

\* A torn prefix of an object, or two objects on one line: json.loads raises
\* JSONDecodeError on either.
Malformed == [kind |-> "malformed"]

RecordLines == [kind: {"function"}, fn: Functions, ok: BOOLEAN, round: Nat]
HeaderLines == [kind: {"header"}, cfg: Configs]
Lines       == RecordLines \cup HeaderLines \cup {Malformed}

Files     == [lines: Seq(Lines), newline: BOOLEAN]
EmptyFile == [lines |-> <<>>, newline |-> TRUE]

\* path.exists() and path.stat().st_size > 0
HasContent(file) == Len(file.lines) > 0

-----------------------------------------------------------------------------
(***************************************************************************)
(* Writing.                                                                *)
(***************************************************************************)

\* Mutant: the file is opened with "w".
AddLineTruncating(file, line, newline) ==
  [lines |-> <<line>>, newline |-> newline]

\* handle.write(line + "\n") on a file opened with "a": newline says whether
\* the write got as far as the newline.
AddLine(file, line, newline) ==
  [lines   |-> IF file.newline
               THEN Append(file.lines, line)
               ELSE [file.lines EXCEPT ![Len(file.lines)] = Malformed],
   newline |-> newline]

\* What an interrupted write leaves: nothing, a strict prefix of the object,
\* the whole object without its newline, or everything.
WriteOutcomes == {"nothing", "fragment", "unterminated", "complete"}

TornWrite(file, line, outcome) ==
  IF outcome = "nothing"
  THEN file
  ELSE AddLine(file, IF outcome = "fragment" THEN Malformed ELSE line,
               outcome = "complete")

-----------------------------------------------------------------------------
(***************************************************************************)
(* Reading: Checkpoint._load.                                              *)
(***************************************************************************)

IsHeader(line)    == line.kind = "header"
IsRecord(line)    == line.kind = "function"
IsMalformed(line) == line.kind = "malformed"

HeaderIndices(file)    == {i \in DOMAIN file.lines : IsHeader(file.lines[i])}
RecordIndices(file, f) == {i \in DOMAIN file.lines :
                              IsRecord(file.lines[i]) /\ file.lines[i].fn = f}

LastIn(S) == CHOOSE i \in S : \A j \in S : j <= i

\* A malformed line is skipped only when it is the last one; a file without a
\* header is refused.  Both refusals are CheckpointCorruptError.
Loads(file) ==
  /\ \A i \in DOMAIN file.lines :
        IsMalformed(file.lines[i]) => i = Len(file.lines)
  /\ HeaderIndices(file) # {}

LoadedHeader(file) == file.lines[LastIn(HeaderIndices(file))].cfg

\* self._records: the last record of a function wins.  NoRecord is the
\* function's absence from the dictionary.
NoRecord == [kind |-> "none"]

LoadedRecords(file) ==
  [f \in Functions |->
     IF RecordIndices(file, f) = {}
     THEN NoRecord
     ELSE file.lines[LastIn(RecordIndices(file, f))]]

MaybeRecords == RecordLines \cup {NoRecord}

RoundOf(record)     == IF record = NoRecord THEN 0 ELSE record.round
IsCompleted(record) == record # NoRecord /\ record.ok
=============================================================================
