-------------------------- MODULE CheckpointProofs --------------------------
(***************************************************************************)
(* Theorems about Checkpoint, for every set of functions, configurations   *)
(* and outcomes of an interrupted write.                                   *)
(***************************************************************************)
EXTENDS Checkpoint, JsonlFileProofs

-----------------------------------------------------------------------------
(***************************************************************************)
(* The invariant of the checkpoint.                                        *)
(***************************************************************************)

\* A header is the first line or nowhere.
HeaderFirst == \A i \in HeaderIndices(file) : i = 1

\* The inductive invariant behind the safety properties: "last write wins"
\* needs that memory is never behind the file, or the next round would not be
\* a new one, and the configuration needs that no second header appears.
Inv ==
  /\ TypeOK
  /\ HeaderFirst
  /\ OneConfiguration
  /\ RoundsIncrease
  /\ MemoryCoversFile

LEMMA NextRecordType ==
  ASSUME TypeOK, NEW f \in Functions, NEW b \in BOOLEAN
  PROVE  /\ NextRecord(f, b) \in RecordLines
         /\ NextRecord(f, b) \in Lines
         /\ NextRecord(f, b).round = RoundOf(records[f]) + 1
         /\ RoundOf(records[f]) \in Nat
<1>1. records[f] \in MaybeRecords
  BY DEF TypeOK
<1>2. RoundOf(records[f]) \in Nat
  BY <1>1 DEF RoundOf, MaybeRecords, RecordLines
<1> QED
  BY <1>2 DEF NextRecord, RecordLine, RecordLines, Lines

LEMMA InitInv == Init => Inv
<1> SUFFICES ASSUME Init PROVE Inv
  OBVIOUS
<1>1. file \in Files /\ DOMAIN file.lines = {}
  BY DEF Init, EmptyFile, Files
<1>2. TypeOK
  BY <1>1 DEF Init, TypeOK, Modes, Unloaded, MaybeRecords
<1>3. /\ HeaderIndices(file) = {}
      /\ \A f \in Functions : RecordIndices(file, f) = {}
  BY <1>1 DEF HeaderIndices, RecordIndices
<1> QED
  BY <1>2, <1>3 DEF Inv, HeaderFirst, OneConfiguration, RoundsIncrease, MemoryCoversFile

(***************************************************************************)
(* A file that grows by a next record keeps the order of rounds and its    *)
(* headers.                                                                *)
(***************************************************************************)
LEMMA RecordStep ==
  ASSUME Inv, mode = "open",
         NEW f \in Functions, NEW b \in BOOLEAN,
         Grows(file, file', NextRecord(f, b))
  PROVE  /\ RoundsIncrease'
         /\ HeaderFirst'
         /\ \A i \in HeaderIndices(file') : file'.lines[i].cfg = header
         /\ \A g \in Functions : \A i \in RecordIndices(file', g) :
               file'.lines[i].round <= IF g = f THEN NextRecord(f, b).round
                                                ELSE RoundOf(records[g])
<1> DEFINE line == NextRecord(f, b)
<1>1. /\ file \in Files
      /\ line.round = RoundOf(records[f]) + 1
      /\ RoundOf(records[f]) \in Nat
      /\ line.fn = f
      /\ ~IsHeader(line)
  BY NextRecordType DEF Inv, TypeOK, NextRecord, RecordLine, IsHeader
<1>2. \A g \in Functions : \A i \in RecordIndices(file, g) :
         /\ file.lines[i].round \in Nat
         /\ file.lines[i].round <= RoundOf(records[g])
  <2> SUFFICES ASSUME NEW g \in Functions, NEW i \in RecordIndices(file, g)
               PROVE  /\ file.lines[i].round \in Nat
                      /\ file.lines[i].round <= RoundOf(records[g])
    OBVIOUS
  <2>2. file.lines[i].round \in Nat
    BY <1>1, RecordIndicesType
  <2>3. RoundOf(records[g]) \in Nat
    BY DEF Inv, TypeOK, MaybeRecords, RecordLines, RoundOf
  <2> QED
    BY <2>2, <2>3 DEF Inv, MemoryCoversFile
<1> HIDE DEF line
<1>3. ASSUME NEW g \in Functions, NEW i \in RecordIndices(file', g)
      PROVE  \/ /\ i \in RecordIndices(file, g)
                /\ file'.lines[i] = file.lines[i]
                /\ i < Len(file.lines) + 1
             \/ /\ i = Len(file.lines) + 1
                /\ file'.lines[i] = line
                /\ g = f
  BY <1>1, GrowsRecords DEF line
<1>4. RoundsIncrease'
  <2> SUFFICES ASSUME NEW g \in Functions,
                      NEW i \in RecordIndices(file', g),
                      NEW j \in RecordIndices(file', g), i < j
               PROVE  file'.lines[i].round < file'.lines[j].round
    BY DEF RoundsIncrease
  <2>1. CASE j \in RecordIndices(file, g) /\ file'.lines[j] = file.lines[j]
                /\ j < Len(file.lines) + 1
    <3>1. i \in RecordIndices(file, g) /\ file'.lines[i] = file.lines[i]
      BY <1>3, <2>1, <1>1 DEF RecordIndices, Files
    <3> QED BY <3>1, <2>1 DEF Inv, RoundsIncrease
  <2>2. CASE j = Len(file.lines) + 1 /\ file'.lines[j] = line /\ g = f
    <3>1. Len(file.lines) \in Nat /\ i # Len(file.lines) + 1
      BY <1>1, <2>2 DEF Files
    <3>2. i \in RecordIndices(file, g) /\ file'.lines[i] = file.lines[i]
      BY <1>3, <3>1
    <3>3. /\ file.lines[i].round \in Nat
          /\ file.lines[i].round <= RoundOf(records[f])
      BY <1>2, <2>2, <3>2
    <3> QED BY <1>1, <2>2, <3>2, <3>3
  <2> QED BY <1>3, <2>1, <2>2
<1>5. \A i \in HeaderIndices(file') :
         i \in HeaderIndices(file) /\ file'.lines[i] = file.lines[i]
  BY <1>1, GrowsHeaders DEF line
<1>6. HeaderFirst'
  BY <1>5 DEF Inv, HeaderFirst
<1>7. \A i \in HeaderIndices(file') : file'.lines[i].cfg = header
  BY <1>5 DEF Inv, OneConfiguration
<1>8. ASSUME NEW g \in Functions, NEW i \in RecordIndices(file', g)
      PROVE  file'.lines[i].round <= IF g = f THEN line.round
                                              ELSE RoundOf(records[g])
  <2>1. RoundOf(records[g]) \in Nat
    BY DEF Inv, TypeOK, MaybeRecords, RecordLines, RoundOf
  <2> QED
    BY <1>1, <1>2, <1>3, <2>1
<1> QED
  BY <1>4, <1>6, <1>7, <1>8 DEF line

(***************************************************************************)
(* Loading brings memory up to the file.                                   *)
(***************************************************************************)
LEMMA LoadCovers ==
  ASSUME file \in Files, RoundsIncrease
  PROVE  \A f \in Functions : \A i \in RecordIndices(file, f) :
            RoundOf(LoadedRecords(file)[f]) >= file.lines[i].round
<1> SUFFICES ASSUME NEW f \in Functions, NEW i \in RecordIndices(file, f)
             PROVE  RoundOf(LoadedRecords(file)[f]) >= file.lines[i].round
  OBVIOUS
<1>1. PICK k \in RecordIndices(file, f) :
         /\ LoadedRecords(file)[f] = file.lines[k]
         /\ LoadedRecords(file)[f] \in RecordLines
         /\ \A j \in RecordIndices(file, f) : j <= k
  BY LoadedRecordsAreLast
<1>2. RoundOf(LoadedRecords(file)[f]) = file.lines[k].round
  BY <1>1 DEF RoundOf, RecordLines, NoRecord
<1>3. /\ file.lines[k].round \in Nat
      /\ file.lines[i].round \in Nat
      /\ i = k \/ i < k
  BY <1>1, RecordIndicesType
<1>4. i < k => file.lines[i].round < file.lines[k].round
  BY DEF RoundsIncrease
<1> QED
  BY <1>2, <1>3, <1>4

-----------------------------------------------------------------------------
(***************************************************************************)
(* Every step keeps the invariant.                                         *)
(***************************************************************************)

LEMMA CreateInv ==
  ASSUME Inv, NEW c \in Configs, Create(c)
  PROVE  Inv'
<1>1. /\ EmptyFile \in Files
      /\ Len(EmptyFile.lines) = 0
      /\ DOMAIN EmptyFile.lines = {}
  BY DEF EmptyFile, Files
<1>2. HeaderLine(c) \in Lines
  BY DEF HeaderLine, Lines, HeaderLines
<1>3. Grows(EmptyFile, file', HeaderLine(c))
  BY <1>1, <1>2, AddLineGrows DEF Create
<1>4. TypeOK'
  BY <1>3 DEF Create, Grows, Inv, TypeOK, Modes, Unloaded, MaybeRecords
<1>5. \A f \in Functions : RecordIndices(file', f) = {}
  BY <1>1, <1>3, GrowsRecords DEF HeaderLine, IsRecord, RecordIndices
<1>6. \A i \in HeaderIndices(file') : i = 1 /\ file'.lines[i].cfg = header'
  <2> SUFFICES ASSUME NEW i \in HeaderIndices(file')
               PROVE  i = 1 /\ file'.lines[i].cfg = header'
    OBVIOUS
  <2>1. i = 1 /\ file'.lines[i] = HeaderLine(c)
    BY <1>1, <1>3, GrowsHeaders DEF HeaderIndices
  <2>2. HeaderLine(c).cfg = c
    BY DEF HeaderLine
  <2>3. header' = c
    BY DEF Create
  <2> QED
    BY <2>1, <2>2, <2>3, Zenon
<1> QED
  BY <1>4, <1>5, <1>6 DEF Inv, HeaderFirst, OneConfiguration, RoundsIncrease,
                          MemoryCoversFile

LEMMA CrashInCreateInv ==
  ASSUME Inv, NEW c \in Configs, NEW outcome \in Outcomes, CrashInCreate(c, outcome)
  PROVE  Inv'
<1>1. /\ EmptyFile \in Files
      /\ Len(EmptyFile.lines) = 0
      /\ DOMAIN EmptyFile.lines = {}
  BY DEF EmptyFile, Files
<1>2. HeaderLine(c) \in Lines
  BY DEF HeaderLine, Lines, HeaderLines
<1>3. Grows(EmptyFile, file', HeaderLine(c))
  BY <1>1, <1>2, TornWriteGrows, OutcomesAssumption DEF CrashInCreate
<1>4. TypeOK'
  BY <1>3 DEF CrashInCreate, Grows, Inv, TypeOK
<1>5. \A f \in Functions : RecordIndices(file', f) = {}
  BY <1>1, <1>3, GrowsRecords DEF HeaderLine, IsRecord, RecordIndices
<1>6. HeaderFirst'
  BY <1>1, <1>3, GrowsHeaders DEF HeaderFirst, HeaderIndices
<1>7. mode' = "closed"
  BY DEF CrashInCreate
<1> QED
  BY <1>4, <1>5, <1>6, <1>7 DEF Inv, OneConfiguration, RoundsIncrease, MemoryCoversFile

LEMMA ResumeInv ==
  ASSUME Inv, NEW c \in Configs, Resume(c)
  PROVE  Inv'
<1>1. /\ file \in Files
      /\ file' = file
      /\ HeaderIndices(file) # {}
      /\ records' = LoadedRecords(file)
      /\ header' = LoadedHeader(file)
      /\ mode' = "open"
  BY DEF Resume, Loads, Inv, TypeOK
<1>2. TypeOK'
  BY <1>1, LoadedRecordsType DEF Resume, Inv, TypeOK, Modes
<1>3. PICK i \in HeaderIndices(file) : LoadedHeader(file) = file.lines[i].cfg
  BY <1>1, LoadedHeaderIsOne
<1>4. OneConfiguration'
  BY <1>1, <1>3 DEF Inv, HeaderFirst, OneConfiguration
<1>5. MemoryCoversFile'
  BY <1>1, LoadCovers DEF Inv, MemoryCoversFile
<1> QED
  BY <1>1, <1>2, <1>4, <1>5 DEF Inv, HeaderFirst, RoundsIncrease

LEMMA AppendInv ==
  ASSUME Inv, NEW f \in Functions, NEW b \in BOOLEAN, AppendRecord(f, b)
  PROVE  Inv'
<1>1. Grows(file, file', NextRecord(f, b))
  BY NextRecordType, AddLineGrows DEF AppendRecord, Inv, TypeOK
<1>2. TypeOK'
  BY <1>1, NextRecordType DEF AppendRecord, Grows, Inv, TypeOK, MaybeRecords
<1>3. /\ mode = "open"
      /\ header' = header
      /\ records' = [records EXCEPT ![f] = NextRecord(f, b)]
  BY DEF AppendRecord
<1>4. /\ RoundsIncrease'
      /\ HeaderFirst'
      /\ OneConfiguration'
  BY <1>1, <1>3, RecordStep DEF OneConfiguration
<1>5. MemoryCoversFile'
  <2> SUFFICES ASSUME NEW g \in Functions, NEW i \in RecordIndices(file', g)
               PROVE  RoundOf(records'[g]) >= file'.lines[i].round
    BY DEF MemoryCoversFile
  <2>1. /\ file'.lines[i].round \in Nat
        /\ RoundOf(records[g]) \in Nat
        /\ NextRecord(f, b).round \in Nat
    BY <1>1, NextRecordType, RecordIndicesType
       DEF Grows, Inv, TypeOK, MaybeRecords, RecordLines, RoundOf
  <2>2. file'.lines[i].round <= IF g = f THEN NextRecord(f, b).round
                                         ELSE RoundOf(records[g])
    BY <1>1, <1>3, RecordStep
  <2>3. RoundOf(records'[g]) = IF g = f THEN NextRecord(f, b).round
                                        ELSE RoundOf(records[g])
    <3>1. NextRecord(f, b) # NoRecord
      BY DEF NextRecord, RecordLine, NoRecord
    <3> QED
      BY <1>3, <3>1 DEF Inv, TypeOK, RoundOf
  <2> QED
    BY <2>1, <2>2, <2>3
<1> QED
  BY <1>2, <1>4, <1>5 DEF Inv

LEMMA CrashInAppendInv ==
  ASSUME Inv, NEW f \in Functions, NEW b \in BOOLEAN, NEW outcome \in Outcomes,
         CrashInAppend(f, b, outcome)
  PROVE  Inv'
<1>1. Grows(file, file', NextRecord(f, b))
  BY NextRecordType, TornWriteGrows, OutcomesAssumption DEF CrashInAppend, Inv, TypeOK
<1>2. TypeOK'
  BY <1>1 DEF CrashInAppend, Grows, Inv, TypeOK, Modes, Unloaded, MaybeRecords
<1>3. mode = "open" /\ mode' = "closed"
  BY DEF CrashInAppend
<1>4. RoundsIncrease' /\ HeaderFirst'
  BY <1>1, <1>3, RecordStep
<1> QED
  BY <1>2, <1>3, <1>4 DEF Inv, OneConfiguration, MemoryCoversFile

LEMMA NextInv == Inv /\ [Next]_vars => Inv'
<1> SUFFICES ASSUME Inv, [Next]_vars PROVE Inv'
  OBVIOUS
<1>1. ASSUME NEW c \in Configs, Create(c) \/ Resume(c) PROVE Inv'
  BY <1>1, CreateInv, ResumeInv
<1>2. ASSUME NEW c \in Configs, NEW outcome \in Outcomes, CrashInCreate(c, outcome)
      PROVE  Inv'
  BY <1>2, CrashInCreateInv
<1>3. ASSUME NEW f \in Functions, NEW b \in BOOLEAN, AppendRecord(f, b)
      PROVE  Inv'
  BY <1>3, AppendInv
<1>4. ASSUME NEW f \in Functions, NEW b \in BOOLEAN, NEW outcome \in Outcomes,
             CrashInAppend(f, b, outcome)
      PROVE  Inv'
  BY <1>4, CrashInAppendInv
<1>5. ASSUME \/ \E c \in Configs : RefuseMismatch(c)
             \/ RefuseCorrupt
             \/ Stop
      PROVE  Inv'
  <2>1. file' = file /\ acked' = acked /\ mode' \in {"closed", "mismatch", "corrupt"}
    BY <1>5 DEF RefuseMismatch, RefuseCorrupt, Stop
  <2>2. TypeOK'
    BY <1>5, <2>1 DEF Inv, TypeOK, Modes, RefuseMismatch, RefuseCorrupt, Stop,
                      Unloaded, MaybeRecords
  <2> QED
    BY <2>1, <2>2 DEF Inv, HeaderFirst, OneConfiguration, RoundsIncrease, MemoryCoversFile
<1>6. CASE UNCHANGED vars
  BY <1>6 DEF vars, Inv, TypeOK, HeaderFirst, OneConfiguration, RoundsIncrease,
              MemoryCoversFile
<1> QED
  BY <1>1, <1>2, <1>3, <1>4, <1>5, <1>6 DEF Next

LEMMA AlwaysInv == Spec => []Inv
BY InitInv, NextInv, PTL DEF Spec

(***************************************************************************)
(* Whatever interrupted writes leave behind: whole lines, fragments, lines *)
(* without a newline.                                                      *)
(***************************************************************************)

\* open_or_create: the session that appends to a file is of the configuration
\* the file's header names.
THEOREM CheckpointOneConfiguration == Spec => []OneConfiguration
<1>1. Inv => OneConfiguration
  BY DEF Inv
<1> QED
  BY AlwaysInv, <1>1, PTL

\* _load, "last write wins": the last record of a function is its newest.
THEOREM CheckpointRoundsIncrease == Spec => []RoundsIncrease
<1>1. Inv => RoundsIncrease
  BY DEF Inv
<1> QED
  BY AlwaysInv, <1>1, PTL

\* get and is_completed never answer from a past older than the file.
THEOREM CheckpointMemoryCoversFile == Spec => [](TypeOK /\ MemoryCoversFile)
<1>1. Inv => TypeOK /\ MemoryCoversFile
  BY DEF Inv
<1> QED
  BY AlwaysInv, <1>1, PTL

-----------------------------------------------------------------------------
(***************************************************************************)
(* What interrupted writes cost.  A line is settled when nothing can be    *)
(* written to it any more: it ends with a newline.  An unsettled record is *)
(* still read, but the next append makes it malformed, so the bound that   *)
(* is kept by every step counts settled lines only.                        *)
(***************************************************************************)

Settled(old) == {i \in DOMAIN old.lines : i < Len(old.lines) \/ old.newline}

SettledMalformed(old) == {i \in Settled(old) : IsMalformed(old.lines[i])}

LostSettled ==
  {f \in Functions :
     /\ acked[f] # NoRecord
     /\ \A i \in RecordIndices(file, f) \cap Settled(file) :
           file.lines[i].round < acked[f].round}

LossInv ==
  /\ Inv
  /\ file.newline \/ HasContent(file)
  /\ IsFiniteSet(LostSettled)
  /\ Cardinality(LostSettled) <= Cardinality(SettledMalformed(file))

\* The settled lines of a file are still in another, and settled there.
KeepsSettled(old, new) ==
  /\ new \in Files
  /\ new.newline \/ HasContent(new)
  /\ \A i \in Settled(old) : i \in Settled(new) /\ new.lines[i] = old.lines[i]

LEMMA SettledMalformedFinite ==
  ASSUME NEW old \in Files
  PROVE  /\ IsFiniteSet(SettledMalformed(old))
         /\ Cardinality(SettledMalformed(old)) \in Nat
<1>1. Len(old.lines) \in Nat /\ SettledMalformed(old) \in SUBSET (1..Len(old.lines))
  BY DEF Files, SettledMalformed, Settled
<1>2. IsFiniteSet(1..Len(old.lines))
  BY <1>1, FS_Interval
<1> QED
  BY <1>1, <1>2, FS_Subset, FS_CardinalityType

LEMMA KeepsSettledMalformed ==
  ASSUME NEW old \in Files, NEW new, KeepsSettled(old, new)
  PROVE  /\ SettledMalformed(old) \subseteq SettledMalformed(new)
         /\ Cardinality(SettledMalformed(old)) <= Cardinality(SettledMalformed(new))
<1>1. SettledMalformed(old) \in SUBSET SettledMalformed(new)
  BY DEF KeepsSettled, SettledMalformed
<1>2. IsFiniteSet(SettledMalformed(new))
  BY SettledMalformedFinite DEF KeepsSettled
<1> QED
  BY <1>1, <1>2, FS_Subset

(***************************************************************************)
(* A line added after a newline leaves every line alone; one added to an   *)
(* unterminated line spoils that line, which was not settled.              *)
(***************************************************************************)
LEMMA AddLineKeepsSettled ==
  ASSUME NEW old \in Files, old.newline \/ HasContent(old),
         NEW line \in Lines, NEW newline \in BOOLEAN,
         NEW new, new = AddLine(old, line, newline)
  PROVE  /\ KeepsSettled(old, new)
         /\ newline /\ old.newline =>
              /\ Len(old.lines) + 1 \in Settled(new)
              /\ new.lines[Len(old.lines) + 1] = line
         /\ newline /\ ~old.newline =>
              \E k \in SettledMalformed(new) : k \notin SettledMalformed(old)
<1>1. PICK ls \in Seq(Lines) : ls = old.lines
  BY DEF Files
<1> DEFINE n == Len(ls)
<1>2. n \in Nat /\ DOMAIN ls = 1..n
  OBVIOUS
<1>3. new \in Files
  BY AddLineGrows DEF Grows
<1>4. CASE old.newline
  <2> DEFINE ns == Append(ls, line)
  <2>1. /\ new.lines = ns /\ new.newline = newline
        /\ Len(ns) = n + 1
        /\ DOMAIN ns = 1..(n + 1)
        /\ ns[n + 1] = line
        /\ \A i \in 1..n : ns[i] = ls[i]
    BY <1>1, <1>4, AppendProperties, LenProperties DEF AddLine
  <2> HIDE DEF ns, n
  <2>2. \A i \in Settled(old) : i \in Settled(new) /\ new.lines[i] = old.lines[i]
    BY <1>1, <1>2, <2>1 DEF Settled, n
  <2>3. HasContent(new)
    BY <1>2, <2>1 DEF HasContent
  <2>4. newline => n + 1 \in Settled(new) /\ new.lines[n + 1] = line
    BY <1>2, <2>1 DEF Settled
  <2> QED
    BY <1>1, <1>3, <1>4, <2>2, <2>3, <2>4 DEF KeepsSettled, n
<1>5. CASE ~old.newline
  <2> DEFINE ns == [ls EXCEPT ![n] = Malformed]
  <2>1. n \in 1..n
    BY <1>1, <1>2, <1>5 DEF HasContent
  <2>2. /\ ns \in Seq(Lines) /\ Len(ns) = n /\ DOMAIN ns = 1..n
        /\ ns[n] = Malformed
        /\ \A i \in 1..n : i # n => ns[i] = ls[i]
    <3>1. Malformed \in Lines
      BY DEF Lines
    <3>2. DOMAIN ns = 1..n /\ ns[n] = Malformed /\ \A i \in 1..n : i # n => ns[i] = ls[i]
      BY <1>2, <2>1, Zenon
    <3>3. ns \in Seq(Lines) /\ Len(ns) = Len(ls)
      <4> SUFFICES n \in 1..Len(ls)
        BY <3>1, ExceptSeq
      <4> QED BY <2>1
    <3> QED
      BY <3>2, <3>3
  <2>3. new.lines = ns /\ new.newline = newline
    BY <1>1, <1>5 DEF AddLine
  <2> HIDE DEF ns, n
  <2>4. \A i \in Settled(old) : i \in Settled(new) /\ new.lines[i] = old.lines[i]
    BY <1>1, <1>2, <1>5, <2>2, <2>3 DEF Settled, n
  <2>5. HasContent(new)
    BY <1>2, <2>1, <2>2, <2>3 DEF HasContent
  <2>6. newline => n \in SettledMalformed(new)
    BY <2>1, <2>2, <2>3 DEF Settled, SettledMalformed, IsMalformed, Malformed
  <2>7. n \notin SettledMalformed(old)
    BY <1>1, <1>2, <1>5 DEF Settled, SettledMalformed, n
  <2> QED
    BY <1>1, <1>3, <1>5, <2>4, <2>5, <2>6, <2>7 DEF KeepsSettled, n
<1> QED BY <1>4, <1>5

LEMMA TornWriteKeepsSettled ==
  ASSUME NEW old \in Files, old.newline \/ HasContent(old),
         NEW line \in Lines, NEW outcome \in WriteOutcomes
  PROVE  KeepsSettled(old, TornWrite(old, line, outcome))
<1>1. Malformed \in Lines
  BY DEF Lines
<1>2. CASE outcome = "nothing"
  BY <1>2 DEF TornWrite, KeepsSettled
<1>3. CASE outcome # "nothing"
  BY <1>1, <1>3, AddLineKeepsSettled DEF TornWrite
<1> QED BY <1>2, <1>3

\* A step that keeps the settled lines loses no function, except one whose
\* append returned in it.
LEMMA LossStep ==
  ASSUME LossInv, Inv', KeepsSettled(file, file'),
         LostSettled' \subseteq LostSettled
  PROVE  LossInv'
<1>1. file \in Files /\ file' \in Files
  BY DEF LossInv, Inv, TypeOK
<1>2. /\ IsFiniteSet(LostSettled')
      /\ Cardinality(LostSettled') <= Cardinality(LostSettled)
  BY FS_Subset DEF LossInv
<1>3. /\ Cardinality(LostSettled) \in Nat
      /\ Cardinality(LostSettled') \in Nat
      /\ Cardinality(SettledMalformed(file)) \in Nat
      /\ Cardinality(SettledMalformed(file')) \in Nat
  BY <1>1, <1>2, SettledMalformedFinite, FS_CardinalityType DEF LossInv
<1>4. Cardinality(SettledMalformed(file)) <= Cardinality(SettledMalformed(file'))
  BY <1>1, KeepsSettledMalformed
<1>5. Cardinality(LostSettled') <= Cardinality(SettledMalformed(file)')
  BY <1>2, <1>3, <1>4 DEF LossInv
<1> QED
  BY <1>2, <1>5 DEF LossInv, KeepsSettled

\* Only a function whose acknowledged record changes can be lost by a step that
\* keeps the settled lines.
LEMMA LostSettledKept ==
  ASSUME KeepsSettled(file, file'), file \in Files,
         NEW f \in LostSettled', acked'[f] = acked[f]
  PROVE  f \in LostSettled
<1>1. ASSUME NEW i \in RecordIndices(file, f) \cap Settled(file)
      PROVE  file.lines[i].round < acked[f].round
  <2>1. i \in Settled(file') /\ file'.lines[i] = file.lines[i] /\ i \in DOMAIN file'.lines
    BY DEF KeepsSettled, Settled
  <2>2. i \in RecordIndices(file', f)
    BY <2>1 DEF RecordIndices
  <2> QED
    BY <2>1, <2>2 DEF LostSettled
<1> QED
  BY <1>1 DEF LostSettled

LEMMA AppendLoss ==
  ASSUME LossInv, NEW f \in Functions, NEW b \in BOOLEAN, AppendRecord(f, b)
  PROVE  LossInv'
<1> DEFINE line == NextRecord(f, b)
<1>1. Inv'
  BY AppendInv DEF LossInv
<1>2. /\ file \in Files /\ file' \in Files
      /\ line \in Lines /\ line \in RecordLines /\ line.fn = f
      /\ file' = AddLine(file, line, TRUE)
      /\ acked' = [acked EXCEPT ![f] = line]
      /\ acked \in [Functions -> MaybeRecords]
      /\ file.newline \/ HasContent(file)
  BY <1>1, NextRecordType DEF LossInv, Inv, TypeOK, AppendRecord, NextRecord, RecordLine
<1>3. /\ KeepsSettled(file, file')
      /\ file.newline =>
           /\ Len(file.lines) + 1 \in Settled(file')
           /\ file'.lines[Len(file.lines) + 1] = line
      /\ ~file.newline =>
           \E k \in SettledMalformed(file') : k \notin SettledMalformed(file)
  BY <1>2, AddLineKeepsSettled
<1> HIDE DEF line
<1>4. \A g \in LostSettled' : g # f => g \in LostSettled
  BY <1>2, <1>3, LostSettledKept DEF LostSettled
<1>5. CASE file.newline
  <2>1. Len(file.lines) + 1 \in RecordIndices(file', f) \cap Settled(file')
    BY <1>2, <1>3, <1>5 DEF RecordIndices, Settled, RecordLines, IsRecord
  <2>2. acked'[f] = line /\ line.round \in Nat
    BY <1>2 DEF RecordLines
  <2>3. f \notin LostSettled'
    BY <1>3, <1>5, <2>1, <2>2 DEF LostSettled
  <2> QED
    BY <1>1, <1>3, <1>4, <2>3, LossStep
<1>6. CASE ~file.newline
  <2> DEFINE M == SettledMalformed(file)
             N == SettledMalformed(file')
  <2>1. PICK k \in N : k \notin M
    BY <1>3, <1>6
  <2>2. /\ IsFiniteSet(M) /\ Cardinality(M) \in Nat
        /\ IsFiniteSet(N) /\ Cardinality(N) \in Nat
    BY <1>2, SettledMalformedFinite
  <2>3. M \cup {k} \in SUBSET N
    BY <1>2, <1>3, <2>1, KeepsSettledMalformed
  <2>4. Cardinality(M) + 1 <= Cardinality(N)
    <3>1. Cardinality(M \cup {k}) = Cardinality(M) + 1
      BY <2>1, <2>2, FS_AddElement
    <3>2. Cardinality(M \cup {k}) <= Cardinality(N)
      BY <2>2, <2>3, FS_Subset
    <3> QED BY <3>1, <3>2
  <2>5. /\ IsFiniteSet(LostSettled) /\ Cardinality(LostSettled) \in Nat
        /\ Cardinality(LostSettled) <= Cardinality(M)
    BY FS_CardinalityType DEF LossInv
  <2>6. LostSettled' \in SUBSET (LostSettled \cup {f})
    BY <1>4
  <2>7. /\ IsFiniteSet(LostSettled \cup {f})
        /\ Cardinality(LostSettled \cup {f}) \in Nat
        /\ Cardinality(LostSettled \cup {f}) <= Cardinality(LostSettled) + 1
    <3>1. /\ IsFiniteSet(LostSettled \cup {f})
          /\ Cardinality(LostSettled \cup {f})
               = IF f \in LostSettled THEN Cardinality(LostSettled)
                                      ELSE Cardinality(LostSettled) + 1
      BY <2>5, FS_AddElement
    <3> QED BY <2>5, <3>1
  <2>8. /\ IsFiniteSet(LostSettled') /\ Cardinality(LostSettled') \in Nat
        /\ Cardinality(LostSettled') <= Cardinality(LostSettled \cup {f})
    BY <2>6, <2>7, FS_Subset, FS_CardinalityType
  <2> HIDE DEF M, N
  <2>9. Cardinality(LostSettled') <= Cardinality(N)
    BY <2>2, <2>4, <2>5, <2>7, <2>8
  <2> QED
    BY <1>1, <1>3, <2>8, <2>9 DEF LossInv, KeepsSettled, N
<1> QED BY <1>5, <1>6

LEMMA CrashInAppendLoss ==
  ASSUME LossInv, NEW f \in Functions, NEW b \in BOOLEAN, NEW outcome \in Outcomes,
         CrashInAppend(f, b, outcome)
  PROVE  LossInv'
<1>1. Inv'
  BY CrashInAppendInv DEF LossInv
<1>2. file \in Files /\ (file.newline \/ HasContent(file)) /\ acked' = acked
  BY DEF LossInv, Inv, TypeOK, CrashInAppend
<1>3. KeepsSettled(file, file')
  BY <1>2, NextRecordType, TornWriteKeepsSettled, OutcomesAssumption
     DEF LossInv, Inv, CrashInAppend
<1>4. LostSettled' \subseteq LostSettled
  BY <1>2, <1>3, LostSettledKept
<1> QED
  BY <1>1, <1>3, <1>4, LossStep

\* A file is created only where there is none: nothing is settled, so nothing
\* has been acknowledged.
LEMMA CreateLoss ==
  ASSUME LossInv, NEW c \in Configs,
         Create(c) \/ \E outcome \in Outcomes : CrashInCreate(c, outcome)
  PROVE  LossInv'
<1>1. Inv'
  BY CreateInv, CrashInCreateInv DEF LossInv
<1>2. file \in Files /\ ~HasContent(file) /\ acked' = acked
  BY DEF LossInv, Inv, TypeOK, Create, CrashInCreate
<1>3. DOMAIN file.lines = {}
  BY <1>2 DEF Files, HasContent
<1>4. LostSettled = {}
  <2>1. SettledMalformed(file) = {}
    BY <1>3 DEF SettledMalformed, Settled
  <2>2. Cardinality(LostSettled) = 0
    BY <2>1, FS_EmptySet, FS_CardinalityType DEF LossInv
  <2> QED
    BY <2>2, FS_EmptySet DEF LossInv
<1>5. \A f \in Functions : acked[f] = NoRecord
  BY <1>3, <1>4 DEF LostSettled, RecordIndices
<1>6. EmptyFile \in Files /\ EmptyFile.newline /\ HeaderLine(c) \in Lines
  BY DEF EmptyFile, Files, HeaderLine, Lines, HeaderLines
<1>7. KeepsSettled(EmptyFile, file')
  <2>1. CASE Create(c)
    BY <1>6, <2>1, AddLineKeepsSettled DEF Create
  <2>2. CASE \E outcome \in Outcomes : CrashInCreate(c, outcome)
    BY <1>6, <2>2, TornWriteKeepsSettled, OutcomesAssumption DEF CrashInCreate
  <2> QED
    BY <2>1, <2>2
<1>8. KeepsSettled(file, file')
  BY <1>3, <1>7 DEF KeepsSettled, Settled
<1>9. LostSettled' \subseteq LostSettled
  BY <1>2, <1>5 DEF LostSettled
<1> QED
  BY <1>1, <1>8, <1>9, LossStep

LEMMA LossInvNext ==
  ASSUME LossInv, [Next]_vars
  PROVE  LossInv'
<1>1. ASSUME UNCHANGED <<file, acked>> PROVE LossInv'
  <2>1. Inv'
    BY NextInv DEF LossInv
  <2> QED
    BY <1>1, <2>1 DEF LossInv, LostSettled
<1>2. ASSUME NEW c \in Configs,
             Create(c) \/ \E outcome \in Outcomes : CrashInCreate(c, outcome)
      PROVE  LossInv'
  BY <1>2, CreateLoss
<1>3. ASSUME NEW f \in Functions, NEW b \in BOOLEAN,
             AppendRecord(f, b) \/ \E outcome \in Outcomes : CrashInAppend(f, b, outcome)
      PROVE  LossInv'
  BY <1>3, AppendLoss, CrashInAppendLoss
<1>4. ASSUME \/ \E c \in Configs : Resume(c) \/ RefuseMismatch(c)
             \/ RefuseCorrupt
             \/ Stop
             \/ UNCHANGED vars
      PROVE  UNCHANGED <<file, acked>>
  BY <1>4 DEF Resume, RefuseMismatch, RefuseCorrupt, Stop, vars
<1> QED
  BY <1>1, <1>2, <1>3, <1>4 DEF Next

\* Each interrupted write costs at most one acknowledged record, whatever it
\* leaves and however many sessions follow: the functions whose acknowledged
\* record is gone from the file are no more than its malformed lines.
THEOREM CheckpointLossIsBounded == Spec => []LossIsBounded
<1>1. Init => LossInv
  <2> SUFFICES ASSUME Init PROVE LossInv
    OBVIOUS
  <2>1. LostSettled = {} /\ file.newline /\ file \in Files
    BY DEF Init, LostSettled, Unloaded, EmptyFile, Files
  <2>2. Cardinality(SettledMalformed(file)) \in Nat
    BY <2>1, SettledMalformedFinite
  <2> QED
    BY <2>1, <2>2, InitInv, FS_EmptySet DEF LossInv
<1>2. LossInv => LossIsBounded
  <2> SUFFICES ASSUME LossInv PROVE LossIsBounded
    OBVIOUS
  <2> DEFINE M == {i \in DOMAIN file.lines : IsMalformed(file.lines[i])}
  <2>1. file \in Files
    BY DEF LossInv, Inv, TypeOK
  <2>2. Lost \in SUBSET LostSettled
    BY DEF Lost, LostSettled
  <2>3. SettledMalformed(file) \in SUBSET M
    BY DEF SettledMalformed, Settled
  <2>4. IsFiniteSet(M)
    <3>1. Len(file.lines) \in Nat /\ M \in SUBSET (1..Len(file.lines))
      BY <2>1 DEF Files
    <3> QED BY <3>1, FS_Interval, FS_Subset
  <2> HIDE DEF M
  <2>5. /\ Cardinality(Lost) <= Cardinality(LostSettled)
        /\ Cardinality(LostSettled) <= Cardinality(SettledMalformed(file))
        /\ Cardinality(SettledMalformed(file)) <= Cardinality(M)
    BY <2>2, <2>3, <2>4, FS_Subset DEF LossInv
  <2>6. /\ Cardinality(Lost) \in Nat
        /\ Cardinality(LostSettled) \in Nat
        /\ Cardinality(SettledMalformed(file)) \in Nat
        /\ Cardinality(M) \in Nat
    BY <2>1, <2>2, <2>4, FS_Subset, FS_CardinalityType, SettledMalformedFinite DEF LossInv
  <2> QED
    BY <2>5, <2>6 DEF LossIsBounded, M
<1> QED
  BY <1>1, <1>2, LossInvNext, PTL DEF Spec

-----------------------------------------------------------------------------
(***************************************************************************)
(* When an interrupted write leaves all of its line or nothing, no          *)
(* acknowledged record is ever lost.                                       *)
(***************************************************************************)

AtomicWrites == Outcomes \subseteq {"nothing", "complete"}

WholeLines ==
  /\ Whole(file)
  /\ mode = "open" => HasContent(file)

\* An acknowledged record, or a newer one of its function, is in the file.
AckedInFile ==
  \A f \in Functions : acked[f] # NoRecord =>
     \E i \in RecordIndices(file, f) : file.lines[i].round >= acked[f].round

LEMMA WholeLinesAckedSurvive ==
  ASSUME Inv, WholeLines, AckedInFile
  PROVE  AckedSurvive
<1> SUFFICES ASSUME NEW f \in Functions, acked[f] # NoRecord
             PROVE  /\ Loads(file)
                    /\ RoundOf(LoadedRecords(file)[f]) >= acked[f].round
  BY DEF AckedSurvive
<1>1. PICK i \in RecordIndices(file, f) : file.lines[i].round >= acked[f].round
  BY DEF AckedInFile
<1>2. file \in Files
  BY DEF Inv, TypeOK
<1>3. /\ file.lines[i].round \in Nat
      /\ i \in 1..Len(file.lines)
      /\ Len(file.lines) \in Nat
  BY <1>2, RecordIndicesType
<1>4. Loads(file)
  <2>1. HasContent(file)
    BY <1>3 DEF HasContent
  <2> QED
    BY <2>1 DEF WholeLines, Whole, Loads
<1>5. RoundOf(LoadedRecords(file)[f]) >= file.lines[i].round
  BY <1>2, LoadCovers DEF Inv
<1>6. acked[f].round \in Nat
  BY DEF Inv, TypeOK, MaybeRecords, RecordLines
<1>7. RoundOf(LoadedRecords(file)[f]) \in Nat
  BY <1>2, LoadedRecordsType DEF RoundOf, MaybeRecords, RecordLines
<1> QED
  BY <1>1, <1>3, <1>4, <1>5, <1>6, <1>7

\* What AtomicWrites makes inductive.
WholeInv == Inv /\ WholeLines /\ AckedInFile

\* Writing a next record to a whole file keeps every record of every function.
LEMMA WholeAppend ==
  ASSUME Inv, WholeLines, mode = "open",
         NEW f \in Functions, NEW b \in BOOLEAN,
         file' = AddLine(file, NextRecord(f, b), TRUE)
  PROVE  /\ Whole(file)'
         /\ HasContent(file')
         /\ \A g \in Functions : \A i \in RecordIndices(file, g) :
               i \in RecordIndices(file', g) /\ file'.lines[i] = file.lines[i]
         /\ \E i \in RecordIndices(file', f) : file'.lines[i] = NextRecord(f, b)
<1> DEFINE line == NextRecord(f, b)
<1>1. /\ line \in Lines
      /\ ~IsMalformed(line)
      /\ IsRecord(line)
      /\ line.fn = f
  BY NextRecordType DEF Inv, NextRecord, RecordLine, IsMalformed, IsRecord
<1>2. file \in Files /\ Whole(file) /\ HasContent(file)
  BY DEF Inv, TypeOK, WholeLines
<1>0. file' = AddLine(file, line, TRUE)
  OBVIOUS
<1> HIDE DEF line
<1>3. /\ Whole(file')
      /\ HasContent(file')
      /\ \E k \in DOMAIN file'.lines : file'.lines[k] = line
      /\ Keeps(file, file')
  BY <1>0, <1>1, <1>2, AddLineWhole
<1>4. \E k \in RecordIndices(file', f) : file'.lines[k] = line
  BY <1>1, <1>3 DEF RecordIndices
<1>5. \A g \in Functions : \A i \in RecordIndices(file, g) :
         i \in RecordIndices(file', g) /\ file'.lines[i] = file.lines[i]
  BY <1>3 DEF RecordIndices, Keeps
<1> QED
  BY <1>3, <1>4, <1>5 DEF line

LEMMA WholeCreate ==
  ASSUME NEW c \in Configs
  PROVE  /\ Whole(AddLine(EmptyFile, HeaderLine(c), TRUE))
         /\ HasContent(AddLine(EmptyFile, HeaderLine(c), TRUE))
         /\ Whole(EmptyFile)
<1>1. EmptyFile \in Files /\ Len(EmptyFile.lines) = 0 /\ DOMAIN EmptyFile.lines = {}
  BY DEF EmptyFile, Files
<1>2. Whole(EmptyFile)
  BY <1>1 DEF Whole, EmptyFile, HasContent
<1>3. HeaderLine(c) \in Lines /\ IsHeader(HeaderLine(c)) /\ ~IsMalformed(HeaderLine(c))
  BY DEF HeaderLine, Lines, HeaderLines, IsHeader, IsMalformed
<1> QED
  BY <1>1, <1>2, <1>3, AddLineWhole

LEMMA WholeInvNext ==
  ASSUME AtomicWrites, WholeInv, [Next]_vars
  PROVE  WholeInv'
<1>1. Inv'
  BY NextInv DEF WholeInv
<1>2. ASSUME NEW f \in Functions, NEW b \in BOOLEAN,
             mode = "open", file' = AddLine(file, NextRecord(f, b), TRUE),
             acked' = acked \/ acked' = [acked EXCEPT ![f] = NextRecord(f, b)]
      PROVE  WholeLines' /\ AckedInFile'
  <2>1. /\ Whole(file)'
        /\ HasContent(file')
        /\ \A g \in Functions : \A i \in RecordIndices(file, g) :
              i \in RecordIndices(file', g) /\ file'.lines[i] = file.lines[i]
        /\ \E i \in RecordIndices(file', f) : file'.lines[i] = NextRecord(f, b)
    BY <1>2, WholeAppend DEF WholeInv
  <2>2. ASSUME NEW g \in Functions, acked'[g] # NoRecord
        PROVE  \E i \in RecordIndices(file', g) : file'.lines[i].round >= acked'[g].round
    <3>1. CASE g = f /\ acked' = [acked EXCEPT ![f] = NextRecord(f, b)]
      <4>1. acked'[g] = NextRecord(f, b)
        BY <3>1 DEF WholeInv, Inv, TypeOK
      <4>2. NextRecord(f, b).round \in Nat
        BY NextRecordType DEF WholeInv, Inv
      <4>3. NextRecord(f, b).round >= NextRecord(f, b).round
        BY <4>2
      <4> QED
        BY <2>1, <3>1, <4>1, <4>3, Zenon
    <3>2. CASE acked'[g] = acked[g]
      <4>1. PICK i \in RecordIndices(file, g) : file.lines[i].round >= acked[g].round
        BY <2>2, <3>2 DEF WholeInv, AckedInFile
      <4> QED
        BY <2>1, <3>2, <4>1, Zenon
    <3>3. acked'[g] = acked[g] \/ (g = f /\ acked' = [acked EXCEPT ![f] = NextRecord(f, b)])
      BY <1>2 DEF WholeInv, Inv, TypeOK
    <3> QED
      BY <3>1, <3>2, <3>3
  <2> QED
    BY <2>1, <2>2 DEF WholeLines, AckedInFile
<1>3. ASSUME UNCHANGED file, UNCHANGED acked,
             mode' = "open" => mode = "open" \/ HasContent(file)
      PROVE  WholeLines' /\ AckedInFile'
  BY <1>3 DEF WholeInv, WholeLines, AckedInFile
<1>4. ASSUME NEW c \in Configs, Create(c) \/ (\E outcome \in Outcomes : CrashInCreate(c, outcome))
      PROVE  WholeLines' /\ AckedInFile'
  <2>1. \/ file' = EmptyFile /\ mode' = "closed"
        \/ file' = AddLine(EmptyFile, HeaderLine(c), TRUE)
    BY <1>4, Zenon DEF AtomicWrites, Create, CrashInCreate, TornWrite
  <2>2. WholeLines'
    BY <2>1, WholeCreate DEF WholeLines
  <2>3. Len(file.lines) \in Nat /\ DOMAIN file.lines = 1..Len(file.lines)
    BY DEF WholeInv, Inv, TypeOK, Files
  <2>8. ~HasContent(file)
    BY <1>4, Zenon DEF Create, CrashInCreate
  <2>4. Len(file.lines) = 0
    BY <2>3, <2>8 DEF HasContent
  <2>5. \A f \in Functions : RecordIndices(file, f) = {}
    BY <2>3, <2>4 DEF RecordIndices
  <2>6. \A f \in Functions : acked[f] = NoRecord
    BY <2>5 DEF WholeInv, AckedInFile
  <2>7. acked' = acked
    BY <1>4 DEF Create, CrashInCreate
  <2> QED
    BY <2>2, <2>6, <2>7 DEF AckedInFile
<1>5. ASSUME NEW f \in Functions, NEW b \in BOOLEAN, NEW outcome \in Outcomes,
             CrashInAppend(f, b, outcome)
      PROVE  WholeLines' /\ AckedInFile'
  <2>1. CASE outcome = "nothing"
    BY <1>3, <1>5, <2>1 DEF CrashInAppend, TornWrite
  <2>2. CASE outcome = "complete"
    BY <1>2, <1>5, <2>2 DEF CrashInAppend, TornWrite
  <2> QED
    BY <2>1, <2>2 DEF AtomicWrites
<1>6. ASSUME NEW f \in Functions, NEW b \in BOOLEAN, AppendRecord(f, b)
      PROVE  WholeLines' /\ AckedInFile'
  BY <1>2, <1>6 DEF AppendRecord
<1>7. ASSUME \/ \E c \in Configs : Resume(c) \/ RefuseMismatch(c)
             \/ RefuseCorrupt
             \/ Stop
             \/ UNCHANGED vars
      PROVE  WholeLines' /\ AckedInFile'
  BY <1>3, <1>7 DEF Resume, RefuseMismatch, RefuseCorrupt, Stop, vars
<1> QED
  BY <1>1, <1>4, <1>5, <1>6, <1>7 DEF WholeInv, Next

(***************************************************************************)
(* When an interrupted write leaves all of its line or nothing of it, the  *)
(* next session loads every record whose append returned, or a newer one   *)
(* of its function.                                                        *)
(***************************************************************************)
THEOREM AtomicWritesAckedSurvive ==
  ASSUME AtomicWrites
  PROVE  Spec => []AckedSurvive
<1>1. Init => WholeInv
  <2> SUFFICES ASSUME Init PROVE WholeInv
    OBVIOUS
  <2>1. Whole(file)
    BY DEF Init, EmptyFile, Whole, HasContent
  <2> QED
    BY <2>1, InitInv DEF WholeInv, WholeLines, AckedInFile, Init, Unloaded
<1>2. WholeInv /\ [Next]_vars => WholeInv'
  BY WholeInvNext
<1>3. WholeInv => AckedSurvive
  BY WholeLinesAckedSurvive DEF WholeInv
<1> QED
  BY <1>1, <1>2, <1>3, PTL DEF Spec

-----------------------------------------------------------------------------
(***************************************************************************)
(* Then a checkpoint is a durable map: every step of the one is a step of  *)
(* the other, or leaves it as it is.                                       *)
(***************************************************************************)

\* What an open session sees is what the file holds, under its own header.
MemoryIsFile ==
  /\ mode = "open" => records = LoadedRecords(file)
  /\ mode # "open" => records = Unloaded

MapInv == WholeInv /\ MemoryIsFile

\* The line that append writes to a whole file, seen as a put.
LEMMA AppendLoads ==
  ASSUME Inv, WholeLines, mode = "open", NEW f \in Functions, NEW b \in BOOLEAN,
         RoundOf(records[f]) < MaxRound, file' = AddLine(file, NextRecord(f, b), TRUE)
  PROVE  /\ LoadedRecords(file') = [LoadedRecords(file) EXCEPT ![f] = NextRecord(f, b)]
         /\ AbstractOwner' = AbstractOwner
         /\ NextRecord(f, b) \in BoundedRecords
<1>1. file \in Files /\ Whole(file) /\ HasContent(file)
  BY DEF Inv, TypeOK, WholeLines
<1>2. NextRecord(f, b) \in RecordLines /\ NextRecord(f, b).fn = f
  BY NextRecordType DEF Inv, NextRecord, RecordLine
<1>3. /\ HasContent(file')
      /\ LoadedHeader(file') = LoadedHeader(file)
      /\ LoadedRecords(file') = [LoadedRecords(file) EXCEPT ![f] = NextRecord(f, b)]
  BY <1>1, <1>2, AddRecordLoads
<1>4. RoundOf(records[f]) + 1 \in 1..MaxRound
  BY NextRecordType, MaxRoundAssumption DEF Inv
<1>5. NextRecord(f, b) \in BoundedRecords
  BY <1>4 DEF NextRecord, RecordLine, BoundedRecords
<1> QED BY <1>1, <1>3, <1>5 DEF AbstractOwner

LEMMA CreateOpens ==
  ASSUME MapInv, NEW c \in Configs, Create(c)
  PROVE  Abstract!Open(c) /\ MemoryIsFile'
<1>1. ~HasContent(file) /\ mode = "closed" /\ mode' = "open" /\ records' = Unloaded
  BY DEF Create
<1>2. LoadedRecords(file) = Unloaded
  BY <1>1, NoContentLoads DEF MapInv, WholeInv, Inv, TypeOK, Unloaded
<1>3. HasContent(file') /\ LoadedHeader(file') = c /\ LoadedRecords(file') = Unloaded
  BY HeaderOnlyLoads DEF Create, Unloaded
<1>4. AbstractOwner = NoHeader /\ AbstractOwner' = c
  BY <1>1, <1>3 DEF AbstractOwner
<1> QED BY <1>1, <1>2, <1>3, <1>4 DEF Abstract!Open, MemoryIsFile

LEMMA CrashInCreateCrashes ==
  ASSUME AtomicWrites, MapInv, NEW c \in Configs, NEW outcome \in Outcomes,
         CrashInCreate(c, outcome)
  PROVE  (Abstract!CrashInOpen(c) \/ UNCHANGED Abstract!vars) /\ MemoryIsFile'
<1>1. ~HasContent(file) /\ mode = "closed" /\ UNCHANGED <<mode, records>>
  BY DEF CrashInCreate
<1>2. LoadedRecords(file) = Unloaded
  BY <1>1, NoContentLoads DEF MapInv, WholeInv, Inv, TypeOK, Unloaded
<1>3. AbstractOwner = NoHeader
  BY <1>1 DEF AbstractOwner
<1>4. \/ file' = EmptyFile
      \/ file' = AddLine(EmptyFile, HeaderLine(c), TRUE)
  BY Zenon DEF AtomicWrites, CrashInCreate, TornWrite
<1>5. MemoryIsFile'
  BY <1>1 DEF MapInv, MemoryIsFile
<1>6. CASE file' = EmptyFile
  <2>1. EmptyFile \in Files /\ ~HasContent(EmptyFile)
    BY DEF EmptyFile, Files, HasContent
  <2>2. LoadedRecords(file') = Unloaded
    BY <1>6, <2>1, NoContentLoads DEF Unloaded
  <2>3. AbstractOwner' = NoHeader
    BY <1>6, <2>1 DEF AbstractOwner
  <2> QED BY <1>1, <1>2, <1>3, <1>5, <2>2, <2>3 DEF Abstract!vars
<1>7. CASE file' = AddLine(EmptyFile, HeaderLine(c), TRUE)
  <2>1. HasContent(file') /\ LoadedHeader(file') = c /\ LoadedRecords(file') = Unloaded
    BY <1>7, HeaderOnlyLoads DEF Unloaded
  <2>2. AbstractOwner' = c
    BY <2>1 DEF AbstractOwner
  <2>3. Abstract!CrashInOpen(c)
    BY <1>1, <1>2, <1>3, <2>1, <2>2 DEF Abstract!CrashInOpen
  <2> QED BY <1>5, <2>3
<1> QED BY <1>4, <1>6, <1>7

LEMMA ResumeOpens ==
  ASSUME MapInv, NEW c \in Configs, Resume(c)
  PROVE  Abstract!Open(c) /\ MemoryIsFile'
<1>1. /\ HasContent(file) /\ LoadedHeader(file) = c /\ file' = file
      /\ mode = "closed" /\ mode' = "open" /\ records' = LoadedRecords(file)
  BY DEF Resume
<1>2. AbstractOwner = c /\ AbstractOwner' = c
  BY <1>1 DEF AbstractOwner
<1> QED BY <1>1, <1>2 DEF Abstract!Open, MemoryIsFile

LEMMA AppendPuts ==
  ASSUME MapInv, NEW f \in Functions, NEW b \in BOOLEAN, AppendRecord(f, b)
  PROVE  Abstract!Next /\ MemoryIsFile'
<1>1. /\ mode = "open" /\ mode' = "open" /\ records = LoadedRecords(file)
      /\ records' = [records EXCEPT ![f] = NextRecord(f, b)]
  BY DEF AppendRecord, MapInv, MemoryIsFile
<1>2. /\ LoadedRecords(file') = [LoadedRecords(file) EXCEPT ![f] = NextRecord(f, b)]
      /\ AbstractOwner' = AbstractOwner
      /\ NextRecord(f, b) \in BoundedRecords
  BY AppendLoads DEF AppendRecord, MapInv, WholeInv
<1>3. Abstract!Put(f, NextRecord(f, b))
  BY <1>1, <1>2 DEF Abstract!Put
<1> QED BY <1>1, <1>2, <1>3 DEF Abstract!Next, MemoryIsFile

LEMMA CrashInAppendCrashes ==
  ASSUME AtomicWrites, MapInv, NEW f \in Functions, NEW b \in BOOLEAN,
         NEW outcome \in Outcomes, CrashInAppend(f, b, outcome)
  PROVE  Abstract!Next /\ MemoryIsFile'
<1>1. mode = "open" /\ mode' = "closed" /\ records' = Unloaded
  BY DEF CrashInAppend
<1>2. \/ file' = file
      \/ file' = AddLine(file, NextRecord(f, b), TRUE)
  BY Zenon DEF AtomicWrites, CrashInAppend, TornWrite
<1>3. RoundOf(records[f]) < MaxRound
  BY DEF CrashInAppend
<1>4. CASE file' = file
  <2>1. AbstractOwner' = AbstractOwner
    BY <1>4 DEF AbstractOwner
  <2>2. Abstract!Close
    BY <1>1, <1>4, <2>1 DEF Abstract!Close, Abstract!Nothing, Unloaded
  <2> QED BY <1>1, <2>2 DEF Abstract!Next, MemoryIsFile
<1>5. CASE file' = AddLine(file, NextRecord(f, b), TRUE)
  <2>1. /\ LoadedRecords(file') = [LoadedRecords(file) EXCEPT ![f] = NextRecord(f, b)]
        /\ AbstractOwner' = AbstractOwner
        /\ NextRecord(f, b) \in BoundedRecords
    BY <1>1, <1>3, <1>5, AppendLoads DEF MapInv, WholeInv
  <2>2. Abstract!CrashInPut(f, NextRecord(f, b))
    BY <1>1, <2>1 DEF Abstract!CrashInPut, Abstract!Nothing, Unloaded
  <2> QED BY <1>1, <2>1, <2>2 DEF Abstract!Next, MemoryIsFile
<1> QED BY <1>2, <1>4, <1>5

\* Refusals do not concern the map; the end of a session closes it.
LEMMA StopCloses ==
  ASSUME MapInv,
         \/ \E c \in Configs : RefuseMismatch(c)
         \/ RefuseCorrupt
         \/ Stop
         \/ UNCHANGED vars
  PROVE  [Abstract!Next]_(Abstract!vars) /\ MemoryIsFile'
<1>1. UNCHANGED file /\ AbstractOwner' = AbstractOwner
  BY DEF RefuseMismatch, RefuseCorrupt, Stop, vars, AbstractOwner
<1>2. CASE mode = "open" /\ Stop
  <2>1. Abstract!Close
    BY <1>1, <1>2 DEF Stop, Abstract!Close, Abstract!Nothing, Unloaded
  <2>2. MemoryIsFile'
    BY <1>2 DEF Stop, MemoryIsFile
  <2> QED BY <2>1, <2>2 DEF Abstract!Next
<1>3. CASE ~(mode = "open" /\ Stop)
  <2>1. UNCHANGED records /\ (mode' = "open" <=> mode = "open")
    BY <1>3 DEF RefuseMismatch, RefuseCorrupt, Stop, vars, MapInv, MemoryIsFile
  <2>2. (mode' = "open") = (mode = "open")
    BY <2>1
  <2>3. MemoryIsFile'
    BY <1>1, <2>1 DEF MapInv, MemoryIsFile
  <2>4. UNCHANGED Abstract!vars
    BY <1>1, <2>1, <2>2 DEF Abstract!vars
  <2> QED BY <2>3, <2>4
<1> QED BY <1>2, <1>3

LEMMA MapStep ==
  ASSUME AtomicWrites, MapInv, [Next]_vars
  PROVE  MapInv' /\ [Abstract!Next]_(Abstract!vars)
<1>1. WholeInv'
  BY WholeInvNext DEF MapInv
<1>2. MemoryIsFile' /\ [Abstract!Next]_(Abstract!vars)
  <2>1. ASSUME NEW c \in Configs, Create(c) \/ Resume(c)
        PROVE  MemoryIsFile' /\ [Abstract!Next]_(Abstract!vars)
    BY <2>1, CreateOpens, ResumeOpens DEF Abstract!Next
  <2>2. ASSUME NEW c \in Configs, NEW outcome \in Outcomes, CrashInCreate(c, outcome)
        PROVE  MemoryIsFile' /\ [Abstract!Next]_(Abstract!vars)
    BY <2>2, CrashInCreateCrashes DEF Abstract!Next
  <2>3. ASSUME NEW f \in Functions, NEW b \in BOOLEAN,
               AppendRecord(f, b) \/ \E outcome \in Outcomes : CrashInAppend(f, b, outcome)
        PROVE  MemoryIsFile' /\ [Abstract!Next]_(Abstract!vars)
    BY <2>3, AppendPuts, CrashInAppendCrashes
  <2>4. ASSUME \/ \E c \in Configs : RefuseMismatch(c)
               \/ RefuseCorrupt
               \/ Stop
               \/ UNCHANGED vars
        PROVE  MemoryIsFile' /\ [Abstract!Next]_(Abstract!vars)
    BY <2>4, StopCloses
  <2> QED BY <2>1, <2>2, <2>3, <2>4 DEF Next
<1> QED BY <1>1, <1>2 DEF MapInv

\* "The source of truth for what has been enriched": when an interrupted write
\* leaves all of its line or nothing of it, Checkpoint implements DurableMap.
THEOREM CheckpointIsDurableMap ==
  ASSUME AtomicWrites
  PROVE  Spec => ImplementsDurableMap
<1>1. Init => MapInv /\ Abstract!Init
  <2> SUFFICES ASSUME Init PROVE MapInv /\ Abstract!Init
    OBVIOUS
  <2>1. Whole(file)
    BY DEF Init, EmptyFile, Whole, HasContent
  <2>2. WholeInv
    BY <2>1, InitInv DEF WholeInv, WholeLines, AckedInFile, Init, Unloaded
  <2>3. file \in Files /\ ~HasContent(file)
    BY DEF Init, EmptyFile, Files, HasContent
  <2>4. LoadedRecords(file) = Unloaded /\ AbstractOwner = NoHeader
    BY <2>3, NoContentLoads DEF Unloaded, AbstractOwner
  <2> QED BY <2>2, <2>4 DEF Init, MapInv, MemoryIsFile, Abstract!Init, Abstract!Nothing, Unloaded
<1>2. MapInv /\ [Next]_vars => MapInv' /\ [Abstract!Next]_(Abstract!vars)
  BY MapStep
<1> QED BY <1>1, <1>2, PTL DEF Spec, ImplementsDurableMap, Abstract!Spec
=============================================================================
