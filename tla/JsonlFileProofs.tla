-------------------------- MODULE JsonlFileProofs --------------------------
(***************************************************************************)
(* Facts about the lines of a checkpoint file, for any functions and       *)
(* configurations: what a write adds, whole or cut short, and what a load  *)
(* finds.  The proofs about Checkpoint and about ModelRun rest on them.    *)
(***************************************************************************)
EXTENDS JsonlFile, FiniteSetTheorems, SequenceTheorems, WellFoundedInduction,
        TLAPS

(***************************************************************************)
(* A nonempty set of line numbers has a last element, and LastIn is it.    *)
(***************************************************************************)
LEMMA LastInIsLast ==
  ASSUME NEW n \in Nat, NEW S \in SUBSET (1..n), S # {}
  PROVE  LastIn(S) \in S /\ \A j \in S : j <= LastIn(S)
<1> DEFINE Tails == {i..n : i \in S}
<1>1. /\ Tails \subseteq FiniteSubsetsOf(1..n)
      /\ Tails # {}
  <2>1. IsFiniteSet(1..n)
    BY FS_Interval
  <2>2. FiniteSubsetsOf(1..n) = SUBSET (1..n)
    BY <2>1, FS_FiniteSubsetsOfFinite
  <2>3. Tails \subseteq SUBSET (1..n)
    <3> SUFFICES ASSUME NEW i \in S PROVE i..n \subseteq 1..n
      BY Zenon
    <3> QED OBVIOUS
  <2>4. Tails # {}
    BY Zenon
  <2> QED
    BY <2>2, <2>3, <2>4, Zenon
<1>2. IsWellFoundedOn(StrictSubsetOrdering(1..n), FiniteSubsetsOf(1..n))
  BY FS_StrictSubsetOrderingWellFounded
<1>3. PICK t \in Tails : \A u \in Tails : ~(<<u, t>> \in StrictSubsetOrdering(1..n))
  <2> HIDE DEF Tails
  <2> QED BY <1>1, <1>2, WFMin, Zenon
<1>4. PICK i \in S : t = i..n
  OBVIOUS
<1>5. \A j \in S : j <= i
  <2> SUFFICES ASSUME NEW j \in S, ~(j <= i) PROVE FALSE
    OBVIOUS
  <2>1. j..n \in Tails
    OBVIOUS
  <2>2. j..n \subseteq i..n /\ j..n # i..n
    OBVIOUS
  <2>3. <<j..n, i..n>> \in StrictSubsetOrdering(1..n)
    BY <2>2 DEF StrictSubsetOrdering
  <2> QED
    BY <2>1, <2>3, <1>3, <1>4
<1> QED
  BY <1>5 DEF LastIn

(***************************************************************************)
(* A write leaves every line where it was, makes the last one malformed,   *)
(* or adds the written one: nothing else appears in the file.              *)
(***************************************************************************)
Grows(old, new, line) ==
  /\ new \in Files
  /\ \A i \in DOMAIN new.lines :
        \/ new.lines[i] = Malformed
        \/ i \in DOMAIN old.lines /\ new.lines[i] = old.lines[i]
        \/ i = Len(old.lines) + 1 /\ new.lines[i] = line

LEMMA AddLineGrows ==
  ASSUME NEW old \in Files, NEW line \in Lines, NEW newline \in BOOLEAN
  PROVE  Grows(old, AddLine(old, line, newline), line)
<1> USE DEF Files
<1>1. Malformed \in Lines
  BY DEF Lines
<1>2. CASE old.newline
  BY <1>2 DEF Grows, AddLine
<1>3. CASE ~old.newline
  <2> DEFINE ls  == old.lines
             new == [ls EXCEPT ![Len(ls)] = Malformed]
  <2>1. ls \in Seq(Lines) /\ Len(ls) \in Nat
    OBVIOUS
  <2>2. /\ new \in Seq(Lines)
        /\ DOMAIN new = DOMAIN ls
        /\ \A i \in DOMAIN new : new[i] = ls[i] \/ new[i] = Malformed
    <3>1. CASE Len(ls) = 0
      <4>1. DOMAIN ls = {}
        BY <2>1, <3>1
      <4>2. new = ls
        BY <4>1
      <4> QED BY <2>1, <4>1, <4>2
    <3>2. CASE Len(ls) \in 1..Len(ls)
      BY <1>1, <2>1, <3>2, ExceptSeq
    <3> QED BY <2>1, <3>1, <3>2
  <2>3. AddLine(old, line, newline) = [lines |-> new, newline |-> newline]
    BY <1>3 DEF AddLine
  <2> QED
    BY <2>2, <2>3 DEF Grows
<1> QED BY <1>2, <1>3

(***************************************************************************)
(* A file no interrupted write has damaged: every line ends and reads, and *)
(* the first one is the header.                                            *)
(***************************************************************************)
Whole(old) ==
  /\ old.newline = TRUE
  /\ \A i \in DOMAIN old.lines : ~IsMalformed(old.lines[i])
  /\ HasContent(old) => 1 \in HeaderIndices(old)

\* The lines of a file are still in another, in their places.
Keeps(old, new) ==
  \A i \in DOMAIN old.lines :
     i \in DOMAIN new.lines /\ new.lines[i] = old.lines[i]

\* Adding a line to such a file keeps its lines and adds one more.
LEMMA AddLineWhole ==
  ASSUME NEW old \in Files, Whole(old),
         NEW line \in Lines, ~IsMalformed(line),
         IsHeader(line) \/ HasContent(old),
         NEW new, new = AddLine(old, line, TRUE)
  PROVE  /\ Whole(new)
         /\ HasContent(new)
         /\ \E k \in DOMAIN new.lines : new.lines[k] = line
         /\ Keeps(old, new)
<1>1. PICK ls \in Seq(Lines) : ls = old.lines
  BY DEF Files
<1> DEFINE ns == Append(ls, line)
           n  == Len(ls)
<1>2. /\ n \in Nat
      /\ DOMAIN ls = 1..n
      /\ Len(ns) = n + 1
      /\ DOMAIN ns = 1..(n + 1)
      /\ ns[n + 1] = line
      /\ \A i \in 1..n : ns[i] = ls[i]
  BY AppendProperties, LenProperties
<1>3. new.lines = ns /\ new.newline = TRUE
  BY <1>1 DEF AddLine, Whole
<1> HIDE DEF ns, n
<1>4. \A i \in DOMAIN ns : ~IsMalformed(ns[i])
  BY <1>1, <1>2 DEF Whole
<1>5. 1 \in DOMAIN ns /\ IsHeader(ns[1])
  <2>1. CASE n = 0
    BY <1>1, <1>2, <2>1 DEF HasContent, n
  <2>2. CASE n > 0
    BY <1>1, <1>2, <2>2 DEF Whole, HeaderIndices, HasContent, n
  <2> QED BY <1>2, <2>1, <2>2
<1>6. HasContent(new)
  <2>1. Len(new.lines) = n + 1 /\ n \in Nat
    BY <1>2, <1>3, Zenon
  <2>2. n + 1 > 0
    BY <2>1
  <2> QED BY <2>1, <2>2, Zenon DEF HasContent
<1>7. Whole(new)
  BY <1>3, <1>4, <1>5 DEF Whole, HeaderIndices
<1>8. /\ n + 1 \in DOMAIN ns
      /\ \A i \in DOMAIN ls : i \in DOMAIN ns /\ ns[i] = ls[i]
  BY <1>2
<1> QED
  BY <1>1, <1>2, <1>3, <1>6, <1>7, <1>8 DEF n, Keeps

LEMMA TornWriteGrows ==
  ASSUME NEW old \in Files, NEW line \in Lines, NEW outcome \in WriteOutcomes
  PROVE  Grows(old, TornWrite(old, line, outcome), line)
<1>1. Malformed \in Lines
  BY DEF Lines
<1>2. CASE outcome = "nothing"
  BY <1>2 DEF TornWrite, Grows, Files
<1>3. CASE outcome = "fragment"
  BY <1>1, <1>3, AddLineGrows DEF TornWrite, Grows
<1>4. CASE outcome \in {"unterminated", "complete"}
  BY <1>4, AddLineGrows DEF TornWrite
<1> QED BY <1>2, <1>3, <1>4 DEF WriteOutcomes

(***************************************************************************)
(* The records of the new file are those of the old one, and perhaps the   *)
(* written line, after all of them; headers likewise.                      *)
(***************************************************************************)
LEMMA GrowsRecords ==
  ASSUME NEW old \in Files, NEW new, NEW line, Grows(old, new, line),
         NEW f \in Functions, NEW i \in RecordIndices(new, f)
  PROVE  \/ /\ i \in RecordIndices(old, f)
            /\ new.lines[i] = old.lines[i]
            /\ i < Len(old.lines) + 1
         \/ /\ i = Len(old.lines) + 1
            /\ new.lines[i] = line
            /\ IsRecord(line)
            /\ line.fn = f
BY DEF Grows, RecordIndices, IsRecord, Malformed, Files

LEMMA GrowsHeaders ==
  ASSUME NEW old \in Files, NEW new, NEW line, Grows(old, new, line),
         NEW i \in HeaderIndices(new)
  PROVE  \/ /\ i \in HeaderIndices(old)
            /\ new.lines[i] = old.lines[i]
         \/ /\ i = Len(old.lines) + 1
            /\ new.lines[i] = line
            /\ IsHeader(line)
BY DEF Grows, HeaderIndices, IsHeader, Malformed, Files

LEMMA RecordIndicesType ==
  ASSUME NEW old \in Files, NEW f \in Functions, NEW i \in RecordIndices(old, f)
  PROVE  /\ Len(old.lines) \in Nat
         /\ i \in 1..Len(old.lines)
         /\ old.lines[i] \in RecordLines
         /\ old.lines[i].round \in Nat
<1>1. /\ Len(old.lines) \in Nat
      /\ i \in 1..Len(old.lines)
      /\ old.lines[i] \in Lines
      /\ IsRecord(old.lines[i])
  BY DEF RecordIndices, Files
<1>2. old.lines[i] \in RecordLines
  BY <1>1 DEF Lines, HeaderLines, IsRecord, Malformed
<1> QED
  BY <1>1, <1>2 DEF RecordLines

(***************************************************************************)
(* _load returns, for each function, a record of the file that no record   *)
(* of the function follows, or its absence when there is none.             *)
(***************************************************************************)
LEMMA LoadedRecordsAreLast ==
  ASSUME NEW old \in Files, NEW f \in Functions
  PROVE  \/ /\ RecordIndices(old, f) = {}
            /\ LoadedRecords(old)[f] = NoRecord
         \/ \E i \in RecordIndices(old, f) :
               /\ LoadedRecords(old)[f] = old.lines[i]
               /\ LoadedRecords(old)[f] \in RecordLines
               /\ \A j \in RecordIndices(old, f) : j <= i
<1>1. CASE RecordIndices(old, f) = {}
  BY <1>1 DEF LoadedRecords
<1>2. CASE RecordIndices(old, f) # {}
  <2> DEFINE i == LastIn(RecordIndices(old, f))
  <2>1. Len(old.lines) \in Nat /\ RecordIndices(old, f) \subseteq 1..Len(old.lines)
    BY DEF Files, RecordIndices
  <2>2. i \in RecordIndices(old, f) /\ \A j \in RecordIndices(old, f) : j <= i
    BY <1>2, <2>1, LastInIsLast
  <2>3. LoadedRecords(old)[f] = old.lines[i]
    BY <1>2 DEF LoadedRecords
  <2>4. old.lines[i] \in Lines /\ IsRecord(old.lines[i])
    BY <2>2 DEF Files, RecordIndices
  <2>5. old.lines[i] \in RecordLines
    BY <2>4 DEF Lines, HeaderLines, IsRecord, Malformed
  <2> QED
    BY <2>2, <2>3, <2>5
<1> QED BY <1>1, <1>2

LEMMA LoadedRecordsType ==
  ASSUME NEW old \in Files
  PROVE  LoadedRecords(old) \in [Functions -> MaybeRecords]
<1>1. ASSUME NEW f \in Functions PROVE LoadedRecords(old)[f] \in MaybeRecords
  BY LoadedRecordsAreLast DEF MaybeRecords
<1> QED
  BY <1>1 DEF LoadedRecords

LEMMA LoadedHeaderIsOne ==
  ASSUME NEW old \in Files, HeaderIndices(old) # {}
  PROVE  \E i \in HeaderIndices(old) :
            /\ LoadedHeader(old) = old.lines[i].cfg
            /\ LoadedHeader(old) \in Configs
<1>1. Len(old.lines) \in Nat /\ HeaderIndices(old) \subseteq 1..Len(old.lines)
  BY DEF Files, HeaderIndices
<1> DEFINE i == LastIn(HeaderIndices(old))
<1>2. i \in HeaderIndices(old)
  BY <1>1, LastInIsLast
<1>3. old.lines[i] \in Lines /\ IsHeader(old.lines[i])
  BY <1>2 DEF Files, HeaderIndices
<1>4. old.lines[i] \in HeaderLines
  BY <1>3 DEF Lines, RecordLines, IsHeader, Malformed
<1> QED
  BY <1>2, <1>4 DEF LoadedHeader, HeaderLines

(***************************************************************************)
(* What a record added to a whole file changes for the next load.          *)
(***************************************************************************)
LEMMA AddRecordLoads ==
  ASSUME NEW old \in Files, Whole(old), HasContent(old),
         NEW f \in Functions, NEW line \in RecordLines, line.fn = f,
         NEW new, new = AddLine(old, line, TRUE)
  PROVE  /\ HasContent(new)
         /\ LoadedHeader(new) = LoadedHeader(old)
         /\ LoadedRecords(new) = [LoadedRecords(old) EXCEPT ![f] = line]
<1>1. PICK ls \in Seq(Lines) : ls = old.lines
  BY DEF Files
<1> DEFINE ns == Append(ls, line)
           n  == Len(ls)
<1>2. /\ n \in Nat
      /\ DOMAIN ls = 1..n
      /\ Len(ns) = n + 1
      /\ DOMAIN ns = 1..(n + 1)
      /\ ns[n + 1] = line
      /\ \A i \in 1..n : ns[i] = ls[i]
  BY AppendProperties, LenProperties DEF Lines
<1>3. new.lines = ns
  BY <1>1 DEF AddLine, Whole
<1> HIDE DEF ns, n
<1>11. /\ DOMAIN old.lines = 1..n
       /\ DOMAIN new.lines = 1..(n + 1)
       /\ Len(new.lines) = n + 1
       /\ new.lines[n + 1] = line
       /\ \A i \in 1..n : new.lines[i] = old.lines[i]
  BY <1>1, <1>2, <1>3, Zenon
<1>12. /\ \A i : i \in 1..(n + 1) <=> i \in 1..n \/ i = n + 1
       /\ n + 1 \notin 1..n
       /\ n + 1 \in Nat
       /\ n + 1 > 0
  BY <1>2
<1>4. HasContent(new)
  BY <1>11, <1>12, Zenon DEF HasContent
<1>5. IsRecord(line) /\ ~IsHeader(line)
  BY DEF RecordLines, IsRecord, IsHeader
<1>6. HeaderIndices(new) = HeaderIndices(old)
  <2>1. \A i : i \in HeaderIndices(new) <=> i \in HeaderIndices(old)
    BY <1>11, <1>12, <1>5, Zenon DEF HeaderIndices
  <2> QED BY <2>1, Zenon
<1>7. LoadedHeader(new) = LoadedHeader(old)
  <2>1. LastIn(HeaderIndices(old)) \in HeaderIndices(old)
    <3>1. HeaderIndices(old) # {}
      BY DEF Whole
    <3>2. HeaderIndices(old) \in SUBSET (1..n)
      BY <1>11, Zenon DEF HeaderIndices
    <3> QED BY <1>2, <3>1, <3>2, LastInIsLast
  <2>2. new.lines[LastIn(HeaderIndices(old))] = old.lines[LastIn(HeaderIndices(old))]
    BY <1>11, <2>1, Zenon DEF HeaderIndices
  <2> QED BY <1>6, <2>2 DEF LoadedHeader
<1>8. ASSUME NEW g \in Functions, g # f
      PROVE  LoadedRecords(new)[g] = LoadedRecords(old)[g]
  <2>1. RecordIndices(new, g) = RecordIndices(old, g)
    <3>1. \A i : i \in RecordIndices(new, g) <=> i \in RecordIndices(old, g)
      BY <1>11, <1>12, <1>8, Zenon DEF RecordIndices
    <3> QED BY <3>1, Zenon
  <2>2. CASE RecordIndices(old, g) = {}
    BY <2>1, <2>2 DEF LoadedRecords
  <2>3. CASE RecordIndices(old, g) # {}
    <3>1. RecordIndices(old, g) \in SUBSET (1..n)
      BY <1>11, Zenon DEF RecordIndices
    <3>2. LastIn(RecordIndices(old, g)) \in 1..n
      BY <1>2, <2>3, <3>1, LastInIsLast
    <3>3. new.lines[LastIn(RecordIndices(old, g))] = old.lines[LastIn(RecordIndices(old, g))]
      BY <1>11, <3>2, Zenon
    <3> QED BY <2>1, <2>3, <3>3 DEF LoadedRecords
  <2> QED BY <2>2, <2>3
<1>9. LoadedRecords(new)[f] = line
  <2>1. n + 1 \in RecordIndices(new, f)
    BY <1>11, <1>12, <1>5, Zenon DEF RecordIndices
  <2>2. RecordIndices(new, f) \in SUBSET (1..(n + 1))
    BY <1>11, Zenon DEF RecordIndices
  <2>3. /\ LastIn(RecordIndices(new, f)) \in RecordIndices(new, f)
        /\ n + 1 <= LastIn(RecordIndices(new, f))
    <3>1. n + 1 \in Nat /\ RecordIndices(new, f) # {}
      BY <1>12, <2>1, Zenon
    <3> QED BY <2>1, <2>2, <3>1, LastInIsLast
  <2>4. LastIn(RecordIndices(new, f)) = n + 1
    <3>1. LastIn(RecordIndices(new, f)) \in 1..(n + 1)
      BY <2>2, <2>3, Zenon
    <3>2. n \in Nat
      BY <1>2
    <3>3. \A k \in 1..(n + 1) : n + 1 <= k => k = n + 1
      BY <3>2
    <3> QED BY <2>3, <3>1, <3>3, Zenon
  <2>5. RecordIndices(new, f) # {}
    BY <2>1, Zenon
  <2>6. LoadedRecords(new)[f] = new.lines[LastIn(RecordIndices(new, f))]
    BY <2>5, Zenon DEF LoadedRecords
  <2> QED BY <1>11, <2>4, <2>6, Zenon
<1>10. LoadedRecords(new) = [LoadedRecords(old) EXCEPT ![f] = line]
  <2>1. /\ LoadedRecords(new) = [g \in Functions |-> LoadedRecords(new)[g]]
        /\ LoadedRecords(old) = [g \in Functions |-> LoadedRecords(old)[g]]
    BY DEF LoadedRecords
  <2> QED BY <1>8, <1>9, <2>1
<1> QED BY <1>4, <1>7, <1>10

\* A file that holds its header only, and one that holds nothing.
LEMMA HeaderOnlyLoads ==
  ASSUME NEW c \in Configs, NEW new, new = AddLine(EmptyFile, HeaderLine(c), TRUE)
  PROVE  /\ HasContent(new)
         /\ LoadedHeader(new) = c
         /\ LoadedRecords(new) = [f \in Functions |-> NoRecord]
<1>1. new.lines = <<HeaderLine(c)>>
  BY DEF AddLine, EmptyFile
<1>2. /\ Len(new.lines) = 1
      /\ DOMAIN new.lines = {1}
      /\ new.lines[1] = HeaderLine(c)
  <2>1. /\ Len(<<HeaderLine(c)>>) = 1
        /\ DOMAIN <<HeaderLine(c)>> = {1}
        /\ <<HeaderLine(c)>>[1] = HeaderLine(c)
    OBVIOUS
  <2> QED BY <1>1, <2>1, Zenon
<1>3. IsHeader(HeaderLine(c)) /\ ~IsRecord(HeaderLine(c)) /\ HeaderLine(c).cfg = c
  BY DEF IsHeader, IsRecord, HeaderLine
<1>4. HeaderIndices(new) = {1} /\ \A f \in Functions : RecordIndices(new, f) = {}
  <2>1. \A i : i \in HeaderIndices(new) <=> i = 1
    BY <1>2, <1>3, Zenon DEF HeaderIndices
  <2>2. \A f \in Functions : \A i : i \notin RecordIndices(new, f)
    BY <1>2, <1>3, Zenon DEF RecordIndices
  <2> QED BY <2>1, <2>2, Zenon
<1>5. LastIn({1}) = 1
  <2>1. {1} \in SUBSET (1..1) /\ {1} # {}
    OBVIOUS
  <2> QED BY <2>1, LastInIsLast
<1>6. LoadedHeader(new) = c
  BY <1>2, <1>3, <1>4, <1>5 DEF LoadedHeader
<1>7. HasContent(new)
  <2>1. 1 > 0
    OBVIOUS
  <2> QED BY <1>2, <2>1, Zenon DEF HasContent
<1> QED BY <1>4, <1>6, <1>7 DEF LoadedRecords

LEMMA NoContentLoads ==
  ASSUME NEW old \in Files, ~HasContent(old)
  PROVE  LoadedRecords(old) = [f \in Functions |-> NoRecord]
<1>1. DOMAIN old.lines = {}
  BY DEF Files, HasContent
<1>2. \A f \in Functions : RecordIndices(old, f) = {}
  BY <1>1 DEF RecordIndices
<1> QED BY <1>2 DEF LoadedRecords
=============================================================================
