--------------------------- MODULE ModelRunProofs ---------------------------
(***************************************************************************)
(* The safety of one model's enrichment, for any functions, settings,      *)
(* gates and number of kernels, killed anywhere, in the middle of a write  *)
(* of the checkpoint too: what the artifact and the status promise, which  *)
(* gates stand behind a record, what a resumed run keeps, and that an      *)
(* undamaged checkpoint is used as a durable map.                          *)
(*                                                                         *)
(* The invariant says what a full run in progress knows, and counts what   *)
(* torn writes can have cost: each malformed line may stand for two        *)
(* functions whose state the checkpoint no longer has, and a line that is  *)
(* cut short but not yet joined by another for one.                        *)
(***************************************************************************)
EXTENDS ModelRun, JsonlFileProofs

-----------------------------------------------------------------------------
(***************************************************************************)
(* The cost of a torn write.                                               *)
(***************************************************************************)

Malformations(old) == {i \in DOMAIN old.lines : IsMalformed(old.lines[i])}

\* The last line is cut short, and not yet joined by another.
OpenMalformed(old) == ~old.newline /\ Len(old.lines) \in Malformations(old)

\* How many functions torn writes can have cost so far.
Budget(old) ==
  2 * Cardinality(Malformations(old)) - (IF OpenMalformed(old) THEN 1 ELSE 0)

LEMMA BudgetType ==
  ASSUME NEW old \in Files
  PROVE  /\ Cardinality(Malformations(old)) \in Nat
         /\ Budget(old) \in Int
         /\ 0 <= Budget(old)
         /\ Budget(old) <= 2 * Cardinality(Malformations(old))
         /\ IsFiniteSet(Malformations(old))
<1>1. IsFiniteSet(Malformations(old))
  <2>1. Len(old.lines) \in Nat /\ DOMAIN old.lines = 1..Len(old.lines)
    BY DEF Files
  <2>2. IsFiniteSet(1..Len(old.lines))
    BY <2>1, FS_Interval
  <2> QED BY <2>1, <2>2, FS_Subset DEF Malformations
<1>2. Cardinality(Malformations(old)) \in Nat
  BY <1>1, FS_CardinalityType
<1>3. OpenMalformed(old) => Cardinality(Malformations(old)) # 0
  BY <1>1, FS_EmptySet DEF OpenMalformed
<1> QED BY <1>1, <1>2, <1>3 DEF Budget

\* What AddLine does to a file that is not empty, or ends with a newline.
LEMMA AddLineLines ==
  ASSUME NEW old \in Files, HasContent(old) \/ old.newline,
         NEW line \in Lines, NEW newline \in BOOLEAN,
         NEW new, new = AddLine(old, line, newline)
  PROVE  /\ new \in Files
         /\ new.newline = newline
         /\ Len(old.lines) \in Nat
         /\ DOMAIN old.lines = 1..Len(old.lines)
         /\ DOMAIN new.lines = 1..Len(new.lines)
         /\ old.newline =>
              /\ Len(new.lines) = Len(old.lines) + 1
              /\ new.lines[Len(old.lines) + 1] = line
              /\ \A i \in 1..Len(old.lines) : new.lines[i] = old.lines[i]
         /\ ~old.newline =>
              /\ Len(new.lines) = Len(old.lines)
              /\ Len(old.lines) > 0
              /\ new.lines[Len(old.lines)] = Malformed
              /\ \A i \in 1..Len(old.lines) :
                    i # Len(old.lines) => new.lines[i] = old.lines[i]
<1>1. PICK ls \in Seq(Lines) : ls = old.lines
  BY DEF Files
<1>2. Len(ls) \in Nat /\ DOMAIN ls = 1..Len(ls)
  OBVIOUS
<1>3. new \in Files /\ new.newline = newline
  BY AddLineGrows DEF Grows, AddLine
<1>4. CASE old.newline
  <2>1. new.lines = Append(ls, line)
    BY <1>1, <1>4 DEF AddLine
  <2> QED BY <1>1, <1>2, <1>3, <1>4, <2>1, AppendProperties
<1>5. CASE ~old.newline
  <2>1. new.lines = [ls EXCEPT ![Len(ls)] = Malformed]
    BY <1>1, <1>5 DEF AddLine
  <2>2. Len(ls) > 0 /\ Len(ls) \in 1..Len(ls)
    BY <1>1, <1>2, <1>5 DEF HasContent
  <2>3. Malformed \in Lines
    BY DEF Lines
  <2>4. /\ Len(new.lines) = Len(ls)
        /\ DOMAIN new.lines = 1..Len(ls)
        /\ \A i \in 1..Len(ls) : new.lines[i] = IF i = Len(ls) THEN Malformed ELSE ls[i]
    BY <1>2, <2>1, <2>2, <2>3, ExceptSeq
  <2> QED BY <1>1, <1>2, <1>3, <1>5, <2>2, <2>4
<1> QED BY <1>4, <1>5

\* The records of a function, after a write.
LEMMA AddLineRecords ==
  ASSUME NEW old \in Files, HasContent(old) \/ old.newline,
         NEW line \in Lines, NEW newline \in BOOLEAN,
         NEW new, new = AddLine(old, line, newline), NEW f \in Functions
  PROVE  /\ old.newline =>
              IF IsRecord(line) /\ line.fn = f
              THEN RecordIndices(new, f) = RecordIndices(old, f) \cup {Len(old.lines) + 1}
              ELSE RecordIndices(new, f) = RecordIndices(old, f)
         /\ ~old.newline => RecordIndices(new, f) = RecordIndices(old, f) \ {Len(old.lines)}
         /\ \A i \in RecordIndices(old, f) \cap RecordIndices(new, f) :
              new.lines[i] = old.lines[i]
         /\ Len(old.lines) + 1 \notin RecordIndices(old, f)
<1> DEFINE n == Len(old.lines)
<1>1. /\ n \in Nat
      /\ DOMAIN old.lines = 1..n
      /\ DOMAIN new.lines = 1..Len(new.lines)
      /\ old.newline => /\ Len(new.lines) = n + 1
                        /\ new.lines[n + 1] = line
                        /\ \A i \in 1..n : new.lines[i] = old.lines[i]
      /\ ~old.newline => /\ Len(new.lines) = n
                         /\ n > 0
                         /\ new.lines[n] = Malformed
                         /\ \A i \in 1..n : i # n => new.lines[i] = old.lines[i]
  BY AddLineLines
<1> HIDE DEF n
<1>2. ~IsRecord(Malformed)
  BY DEF IsRecord, Malformed
<1>3. n + 1 \notin 1..n /\ \A i : i \in 1..(n + 1) <=> i \in 1..n \/ i = n + 1
  BY <1>1
<1>4. n + 1 \notin RecordIndices(old, f)
  BY <1>1, <1>3 DEF RecordIndices
<1>5. ASSUME old.newline
      PROVE  /\ IF IsRecord(line) /\ line.fn = f
                THEN RecordIndices(new, f) = RecordIndices(old, f) \cup {n + 1}
                ELSE RecordIndices(new, f) = RecordIndices(old, f)
             /\ \A i \in RecordIndices(old, f) \cap RecordIndices(new, f) :
                  new.lines[i] = old.lines[i]
  <2>1. \A i : i \in RecordIndices(new, f) <=>
                 \/ i \in RecordIndices(old, f)
                 \/ i = n + 1 /\ IsRecord(line) /\ line.fn = f
    BY <1>1, <1>3, <1>5, Zenon DEF RecordIndices
  <2>2. \A i \in RecordIndices(old, f) : new.lines[i] = old.lines[i]
    BY <1>1, <1>5, Zenon DEF RecordIndices
  <2> QED BY <2>1, <2>2
<1>6. ASSUME ~old.newline
      PROVE  /\ RecordIndices(new, f) = RecordIndices(old, f) \ {n}
             /\ \A i \in RecordIndices(old, f) \cap RecordIndices(new, f) :
                  new.lines[i] = old.lines[i]
  <2>1. \A i : i \in RecordIndices(new, f) <=> i \in RecordIndices(old, f) /\ i # n
    BY <1>1, <1>2, <1>6, Zenon DEF RecordIndices
  <2>2. \A i \in RecordIndices(old, f) : i # n => new.lines[i] = old.lines[i]
    BY <1>1, <1>6, Zenon DEF RecordIndices
  <2> QED BY <2>1, <2>2
<1> QED BY <1>4, <1>5, <1>6 DEF n

\* A join adds to the budget what it can cost.
LEMMA AddLineBudget ==
  ASSUME NEW old \in Files, HasContent(old),
         NEW line \in Lines, NEW newline \in BOOLEAN,
         NEW new, new = AddLine(old, line, newline)
  PROVE  /\ Budget(old) \in Int /\ Budget(new) \in Int
         /\ Budget(old) <= Budget(new)
         /\ ~old.newline /\ newline => Budget(old) + 1 <= Budget(new)
         /\ ~old.newline /\ ~IsMalformed(old.lines[Len(old.lines)]) =>
              /\ Budget(old) + 1 <= Budget(new)
              /\ newline => Budget(old) + 2 <= Budget(new)
<1> DEFINE n == Len(old.lines)
<1>1. /\ new \in Files
      /\ new.newline = newline
      /\ n \in Nat
      /\ DOMAIN old.lines = 1..n
      /\ DOMAIN new.lines = 1..Len(new.lines)
      /\ old.newline => /\ Len(new.lines) = n + 1
                        /\ new.lines[n + 1] = line
                        /\ \A i \in 1..n : new.lines[i] = old.lines[i]
      /\ ~old.newline => /\ Len(new.lines) = n
                         /\ n > 0
                         /\ new.lines[n] = Malformed
                         /\ \A i \in 1..n : i # n => new.lines[i] = old.lines[i]
  BY AddLineLines
<1> HIDE DEF n
<1>2. IsMalformed(Malformed)
  BY DEF IsMalformed, Malformed
<1>3. /\ n + 1 \notin 1..n /\ \A i : i \in 1..(n + 1) <=> i \in 1..n \/ i = n + 1
      /\ n > 0 => n \in 1..n
  BY <1>1
<1>4. /\ IsFiniteSet(Malformations(old)) /\ Cardinality(Malformations(old)) \in Nat
      /\ IsFiniteSet(Malformations(new)) /\ Cardinality(Malformations(new)) \in Nat
      /\ Budget(old) \in Int /\ Budget(new) \in Int
  BY <1>1, BudgetType
<1>5. CASE old.newline
  <2>1. ~OpenMalformed(old)
    BY <1>5 DEF OpenMalformed
  <2>2. CASE IsMalformed(line)
    <3>1. \A i : i \in Malformations(new) <=> i \in Malformations(old) \/ i = n + 1
      BY <1>1, <1>3, <1>5, <2>2, Zenon DEF Malformations
    <3>2. n + 1 \notin Malformations(old)
      BY <1>1, <1>3, Zenon DEF Malformations
    <3>3. Malformations(new) = Malformations(old) \cup {n + 1}
      BY <3>1
    <3>4. Cardinality(Malformations(new)) = Cardinality(Malformations(old)) + 1
      BY <1>4, <3>2, <3>3, FS_AddElement
    <3> QED BY <1>4, <1>5, <2>1, <3>4 DEF Budget
  <2>3. CASE ~IsMalformed(line)
    <3>1. \A i : i \in Malformations(new) <=> i \in Malformations(old)
      BY <1>1, <1>3, <1>5, <2>3, Zenon DEF Malformations
    <3>2. Malformations(new) = Malformations(old)
      BY <3>1
    <3>3. n + 1 \notin Malformations(old)
      BY <1>1, <1>3, Zenon DEF Malformations
    <3>4. ~OpenMalformed(new)
      BY <1>1, <1>5, <3>2, <3>3 DEF OpenMalformed
    <3> QED BY <1>4, <1>5, <2>1, <3>2, <3>4 DEF Budget
  <2> QED BY <2>2, <2>3
<1>6. CASE ~old.newline
  <2>1. \A i : i \in Malformations(new) <=> i \in Malformations(old) \/ i = n
    BY <1>1, <1>2, <1>3, <1>6, Zenon DEF Malformations
  <2>2. Malformations(new) = Malformations(old) \cup {n}
    BY <2>1
  <2>3. OpenMalformed(new) <=> ~newline
    BY <1>1, <1>6, <2>2 DEF OpenMalformed
  <2>4. n \in Malformations(old) <=> IsMalformed(old.lines[n])
    BY <1>1, <1>3, <1>6, Zenon DEF Malformations
  <2>5. CASE IsMalformed(old.lines[n])
    <3>1. Malformations(new) = Malformations(old)
      BY <2>2, <2>4, <2>5
    <3>2. OpenMalformed(old)
      BY <1>6, <2>4, <2>5 DEF OpenMalformed, n
    <3> QED BY <1>4, <2>3, <2>5, <3>1, <3>2 DEF Budget, n
  <2>6. CASE ~IsMalformed(old.lines[n])
    <3>1. Cardinality(Malformations(new)) = Cardinality(Malformations(old)) + 1
      BY <1>4, <2>2, <2>4, <2>6, FS_AddElement
    <3>2. ~OpenMalformed(old)
      BY <2>4, <2>6 DEF OpenMalformed, n
    <3> QED BY <1>4, <2>3, <3>1, <3>2 DEF Budget
  <2> QED BY <2>5, <2>6
<1> QED BY <1>5, <1>6

\* One more element, at most.
LEMMA OneMore ==
  ASSUME NEW S, IsFiniteSet(S), NEW x, NEW T, T \subseteq S \cup {x}
  PROVE  /\ IsFiniteSet(T)
         /\ Cardinality(T) \in Nat
         /\ Cardinality(S) \in Nat
         /\ Cardinality(T) <= Cardinality(S) + 1
<1>1. /\ IsFiniteSet(S \cup {x}) /\ Cardinality(S) \in Nat
      /\ Cardinality(S \cup {x}) <= Cardinality(S) + 1
  <2>1. CASE x \in S
    <3>1. S \cup {x} = S
      BY <2>1
    <3>2. Cardinality(S) \in Nat
      BY FS_CardinalityType
    <3> QED BY <3>1, <3>2
  <2>2. CASE x \notin S
    BY <2>2, FS_AddElement, FS_CardinalityType
  <2> QED BY <2>1, <2>2
<1>2. IsFiniteSet(T) /\ Cardinality(T) <= Cardinality(S \cup {x})
  BY <1>1, FS_Subset
<1> QED BY <1>1, <1>2, FS_CardinalityType

LEMMA NoMore ==
  ASSUME NEW S \in SUBSET Functions, NEW T, T \subseteq S
  PROVE  /\ IsFiniteSet(S) /\ IsFiniteSet(T)
         /\ Cardinality(S) \in Nat /\ Cardinality(T) \in Nat
         /\ Cardinality(T) <= Cardinality(S)
<1>1. IsFiniteSet(S)
  BY FunctionsAssumption, FS_Subset
<1> QED BY <1>1, FS_Subset, FS_CardinalityType

\* A set of functions within the budget stays within it, though it may gain
\* the function of a joined line and the one whose record joined it.
LEMMA AddLineCost ==
  ASSUME NEW old \in Files, HasContent(old),
         NEW line \in Lines, NEW newline \in BOOLEAN,
         NEW new, new = AddLine(old, line, newline),
         NEW S \in SUBSET Functions, NEW T \in SUBSET Functions,
         Cardinality(S) <= Budget(old), NEW f,
         old.newline => T \subseteq S,
         ~old.newline => \A h \in T : \/ h \in S
                                      \/ Len(old.lines) \in RecordIndices(old, h)
                                      \/ newline /\ h = f
  PROVE  Cardinality(T) <= Budget(new)
<1> DEFINE last == old.lines[Len(old.lines)]
           g    == last.fn
<1>1. /\ IsFiniteSet(S) /\ Cardinality(S) \in Nat /\ Cardinality(T) \in Nat
      /\ Budget(old) \in Int /\ Budget(new) \in Int
      /\ Budget(old) <= Budget(new)
      /\ ~old.newline /\ newline => Budget(old) + 1 <= Budget(new)
      /\ ~old.newline /\ ~IsMalformed(last) =>
              /\ Budget(old) + 1 <= Budget(new)
              /\ newline => Budget(old) + 2 <= Budget(new)
  BY NoMore, AddLineBudget
<1>2. \A h : Len(old.lines) \in RecordIndices(old, h) => ~IsMalformed(last) /\ h = g
  BY DEF RecordIndices, IsRecord, IsMalformed
<1> HIDE DEF last, g
<1>3. CASE old.newline
  <2>1. Cardinality(T) <= Cardinality(S)
    BY <1>3, NoMore
  <2> QED BY <1>1, <2>1
<1>4. CASE ~old.newline /\ IsMalformed(last)
  <2>1. CASE newline
    <3>1. T \subseteq S \cup {f}
      BY <1>2, <1>4
    <3>2. Cardinality(T) <= Cardinality(S) + 1
      BY <1>1, <3>1, OneMore
    <3>3. Budget(old) + 1 <= Budget(new)
      BY <1>1, <1>4, <2>1, Zenon
    <3> QED BY <1>1, <3>2, <3>3
  <2>2. CASE ~newline
    <3>1. T \subseteq S
      BY <1>2, <1>4, <2>2
    <3>2. Cardinality(T) <= Cardinality(S)
      BY <3>1, NoMore
    <3> QED BY <1>1, <3>2
  <2> QED BY <2>1, <2>2
<1>5. CASE ~old.newline /\ ~IsMalformed(last)
  <2>1. CASE newline
    <3>1. /\ IsFiniteSet(S \cup {g})
          /\ Cardinality(S \cup {g}) \in Nat
          /\ Cardinality(S \cup {g}) <= Cardinality(S) + 1
      BY <1>1, OneMore
    <3>2. T \subseteq (S \cup {g}) \cup {f}
      BY <1>2, <1>5
    <3>3. Cardinality(T) <= Cardinality(S \cup {g}) + 1
      BY <3>1, <3>2, OneMore
    <3>4. Budget(old) + 2 <= Budget(new)
      BY <1>1, <1>5, <2>1, Zenon
    <3> QED BY <1>1, <3>1, <3>3, <3>4
  <2>2. CASE ~newline
    <3>1. T \subseteq S \cup {g}
      BY <1>2, <1>5, <2>2
    <3>2. Cardinality(T) <= Cardinality(S) + 1
      BY <1>1, <3>1, OneMore
    <3>3. Budget(old) + 1 <= Budget(new)
      BY <1>1, <1>5, Zenon
    <3> QED BY <1>1, <3>2, <3>3
  <2> QED BY <2>1, <2>2
<1> QED BY <1>3, <1>4, <1>5

-----------------------------------------------------------------------------
(***************************************************************************)
(* What the checkpoint has lost, and what the next artifact may leave out. *)
(* A dictionary of records is the one shown by an artifact or the one a    *)
(* run has in memory.                                                      *)
(***************************************************************************)

\* No line of the file has this record of f, or a newer one.
Unwritten(old, record, f) ==
  /\ record # NoRecord
  /\ \A i \in RecordIndices(old, f) : old.lines[i].round < record.round

LostIn(old, shown, recs) ==
  {f \in Functions : Unwritten(old, shown[f], f) \/ Unwritten(old, recs[f], f)}

MissingIn(old, shown, recs, running) ==
  {f \in Functions : \/ shown[f] = NoRecord
                     \/ RecordIndices(old, f) = {}
                     \/ running /\ recs[f] = NoRecord}

\* A record stays written unless its line is the one that is joined.
LEMMA AddLineUnwritten ==
  ASSUME NEW old \in Files, HasContent(old),
         NEW line \in Lines, NEW newline \in BOOLEAN,
         NEW new, new = AddLine(old, line, newline),
         NEW f \in Functions, NEW record, Unwritten(new, record, f)
  PROVE  \/ Unwritten(old, record, f)
         \/ ~old.newline /\ Len(old.lines) \in RecordIndices(old, f)
<1> SUFFICES ASSUME ~(~old.newline /\ Len(old.lines) \in RecordIndices(old, f))
             PROVE  Unwritten(old, record, f)
  OBVIOUS
<1>1. RecordIndices(old, f) \subseteq RecordIndices(new, f)
  <2>1. CASE old.newline
    BY <2>1, AddLineRecords
  <2>2. CASE ~old.newline
    <3>1. RecordIndices(new, f) = RecordIndices(old, f) \ {Len(old.lines)}
      BY <2>2, AddLineRecords
    <3> QED BY <2>2, <3>1
  <2> QED BY <2>1, <2>2
<1>2. \A i \in RecordIndices(old, f) : new.lines[i] = old.lines[i]
  BY <1>1, AddLineRecords
<1> QED BY <1>1, <1>2 DEF Unwritten

\* The budget covers what is lost, with each line that is added.
LEMMA AddLineLost ==
  ASSUME NEW old \in Files, HasContent(old),
         NEW line \in Lines, NEW newline \in BOOLEAN,
         NEW new, new = AddLine(old, line, newline),
         NEW shown, NEW recs, NEW recs2, NEW f \in Functions,
         Cardinality(LostIn(old, shown, recs)) <= Budget(old),
         \A h \in Functions :
           \/ recs2[h] \in {recs[h], NoRecord}
           \/ h = f /\ recs2[h] = line /\ newline /\ line \in RecordLines /\ line.fn = f
  PROVE  Cardinality(LostIn(new, shown, recs2)) <= Budget(new)
<1> DEFINE S == LostIn(old, shown, recs)
           T == LostIn(new, shown, recs2)
<1>1. S \in SUBSET Functions /\ T \in SUBSET Functions
  BY DEF LostIn
<1>2. ASSUME NEW h \in T
      PROVE  \/ h \in S
             \/ ~old.newline /\ Len(old.lines) \in RecordIndices(old, h)
             \/ ~old.newline /\ newline /\ h = f
  <2>1. h \in Functions /\ (Unwritten(new, shown[h], h) \/ Unwritten(new, recs2[h], h))
    BY DEF LostIn
  <2>2. CASE Unwritten(new, shown[h], h)
    BY <2>1, <2>2, AddLineUnwritten DEF LostIn
  <2>3. CASE Unwritten(new, recs2[h], h) /\ recs2[h] \in {recs[h], NoRecord}
    <3>1. recs2[h] = recs[h]
      BY <2>3 DEF Unwritten
    <3> QED BY <2>1, <2>3, <3>1, AddLineUnwritten DEF LostIn
  <2>4. CASE /\ Unwritten(new, recs2[h], h)
             /\ h = f /\ recs2[h] = line /\ newline /\ line \in RecordLines /\ line.fn = f
    <3> SUFFICES ASSUME old.newline PROVE FALSE
      BY <2>4
    <3>1. IsRecord(line) /\ line.round \in Nat
      BY <2>4 DEF IsRecord, RecordLines
    <3>2. Len(old.lines) + 1 \in RecordIndices(new, f)
      <4>1. IsRecord(line) /\ line.fn = f
        BY <2>4, <3>1
      <4>2. RecordIndices(new, f) = RecordIndices(old, f) \cup {Len(old.lines) + 1}
        BY <4>1, AddLineRecords
      <4> QED BY <4>2
    <3>3. new.lines[Len(old.lines) + 1] = line
      BY AddLineLines
    <3>4. Unwritten(new, line, f)
      BY <2>4, Zenon
    <3> QED BY <3>1, <3>2, <3>3, <3>4 DEF Unwritten
  <2> QED BY <2>1, <2>2, <2>3, <2>4
<1> HIDE DEF S, T
<1>3. old.newline => T \subseteq S
  BY <1>2
<1>4. Cardinality(T) <= Budget(new)
  BY <1>1, <1>2, <1>3, AddLineCost DEF S
<1> QED BY <1>4 DEF T

\* And what the next artifact may leave out.
LEMMA AddLineMissing ==
  ASSUME NEW old \in Files, HasContent(old),
         NEW line \in Lines, NEW newline \in BOOLEAN,
         NEW new, new = AddLine(old, line, newline),
         NEW shown, NEW recs, NEW recs2, NEW running2 \in BOOLEAN,
         Cardinality(MissingIn(old, shown, recs, TRUE)) <= Budget(old),
         running2 => \A h \in Functions : recs2[h] = NoRecord => recs[h] = NoRecord
  PROVE  Cardinality(MissingIn(new, shown, recs2, running2)) <= Budget(new)
<1> DEFINE S == MissingIn(old, shown, recs, TRUE)
           T == MissingIn(new, shown, recs2, running2)
<1>1. S \in SUBSET Functions /\ T \in SUBSET Functions
  BY DEF MissingIn
<1>2. ASSUME NEW h \in T
      PROVE  \/ h \in S
             \/ ~old.newline /\ Len(old.lines) \in RecordIndices(old, h)
  <2>1. h \in Functions
    BY DEF MissingIn
  <2>2. CASE shown[h] = NoRecord \/ (running2 /\ recs2[h] = NoRecord)
    BY <2>1, <2>2 DEF MissingIn
  <2>3. CASE RecordIndices(new, h) = {}
    <3>1. CASE old.newline
      <4>1. RecordIndices(old, h) = {}
        BY <2>1, <2>3, <3>1, AddLineRecords
      <4> QED BY <2>1, <4>1 DEF MissingIn
    <3>2. CASE ~old.newline
      <4>1. RecordIndices(new, h) = RecordIndices(old, h) \ {Len(old.lines)}
        BY <2>1, <3>2, AddLineRecords
      <4>2. RecordIndices(old, h) = {} \/ Len(old.lines) \in RecordIndices(old, h)
        BY <2>3, <4>1
      <4> QED BY <2>1, <3>2, <4>2 DEF MissingIn
    <3> QED BY <3>1, <3>2
  <2> QED BY <2>2, <2>3 DEF MissingIn
<1>5. Cardinality(S) <= Budget(old)
  OBVIOUS
<1> HIDE DEF S, T
<1>3. old.newline => T \subseteq S
  BY <1>2
<1>4. Cardinality(T) <= Budget(new)
  <2> DEFINE any == "any"
  <2>1. ~old.newline => \A h \in T : \/ h \in S
                                     \/ Len(old.lines) \in RecordIndices(old, h)
                                     \/ newline /\ h = any
    BY <1>2
  <2> HIDE DEF any
  <2> QED BY <1>1, <1>3, <1>5, <2>1, AddLineCost
<1> QED BY <1>4 DEF T

(***************************************************************************)
(* Completed records.                                                      *)
(***************************************************************************)

\* Only the last record of a function can be a completed one.
CompletedLast(old) ==
  \A f \in Functions : \A i, j \in RecordIndices(old, f) : i < j => ~old.lines[i].ok

\* None of the records of f is a completed one.
NoneCompleted(old, f) == \A i \in RecordIndices(old, f) : ~old.lines[i].ok

\* A write leaves the records of other functions alone, or takes the last line.
LEMMA AddLineOthers ==
  ASSUME NEW old \in Files, HasContent(old) \/ old.newline,
         NEW line \in Lines, NEW newline \in BOOLEAN,
         NEW new, new = AddLine(old, line, newline),
         NEW g \in Functions, IsRecord(line) => line.fn # g
  PROVE  /\ RecordIndices(new, g) \subseteq RecordIndices(old, g)
         /\ \A i \in RecordIndices(new, g) : new.lines[i] = old.lines[i]
<1>1. RecordIndices(new, g) \subseteq RecordIndices(old, g)
  <2>1. CASE old.newline
    BY <2>1, AddLineRecords
  <2>2. CASE ~old.newline
    BY <2>2, AddLineRecords
  <2> QED BY <2>1, <2>2
<1> QED BY <1>1, AddLineRecords

LEMMA AddLineCompletedLast ==
  ASSUME NEW old \in Files, HasContent(old) \/ old.newline,
         NEW line \in Lines, NEW newline \in BOOLEAN,
         NEW new, new = AddLine(old, line, newline),
         CompletedLast(old),
         IsRecord(line) => NoneCompleted(old, line.fn)
  PROVE  CompletedLast(new)
<1> SUFFICES ASSUME NEW f \in Functions, NEW i \in RecordIndices(new, f),
                    NEW j \in RecordIndices(new, f), i < j
             PROVE  ~new.lines[i].ok
  BY DEF CompletedLast
<1>1. CASE IsRecord(line) => line.fn # f
  BY <1>1, AddLineOthers DEF CompletedLast
<1>2. CASE IsRecord(line) /\ line.fn = f
  <2>1. NoneCompleted(old, f)
    BY <1>2
  <2>2. CASE i \in RecordIndices(old, f)
    BY <2>1, <2>2, AddLineRecords DEF NoneCompleted
  <2>3. CASE i \notin RecordIndices(old, f)
    <3>1. old.newline /\ i = Len(old.lines) + 1
      <4>1. CASE old.newline
        BY <1>2, <2>3, <4>1, AddLineRecords
      <4>2. CASE ~old.newline
        BY <2>3, <4>2, AddLineRecords
      <4> QED BY <4>1, <4>2
    <3>2. j \in 1..(Len(old.lines) + 1) /\ Len(old.lines) \in Nat
      BY <3>1, AddLineLines DEF RecordIndices
    <3> QED BY <3>1, <3>2
  <2> QED BY <2>2, <2>3
<1> QED BY <1>1, <1>2

\* What a load finds of a function whose records stay.
LEMMA SameRecordsLoad ==
  ASSUME NEW old, NEW new, NEW g \in Functions,
         RecordIndices(new, g) = RecordIndices(old, g),
         \A i \in RecordIndices(old, g) : new.lines[i] = old.lines[i],
         NEW i \in RecordIndices(old, g), LastIn(RecordIndices(old, g)) = i
  PROVE  LoadedRecords(new)[g] = LoadedRecords(old)[g]
BY DEF LoadedRecords

\* A completed record stays, unless its line is the one that is joined.
LEMMA AddLineKeepsCompleted ==
  ASSUME NEW old \in Files, HasContent(old) \/ old.newline,
         NEW line \in Lines, NEW newline \in BOOLEAN,
         NEW new, new = AddLine(old, line, newline),
         IsRecord(line) => NoneCompleted(old, line.fn),
         NEW g \in Functions, IsCompleted(LoadedRecords(old)[g])
  PROVE  \/ LoadedRecords(new)[g] = LoadedRecords(old)[g]
         \/ ~old.newline /\ old.lines[Len(old.lines)] = LoadedRecords(old)[g]
<1> DEFINE i == LastIn(RecordIndices(old, g))
<1>1. RecordIndices(old, g) # {}
  <2> SUFFICES ASSUME RecordIndices(old, g) = {} PROVE FALSE
    OBVIOUS
  <2>1. LoadedRecords(old)[g] = NoRecord
    BY DEF LoadedRecords
  <2> QED BY <2>1 DEF IsCompleted
<1>2. /\ Len(old.lines) \in Nat
      /\ RecordIndices(old, g) \in SUBSET (1..Len(old.lines))
  BY AddLineLines DEF RecordIndices
<1>3. i \in RecordIndices(old, g) /\ \A j \in RecordIndices(old, g) : j <= i
  BY <1>1, <1>2, LastInIsLast
<1>4. LoadedRecords(old)[g] = old.lines[i]
  BY <1>1 DEF LoadedRecords
<1>5. old.lines[i].ok
  BY <1>4 DEF IsCompleted
<1> HIDE DEF i
<1>6. IsRecord(line) => line.fn # g
  BY <1>3, <1>5 DEF NoneCompleted
<1>7. CASE old.newline
  <2>1. RecordIndices(new, g) = RecordIndices(old, g)
    BY <1>6, <1>7, AddLineRecords
  <2>2. \A j \in RecordIndices(old, g) : new.lines[j] = old.lines[j]
    BY <2>1, AddLineRecords
  <2> QED BY <1>3, <2>1, <2>2, SameRecordsLoad DEF i
<1>8. CASE ~old.newline /\ i # Len(old.lines)
  <2>1. Len(old.lines) \notin RecordIndices(old, g)
    BY <1>2, <1>3, <1>8
  <2>2. RecordIndices(new, g) = RecordIndices(old, g)
    <3>1. RecordIndices(new, g) = RecordIndices(old, g) \ {Len(old.lines)}
      BY <1>8, AddLineRecords
    <3> QED BY <2>1, <3>1
  <2>3. \A j \in RecordIndices(old, g) : new.lines[j] = old.lines[j]
    BY <2>2, AddLineRecords
  <2> QED BY <1>3, <2>2, <2>3, SameRecordsLoad DEF i
<1>9. CASE ~old.newline /\ i = Len(old.lines)
  BY <1>4, <1>9
<1> QED BY <1>7, <1>8, <1>9

(***************************************************************************)
(* The header.                                                             *)
(***************************************************************************)

\* The file begins with its header, unless that was torn.
HeaderFirst(old) ==
  /\ \A i \in HeaderIndices(old) : i = 1
  /\ HasContent(old) => IsHeader(old.lines[1]) \/ IsMalformed(old.lines[1])

LEMMA AddLineHeaderFirst ==
  ASSUME NEW old \in Files, HasContent(old), HeaderFirst(old),
         NEW line \in Lines, ~IsHeader(line), NEW newline \in BOOLEAN,
         NEW new, new = AddLine(old, line, newline)
  PROVE  /\ HeaderFirst(new)
         /\ HasContent(new)
         /\ \A i \in HeaderIndices(new) :
              i \in HeaderIndices(old) /\ new.lines[i] = old.lines[i]
<1>1. Grows(old, new, line)
  BY AddLineGrows
<1>2. \A i \in HeaderIndices(new) :
        i \in HeaderIndices(old) /\ new.lines[i] = old.lines[i]
  BY <1>1, GrowsHeaders
<1>3. Len(old.lines) \in Nat /\ Len(old.lines) > 0
  BY AddLineLines DEF HasContent
<1>4. HasContent(new) /\ new.lines[1] \in {old.lines[1], Malformed}
  <2>1. CASE old.newline
    <3>1. Len(new.lines) = Len(old.lines) + 1 /\ new.lines[1] = old.lines[1]
      BY <1>3, <2>1, AddLineLines
    <3> QED BY <1>3, <3>1 DEF HasContent
  <2>2. CASE ~old.newline
    <3>1. Len(new.lines) = Len(old.lines) /\ new.lines[1] \in {old.lines[1], Malformed}
      BY <1>3, <2>2, AddLineLines
    <3> QED BY <1>3, <3>1 DEF HasContent
  <2> QED BY <2>1, <2>2
<1>5. IsMalformed(Malformed)
  BY DEF IsMalformed, Malformed
<1> QED BY <1>2, <1>4, <1>5 DEF HeaderFirst

\* A header on the first line only is the one that is loaded.
LEMMA LoadedHeaderIsFirst ==
  ASSUME NEW old \in Files, HeaderFirst(old), Loads(old), NEW i \in HeaderIndices(old)
  PROVE  old.lines[i].cfg = LoadedHeader(old)
<1>1. PICK j \in HeaderIndices(old) : LoadedHeader(old) = old.lines[j].cfg
  BY LoadedHeaderIsOne
<1> QED BY <1>1 DEF HeaderFirst

\* A record is loaded exactly where there is one, and it is written there.
LEMMA LoadedIsWritten ==
  ASSUME NEW old \in Files, NEW f \in Functions
  PROVE  /\ LoadedRecords(old)[f] = NoRecord <=> RecordIndices(old, f) = {}
         /\ ~Unwritten(old, LoadedRecords(old)[f], f)
         /\ CompletedLast(old) /\ ~IsCompleted(LoadedRecords(old)[f]) => NoneCompleted(old, f)
<1>1. NoRecord \notin RecordLines
  BY DEF NoRecord, RecordLines
<1>2. CASE RecordIndices(old, f) = {} /\ LoadedRecords(old)[f] = NoRecord
  BY <1>2 DEF Unwritten, NoneCompleted
<1>3. CASE \E i \in RecordIndices(old, f) :
             /\ LoadedRecords(old)[f] = old.lines[i]
             /\ LoadedRecords(old)[f] \in RecordLines
             /\ \A j \in RecordIndices(old, f) : j <= i
  <2>1. PICK i \in RecordIndices(old, f) :
               /\ LoadedRecords(old)[f] = old.lines[i]
               /\ LoadedRecords(old)[f] \in RecordLines
               /\ \A j \in RecordIndices(old, f) : j <= i
    BY <1>3
  <2>2. LoadedRecords(old)[f] # NoRecord /\ RecordIndices(old, f) # {}
    BY <1>1, <2>1
  <2>3. old.lines[i].round \in Nat
    BY <2>1 DEF RecordLines
  <2>4. ~Unwritten(old, LoadedRecords(old)[f], f)
    BY <2>1, <2>3 DEF Unwritten
  <2>5. ASSUME CompletedLast(old), ~IsCompleted(LoadedRecords(old)[f])
        PROVE  NoneCompleted(old, f)
    <3> SUFFICES ASSUME NEW j \in RecordIndices(old, f) PROVE ~old.lines[j].ok
      BY DEF NoneCompleted
    <3>1. j \in Nat /\ i \in Nat /\ j <= i
      BY <2>1, RecordIndicesType
    <3>2. CASE j = i
      BY <2>1, <2>2, <2>5, <3>2 DEF IsCompleted
    <3>3. CASE j < i
      BY <2>1, <2>5, <3>3 DEF CompletedLast
    <3> QED BY <3>1, <3>2, <3>3
  <2> QED BY <2>2, <2>4, <2>5
<1> QED BY <1>2, <1>3, LoadedRecordsAreLast

-----------------------------------------------------------------------------
(***************************************************************************)
(* The invariant.                                                          *)
(***************************************************************************)

\* The records the artifact shows.
Shown == IF artifact = NoArtifact THEN Unloaded ELSE artifact.records

\* What a run knows that has its checkpoint open: its gates passed under its
\* settings, which are the file's; every function is still to do, or recorded.
InRun ==
  pc \in Running =>
    /\ GatesPassed
    /\ HasContent(file)
    /\ \A i \in HeaderIndices(file) : file.lines[i].cfg = config
    /\ \A f \in todo : RoundOf(records[f]) < MaxRound
    /\ \A f \in Functions \ todo : records[f] # NoRecord
    /\ index + Cardinality(todo) <= Cardinality(Functions)

\* No line of a function that is still to do is a completed one.
ToDoOpen ==
  pc \in {"enriching", "periodic"} => \A f \in todo : NoneCompleted(file, f)

\* Outside a run nothing is loaded.
OutOfRun ==
  /\ pc # "dead" => kernel \in 1..MaxKernels
  /\ pc \notin Running => records = Unloaded

\* An artifact that is to settle the status shows every function.
Settling ==
  pc = "settling" => artifact # NoArtifact /\ \A f \in Functions : Shows(f)

Complete ==
  artifact # NoArtifact /\ ~artifact.partial => \A f \in Functions : Shows(f)

FileInOrder == HeaderFirst(file) /\ CompletedLast(file)

LossInBudget == Cardinality(LostIn(file, Shown, records)) <= Budget(file)

Covered ==
  status = "enrichment_passed" =>
    /\ artifact # NoArtifact
    /\ Cardinality(MissingIn(file, Shown, records, pc \in Running)) <= Budget(file)

\* An undamaged file is what the session has in memory.
MemoryIsFile == Appending /\ Undamaged(file) => records = LoadedRecords(file)

IInv ==
  /\ TypeOK
  /\ OutOfRun
  /\ InRun
  /\ ToDoOpen
  /\ Settling
  /\ Complete
  /\ FileInOrder
  /\ LossInBudget
  /\ Covered
  /\ MemoryIsFile

LEMMA NoRecordIsNone == \A r \in RecordLines : r # NoRecord
BY DEF RecordLines, NoRecord

LEMMA UnloadedType == Unloaded \in [Functions -> MaybeRecords]
BY DEF Unloaded, MaybeRecords

\* What an empty file holds.
LEMMA EmptyFileHolds ==
  /\ EmptyFile \in Files
  /\ ~HasContent(EmptyFile)
  /\ HeaderFirst(EmptyFile)
  /\ CompletedLast(EmptyFile)
<1>1. EmptyFile.lines = <<>> /\ EmptyFile.newline = TRUE
  BY DEF EmptyFile
<1>2. <<>> \in Seq(Lines) /\ Len(<<>>) = 0 /\ DOMAIN <<>> = {}
  OBVIOUS
<1>3. EmptyFile \in Files
  BY <1>2 DEF EmptyFile, Files
<1>4. ~HasContent(EmptyFile)
  BY <1>1, <1>2 DEF HasContent
<1>5. HeaderIndices(EmptyFile) = {} /\ \A f \in Functions : RecordIndices(EmptyFile, f) = {}
  BY <1>1, <1>2 DEF HeaderIndices, RecordIndices
<1> QED BY <1>3, <1>4, <1>5 DEF HeaderFirst, CompletedLast

\* A file without content has nothing, and is within every budget.
LEMMA NoContentHolds ==
  ASSUME NEW old \in Files, ~HasContent(old)
  PROVE  /\ HeaderIndices(old) = {}
         /\ \A f \in Functions : RecordIndices(old, f) = {}
         /\ Budget(old) = 0
<1>1. Len(old.lines) = 0 /\ DOMAIN old.lines = {}
  BY DEF Files, HasContent
<1>2. Malformations(old) = {}
  BY <1>1 DEF Malformations
<1>3. Cardinality(Malformations(old)) = 0 /\ ~OpenMalformed(old)
  BY <1>2, FS_EmptySet DEF OpenMalformed
<1>4. Budget(old) = 0
  <2>1. (IF OpenMalformed(old) THEN 1 ELSE 0) = 0
    BY <1>3
  <2>2. 2 * Cardinality(Malformations(old)) = 0
    BY <1>3
  <2> QED BY <2>1, <2>2 DEF Budget
<1>5. HeaderIndices(old) = {} /\ \A f \in Functions : RecordIndices(old, f) = {}
  BY <1>1 DEF HeaderIndices, RecordIndices
<1> QED BY <1>4, <1>5

\* Nothing is lost of records that are not there.
LEMMA NothingLost ==
  ASSUME NEW old, NEW shown, NEW recs,
         \A f \in Functions : shown[f] = NoRecord /\ recs[f] = NoRecord
  PROVE  LostIn(old, shown, recs) = {}
BY DEF LostIn, Unwritten

LEMMA InitIInv == Init => IInv
<1> SUFFICES ASSUME Init PROVE IInv
  OBVIOUS
<1>1. TypeOK
  <2>1. /\ gates \in [Gates -> GateRecords \cup {NoGate}]
        /\ smoke \in [SmokeGates -> Configs \cup {NoOwner, Torn}]
    BY DEF Init
  <2>2. kernel \in 0..MaxKernels /\ index \in 0..Cardinality(Functions)
    BY FunctionsAssumption, BoundsAssumption, FS_CardinalityType DEF Init
  <2>3. /\ config \in Configs /\ status \in Statuses /\ pc = "dead"
        /\ loaded \in BOOLEAN /\ todo = {} /\ artifact = NoArtifact
    BY DEF Init, Statuses
  <2>4. file \in Files /\ records \in [Functions -> MaybeRecords]
    BY EmptyFileHolds, UnloadedType DEF Init
  <2> QED BY <2>1, <2>2, <2>3, <2>4 DEF TypeOK
<1>2. OutOfRun /\ InRun /\ ToDoOpen /\ Settling /\ Complete /\ Covered /\ MemoryIsFile
  BY DEF Init, OutOfRun, InRun, ToDoOpen, Settling, Complete, Covered, MemoryIsFile,
         Appending, Running
<1>3. FileInOrder
  BY EmptyFileHolds DEF Init, FileInOrder
<1>4. LossInBudget
  <2>1. \A f \in Functions : Shown[f] = NoRecord /\ records[f] = NoRecord
    BY DEF Init, Shown, Unloaded
  <2>2. Cardinality(LostIn(file, Shown, records)) = 0
    BY <2>1, NothingLost, FS_EmptySet
  <2>3. 0 <= Budget(file)
    BY EmptyFileHolds, BudgetType DEF Init
  <2> QED BY <2>2, <2>3 DEF LossInBudget
<1> QED BY <1>1, <1>2, <1>3, <1>4 DEF IInv

\* What the checkpoint still has to vouch for when it is left alone.
LEMMA FileKept ==
  ASSUME IInv, UNCHANGED <<file, artifact>>,
         records' = records \/ records' = Unloaded,
         pc' \in Running => pc \in Running /\ UNCHANGED records,
         status' # status => status' # "enrichment_passed"
  PROVE  FileInOrder' /\ LossInBudget' /\ Covered' /\ Complete'
<1>1. FileInOrder'
  BY DEF IInv, FileInOrder
<1>2. Complete'
  BY DEF IInv, Complete, Shows
<1>3. Shown' = Shown /\ file \in Files
  BY DEF Shown, IInv, TypeOK
<1>4. LossInBudget'
  <2>1. LostIn(file, Shown, records') \subseteq LostIn(file, Shown, records)
    BY DEF LostIn, Unwritten, Unloaded
  <2>2. /\ Cardinality(LostIn(file, Shown, records')) <= Cardinality(LostIn(file, Shown, records))
        /\ Cardinality(LostIn(file, Shown, records')) \in Nat
        /\ Cardinality(LostIn(file, Shown, records)) \in Nat
    BY <2>1, NoMore DEF LostIn
  <2>3. Cardinality(LostIn(file, Shown, records)) <= Budget(file)
    BY DEF IInv, LossInBudget
  <2>4. Cardinality(LostIn(file, Shown, records')) <= Budget(file)
    BY <1>3, <2>2, <2>3, BudgetType
  <2> QED BY <1>3, <2>4 DEF LossInBudget
<1>5. Covered'
  <2> SUFFICES ASSUME status' = "enrichment_passed" PROVE Covered'
    BY DEF Covered
  <2> DEFINE S == MissingIn(file, Shown, records, pc \in Running)
             T == MissingIn(file, Shown, records', pc' \in Running)
  <2>1. artifact # NoArtifact /\ Cardinality(S) <= Budget(file)
    BY DEF IInv, Covered
  <2>2. T \subseteq S
    BY DEF MissingIn
  <2>3. Cardinality(T) <= Cardinality(S) /\ Cardinality(T) \in Nat /\ Cardinality(S) \in Nat
    BY <2>2, NoMore DEF MissingIn
  <2> HIDE DEF S, T
  <2>4. Cardinality(T) <= Budget(file)
    BY <1>3, <2>1, <2>3, BudgetType
  <2> QED BY <1>3, <2>1, <2>4 DEF Covered, T
<1> QED BY <1>1, <1>2, <1>4, <1>5

(***************************************************************************)
(* Outside a full run nothing happens to the model's files but its status. *)
(***************************************************************************)

Outside ==
  \/ \E c \in Configs : StartKernel(c) \/ EditConfig(c)
  \/ LoadModel
  \/ \E g \in Gates : \/ \E passed \in BOOLEAN : RunGate(g, passed)
                      \/ GateRefused(g)
                      \/ GateRaises(g)
                      \/ KillInGate(g)
  \/ RefuseFull
  \/ KillInStart

LEMMA OutsideFrame ==
  Outside => /\ UNCHANGED <<file, artifact>>
             /\ records' = records \/ records' = Unloaded
             /\ status' # status => status' # "enrichment_passed"
             /\ pc \notin Running
             /\ pc' \notin Running
BY SentinelsAssumption
   DEF Outside, StartKernel, EditConfig, LoadModel, RunGate, GateRefused, GateRaises,
       KillInGate, RefuseFull, KillInStart, CellFails, Dies, LeaveFull, disk, full, Running

\* What a cell that fails, and a kernel that dies, leave in the kernel.
LEMMA LeftType ==
  ASSUME IInv, CellFails \/ Dies, pc # "dead"
  PROVE  /\ kernel' \in 1..MaxKernels
         /\ pc' \in {"dead", "idle"} /\ config' \in Configs /\ loaded' \in BOOLEAN
         /\ records' = Unloaded /\ records' \in [Functions -> MaybeRecords]
         /\ todo' \subseteq Functions /\ index' \in 0..Cardinality(Functions)
<1>1. 0 \in 0..Cardinality(Functions)
  BY FunctionsAssumption, FS_CardinalityType
<1>2. /\ UNCHANGED <<kernel, config>> /\ loaded' = FALSE /\ pc' \in {"dead", "idle"}
      /\ records' = Unloaded /\ todo' = {} /\ index' = 0
  BY DEF CellFails, Dies, LeaveFull
<1>3. kernel \in 1..MaxKernels /\ config \in Configs
  BY DEF IInv, OutOfRun, TypeOK
<1> QED BY <1>1, <1>2, <1>3, UnloadedType

LEMMA OutsideType == IInv /\ Outside => TypeOK' /\ (pc' # "dead" => kernel' \in 1..MaxKernels)
<1> SUFFICES ASSUME IInv, Outside
             PROVE  TypeOK' /\ (pc' # "dead" => kernel' \in 1..MaxKernels)
  OBVIOUS
<1>0. TypeOK /\ (pc # "dead" => kernel \in 1..MaxKernels) /\ kernel \in 0..MaxKernels
  BY DEF IInv, OutOfRun, TypeOK
<1>1. ASSUME NEW c \in Configs, StartKernel(c) \/ EditConfig(c) PROVE
        TypeOK' /\ (pc' # "dead" => kernel' \in 1..MaxKernels)
  <2>1. kernel' \in 0..MaxKernels /\ (pc' # "dead" => kernel' \in 1..MaxKernels)
    <3>1. \/ kernel < MaxKernels /\ kernel' = kernel + 1
          \/ pc # "dead" /\ UNCHANGED kernel
      BY <1>1 DEF StartKernel, EditConfig
    <3> QED BY <1>0, <3>1, BoundsAssumption
  <2>2. UNCHANGED <<disk, loaded, full>> /\ config' \in Configs /\ pc' = "idle"
    BY <1>1 DEF StartKernel, EditConfig
  <2> QED BY <1>0, <2>1, <2>2 DEF TypeOK, disk, full
<1>2. CASE LoadModel
  BY <1>0, <1>2 DEF LoadModel, TypeOK, disk, full
<1>3. ASSUME NEW g \in Gates, NEW passed \in BOOLEAN, RunGate(g, passed) PROVE
        TypeOK' /\ (pc' # "dead" => kernel' \in 1..MaxKernels)
  <2>0. kernel \in 1..MaxKernels /\ config \in Configs /\ gates # Torn /\ pc # "dead"
    BY <1>0, <1>3 DEF RunGate, TypeOK
  <2>1. gates' \in [Gates -> GateRecords \cup {NoGate}]
    <3>1. gates \in [Gates -> GateRecords \cup {NoGate}]
      BY <1>0, <2>0 DEF TypeOK
    <3>2. [passed |-> passed, cfg |-> config, kernel |-> kernel] \in GateRecords
      BY <2>0 DEF GateRecords
    <3> QED BY <1>3, <3>1, <3>2 DEF RunGate
  <2>2. smoke' \in [SmokeGates -> Configs \cup {NoOwner, Torn}]
    BY <1>0, <1>3 DEF RunGate, AfterSmoke, TypeOK
  <2>3. UNCHANGED <<file, artifact, status>>
    BY <1>3 DEF RunGate
  <2>4. CASE UNCHANGED <<pc, loaded, kernel, config, full>>
    BY <1>0, <2>0, <2>1, <2>2, <2>3, <2>4 DEF TypeOK, full
  <2>5. CASE CellFails
    <3>1. /\ kernel' \in 1..MaxKernels /\ kernel' \in 0..MaxKernels
          /\ pc' \in {"dead", "idle"} /\ config' \in Configs /\ loaded' \in BOOLEAN
          /\ records' \in [Functions -> MaybeRecords]
          /\ todo' \subseteq Functions /\ index' \in 0..Cardinality(Functions)
      BY <2>0, <2>5, LeftType
    <3> QED BY <1>0, <2>1, <2>2, <2>3, <3>1 DEF TypeOK
  <2> QED BY <1>3, <2>4, <2>5 DEF RunGate
<1>4. ASSUME NEW g \in Gates, GateRefused(g) \/ GateRaises(g) \/ KillInGate(g) \/ RefuseFull PROVE
        TypeOK' /\ (pc' # "dead" => kernel' \in 1..MaxKernels)
  <2>1. smoke' \in [SmokeGates -> Configs \cup {NoOwner, Torn}]
    <3>1. smoke \in [SmokeGates -> Configs \cup {NoOwner, Torn}] /\ config \in Configs
      BY <1>0 DEF TypeOK
    <3>2. CASE AfterSmoke(g)
      BY <3>1, <3>2 DEF AfterSmoke
    <3>3. CASE smoke' = [h \in SmokeGates |-> IF h = g THEN Torn ELSE smoke[h]]
      BY <3>1, <3>3
    <3>4. CASE UNCHANGED smoke
      BY <3>1, <3>4
    <3> QED BY <1>4, <3>2, <3>3, <3>4
            DEF GateRefused, GateRaises, KillInGate, RefuseFull, disk
  <2>2. gates' \in {gates, Torn} /\ UNCHANGED <<file, artifact, status>>
    BY <1>4 DEF GateRefused, GateRaises, KillInGate, RefuseFull, disk
  <2>3. pc # "dead" /\ (CellFails \/ Dies)
    BY <1>4 DEF GateRefused, GateRaises, KillInGate, RefuseFull
  <2>4. /\ kernel' \in 1..MaxKernels /\ kernel' \in 0..MaxKernels
        /\ pc' \in {"dead", "idle"} /\ config' \in Configs /\ loaded' \in BOOLEAN
        /\ records' \in [Functions -> MaybeRecords]
        /\ todo' \subseteq Functions /\ index' \in 0..Cardinality(Functions)
    BY <2>3, LeftType
  <2> QED BY <1>0, <2>1, <2>2, <2>4 DEF TypeOK
<1>5. CASE KillInStart
  <2>1. kernel < MaxKernels /\ kernel' = kernel + 1
    BY <1>5 DEF KillInStart
  <2>2. kernel' \in 0..MaxKernels
    BY <1>0, <2>1, BoundsAssumption
  <2>3. pc' = "dead" /\ status' = Torn
        /\ UNCHANGED <<gates, smoke, file, artifact, config, loaded, full>>
    BY <1>5 DEF KillInStart
  <2> QED BY <1>0, <2>2, <2>3 DEF TypeOK, full
<1>6. "gate1" \in Gates
  BY GatesAssumption
<1> QED BY <1>1, <1>2, <1>3, <1>4, <1>5, <1>6 DEF Outside

\* Outside a run the promises of one are idle.
LEMMA IdleHolds ==
  ASSUME pc' \notin Running
  PROVE  InRun' /\ ToDoOpen' /\ Settling' /\ MemoryIsFile'
BY DEF InRun, ToDoOpen, Settling, MemoryIsFile, Appending, Running

LEMMA OutsideStep == IInv /\ Outside => IInv'
<1> SUFFICES ASSUME IInv, Outside PROVE IInv'
  OBVIOUS
<1>1. TypeOK' /\ (pc' # "dead" => kernel' \in 1..MaxKernels)
  BY OutsideType
<1>2. /\ UNCHANGED <<file, artifact>>
      /\ records' = records \/ records' = Unloaded
      /\ status' # status => status' # "enrichment_passed"
      /\ pc \notin Running /\ pc' \notin Running
  BY OutsideFrame
<1>3. InRun' /\ ToDoOpen' /\ Settling' /\ MemoryIsFile'
  BY <1>2, IdleHolds
<1>4. OutOfRun'
  BY <1>1, <1>2 DEF IInv, OutOfRun
<1>5. FileInOrder' /\ LossInBudget' /\ Covered' /\ Complete'
  BY <1>2, FileKept
<1> QED BY <1>1, <1>3, <1>4, <1>5 DEF IInv

(***************************************************************************)
(* A full run starts with what its gates and its checkpoint say.           *)
(***************************************************************************)

\* What the loop is given, whatever records it starts from.
LEMMA BeginsHolds ==
  ASSUME IInv, NEW recs \in [Functions -> MaybeRecords], Begins(recs),
         file' \in Files
  PROVE  /\ TypeOK' /\ OutOfRun' /\ Settling' /\ Complete'
         /\ GatesPassed'
         /\ \A f \in todo' : RoundOf(records'[f]) < MaxRound
         /\ \A f \in Functions \ todo' : records'[f] # NoRecord
         /\ index' + Cardinality(todo') <= Cardinality(Functions)
         /\ pc = "idle" /\ pc' = "enriching" /\ pc \notin Running /\ pc' \in Running
<1>1. /\ pc = "idle" /\ pc' = "enriching" /\ loaded /\ GatesPassed
      /\ records' = recs /\ todo' = ToDo(recs) /\ index' = 0
      /\ \A f \in ToDo(recs) : RoundOf(recs[f]) < MaxRound
      /\ UNCHANGED <<gates, smoke, artifact, status, kernel, config, loaded>>
  BY DEF Begins
<1>2. pc \notin Running /\ pc' \in Running
  BY <1>1 DEF Running
<1>3. index' \in 0..Cardinality(Functions) /\ todo' \subseteq Functions
  BY <1>1, FunctionsAssumption, FS_CardinalityType DEF ToDo
<1>4. TypeOK'
  BY <1>1, <1>2, <1>3 DEF IInv, TypeOK
<1>5. OutOfRun'
  BY <1>1, <1>2 DEF IInv, OutOfRun
<1>6. Settling' /\ Complete'
  BY <1>1 DEF IInv, Settling, Complete, Shows
<1>7. GatesPassed'
  BY <1>1 DEF GatesPassed
<1>8. \A f \in Functions \ todo' : records'[f] # NoRecord
  BY <1>1 DEF ToDo, IsCompleted
<1>9. index' + Cardinality(todo') <= Cardinality(Functions)
  <2>1. Cardinality(todo') <= Cardinality(Functions) /\ Cardinality(todo') \in Nat
    BY <1>3, FunctionsAssumption, FS_Subset, FS_CardinalityType
  <2> QED BY <1>1, <2>1
<1> QED BY <1>1, <1>2, <1>4, <1>5, <1>6, <1>7, <1>8, <1>9

\* A file that gets its first line.
LEMMA FirstLine ==
  ASSUME NEW c \in Configs, NEW line \in {HeaderLine(c), Malformed},
         NEW newline \in BOOLEAN, NEW new, new = AddLine(EmptyFile, line, newline)
  PROVE  /\ new \in Files /\ HasContent(new)
         /\ HeaderFirst(new) /\ CompletedLast(new)
         /\ \A i \in HeaderIndices(new) : new.lines[i].cfg = c
         /\ \A f \in Functions : RecordIndices(new, f) = {}
<1>1. line \in Lines
  BY DEF Lines, HeaderLines, HeaderLine
<1>2. EmptyFile \in Files /\ EmptyFile.newline /\ Len(EmptyFile.lines) = 0
  BY EmptyFileHolds DEF EmptyFile
<1>3. /\ new \in Files
      /\ Len(new.lines) = 1 /\ new.lines[1] = line
      /\ DOMAIN new.lines = 1..1
  <2>1. /\ new \in Files
        /\ DOMAIN new.lines = 1..Len(new.lines)
        /\ Len(new.lines) = Len(EmptyFile.lines) + 1
        /\ new.lines[Len(EmptyFile.lines) + 1] = line
    <3>1. PICK old \in Files : old = EmptyFile
      BY <1>2
    <3>2. /\ HasContent(old) \/ old.newline
          /\ old.newline /\ new = AddLine(old, line, newline)
      BY <1>2, <3>1
    <3>3. /\ new \in Files
          /\ DOMAIN new.lines = 1..Len(new.lines)
          /\ Len(new.lines) = Len(old.lines) + 1
          /\ new.lines[Len(old.lines) + 1] = line
      BY <1>1, <3>2, AddLineLines
    <3> QED BY <3>1, <3>3
  <2>2. Len(EmptyFile.lines) + 1 = 1
    BY <1>2
  <2> QED BY <2>1, <2>2, Zenon
<1>4. DOMAIN new.lines = {1}
  BY <1>3
<1>5. HasContent(new)
  BY <1>3 DEF HasContent
<1>6. /\ IsHeader(line) \/ IsMalformed(line)
      /\ ~IsRecord(line)
      /\ IsHeader(line) => line.cfg = c
  BY DEF IsHeader, IsMalformed, IsRecord, HeaderLine, Malformed
<1>7. \A i \in HeaderIndices(new) : i = 1 /\ new.lines[i].cfg = c
  BY <1>3, <1>4, <1>6 DEF HeaderIndices
<1>8. \A f \in Functions : RecordIndices(new, f) = {}
  BY <1>3, <1>4, <1>6 DEF RecordIndices
<1> QED BY <1>3, <1>5, <1>6, <1>7, <1>8 DEF HeaderFirst, CompletedLast

\* A checkpoint that is empty has had nothing to show, and its model has not
\* passed.
LEMMA NothingYet ==
  ASSUME IInv, ~HasContent(file)
  PROVE  /\ \A f \in Functions : Shown[f] = NoRecord
         /\ status # "enrichment_passed"
<1>1. /\ \A f \in Functions : RecordIndices(file, f) = {}
      /\ Budget(file) = 0
  BY NoContentHolds DEF IInv, TypeOK
<1>2. \A S \in SUBSET Functions : Cardinality(S) <= 0 => S = {}
  <2> SUFFICES ASSUME NEW S \in SUBSET Functions, Cardinality(S) <= 0 PROVE S = {}
    OBVIOUS
  <2>1. IsFiniteSet(S) /\ Cardinality(S) \in Nat
    BY FunctionsAssumption, FS_Subset, FS_CardinalityType
  <2>2. Cardinality(S) = 0
    BY <2>1
  <2> QED BY <2>1, <2>2, FS_EmptySet
<1>3. ASSUME NEW f \in Functions PROVE Shown[f] = NoRecord
  <2>1. LostIn(file, Shown, records) = {}
    BY <1>1, <1>2 DEF IInv, LossInBudget, LostIn
  <2> QED BY <1>1, <2>1 DEF LostIn, Unwritten
<1>4. ASSUME status = "enrichment_passed" PROVE FALSE
  <2>1. MissingIn(file, Shown, records, pc \in Running) = Functions
    BY <1>1 DEF MissingIn
  <2>2. Cardinality(Functions) <= 0
    BY <1>1, <1>4, <2>1 DEF IInv, Covered
  <2> QED BY <1>2, <2>2, FunctionsAssumption
<1> QED BY <1>3, <1>4

\* Whatever is written to it first, the budget covers it.
LEMMA CreateWithinBudget ==
  ASSUME IInv, ~HasContent(file), file' \in Files,
         UNCHANGED <<artifact, status>>, records' = Unloaded
  PROVE  LossInBudget' /\ Covered'
<1>1. (\A f \in Functions : Shown'[f] = NoRecord) /\ status' # "enrichment_passed"
  BY NothingYet DEF Shown
<1>2. LostIn(file', Shown', records') = {}
  BY <1>1, NothingLost DEF Unloaded
<1>3. Cardinality(LostIn(file', Shown', records')) = 0 /\ 0 <= Budget(file')
  BY <1>2, FS_EmptySet, BudgetType
<1> QED BY <1>1, <1>3 DEF LossInBudget, Covered

LEMMA CreateFullStep == IInv /\ CreateFull => IInv'
<1> SUFFICES ASSUME IInv, CreateFull PROVE IInv'
  OBVIOUS
<1>1. /\ ~HasContent(file) /\ file' = AddLine(EmptyFile, HeaderLine(config), TRUE)
      /\ Begins(Unloaded)
  BY DEF CreateFull
<1>2. config \in Configs
  BY DEF IInv, TypeOK
<1>3. /\ file' \in Files /\ HasContent(file')
      /\ HeaderFirst(file') /\ CompletedLast(file')
      /\ \A i \in HeaderIndices(file') : file'.lines[i].cfg = config
      /\ \A f \in Functions : RecordIndices(file', f) = {}
  BY <1>1, <1>2, FirstLine
<1>4. /\ TypeOK' /\ OutOfRun' /\ Settling' /\ Complete'
      /\ GatesPassed'
      /\ \A f \in todo' : RoundOf(records'[f]) < MaxRound
      /\ \A f \in Functions \ todo' : records'[f] # NoRecord
      /\ index' + Cardinality(todo') <= Cardinality(Functions)
  BY <1>1, <1>3, UnloadedType, BeginsHolds
<1>5. records' = Unloaded /\ UNCHANGED <<artifact, status, config>>
  BY <1>1 DEF Begins
<1>6. InRun'
  BY <1>3, <1>4, <1>5 DEF InRun
<1>7. ToDoOpen'
  BY <1>3, <1>4 DEF ToDoOpen, NoneCompleted, TypeOK
<1>8. MemoryIsFile'
  BY <1>1, <1>2, <1>5, HeaderOnlyLoads DEF MemoryIsFile, Unloaded
<1>9. LossInBudget' /\ Covered'
  BY <1>1, <1>3, <1>5, CreateWithinBudget
<1> QED BY <1>3, <1>4, <1>6, <1>7, <1>8, <1>9 DEF IInv, FileInOrder

\* The header may be cut short.
LEMMA CreateCutShortStep ==
  ASSUME IInv, NEW outcome \in Outcomes, CreateCutShort(outcome)
  PROVE  IInv'
<1>1. /\ pc = "idle" /\ ~HasContent(file)
      /\ file' = TornWrite(EmptyFile, HeaderLine(config), outcome)
      /\ CellFails \/ Dies
      /\ UNCHANGED <<gates, smoke, artifact, status>>
  BY DEF CreateCutShort
<1>2. config \in Configs /\ outcome \in WriteOutcomes
  BY OutcomesAssumption DEF IInv, TypeOK
<1>3. file' \in Files /\ HeaderFirst(file') /\ CompletedLast(file')
  <2>1. CASE outcome = "nothing"
    BY <1>1, <2>1, EmptyFileHolds DEF TornWrite
  <2>2. CASE outcome # "nothing"
    <3>1. PICK line \in {HeaderLine(config), Malformed}, newline \in BOOLEAN :
            file' = AddLine(EmptyFile, line, newline)
      BY <1>1, <2>2 DEF TornWrite
    <3> QED BY <1>2, <3>1, FirstLine
  <2> QED BY <2>1, <2>2
<1>4. /\ kernel' \in 1..MaxKernels
      /\ pc' \in {"dead", "idle"} /\ config' \in Configs /\ loaded' \in BOOLEAN
      /\ records' = Unloaded /\ records' \in [Functions -> MaybeRecords]
      /\ todo' \subseteq Functions /\ index' \in 0..Cardinality(Functions)
  BY <1>1, LeftType
<1>5. TypeOK'
  <2>1. kernel' \in 0..MaxKernels
    BY <1>4
  <2> QED BY <1>1, <1>3, <1>4, <2>1 DEF IInv, TypeOK
<1>6. OutOfRun'
  BY <1>4 DEF OutOfRun
<1>7. InRun' /\ ToDoOpen' /\ Settling' /\ MemoryIsFile'
  BY <1>4, IdleHolds DEF Running
<1>8. Complete'
  BY <1>1 DEF IInv, Complete, Shows
<1>9. LossInBudget' /\ Covered'
  BY <1>1, <1>3, <1>4, CreateWithinBudget
<1> QED BY <1>3, <1>5, <1>6, <1>7, <1>8, <1>9 DEF IInv, FileInOrder

LEMMA ResumeFullStep == IInv /\ ResumeFull => IInv'
<1> SUFFICES ASSUME IInv, ResumeFull PROVE IInv'
  OBVIOUS
<1>1. /\ HasContent(file) /\ Loads(file) /\ LoadedHeader(file) = config
      /\ Begins(LoadedRecords(file)) /\ UNCHANGED file
  BY DEF ResumeFull
<1>2. file \in Files /\ HeaderFirst(file) /\ CompletedLast(file)
  BY DEF IInv, TypeOK, FileInOrder
<1>3. /\ TypeOK' /\ OutOfRun' /\ Settling' /\ Complete'
      /\ GatesPassed'
      /\ \A f \in todo' : RoundOf(records'[f]) < MaxRound
      /\ \A f \in Functions \ todo' : records'[f] # NoRecord
      /\ index' + Cardinality(todo') <= Cardinality(Functions)
      /\ pc \notin Running
  BY <1>1, <1>2, LoadedRecordsType, BeginsHolds
<1>4. /\ records' = LoadedRecords(file) /\ todo' = ToDo(LoadedRecords(file))
      /\ UNCHANGED <<artifact, status, config>>
  BY <1>1 DEF Begins
<1>5. InRun'
  <2>1. \A i \in HeaderIndices(file) : file.lines[i].cfg = config
    BY <1>1, <1>2, LoadedHeaderIsFirst
  <2> QED BY <1>1, <1>3, <1>4, <2>1 DEF InRun
<1>6. ToDoOpen'
  <2>1. ASSUME NEW f \in todo' PROVE NoneCompleted(file, f)
    <3>1. f \in Functions /\ ~IsCompleted(LoadedRecords(file)[f])
      BY <1>4 DEF ToDo
    <3> QED BY <1>2, <3>1, LoadedIsWritten
  <2> QED BY <1>1, <2>1 DEF ToDoOpen
<1>7. MemoryIsFile'
  BY <1>1, <1>4 DEF MemoryIsFile
<1>8. Shown' = Shown /\ records = Unloaded
  BY <1>3, <1>4 DEF Shown, IInv, OutOfRun
<1>9. LossInBudget'
  <2>1. LostIn(file, Shown, records') = LostIn(file, Shown, records)
    <3>1. \A f \in Functions : /\ ~Unwritten(file, records'[f], f)
                               /\ ~Unwritten(file, records[f], f)
      BY <1>2, <1>4, <1>8, LoadedIsWritten DEF Unwritten, Unloaded
    <3> QED BY <3>1 DEF LostIn
  <2> QED BY <1>1, <1>8, <2>1 DEF IInv, LossInBudget
<1>10. Covered'
  <2>1. MissingIn(file, Shown, records', pc' \in Running)
          = MissingIn(file, Shown, records, pc \in Running)
    <3>1. \A f \in Functions : records'[f] = NoRecord <=> RecordIndices(file, f) = {}
      BY <1>2, <1>4, LoadedIsWritten
    <3> QED BY <1>3, <3>1 DEF MissingIn
  <2> QED BY <1>1, <1>4, <1>8, <2>1 DEF IInv, Covered
<1> QED BY <1>1, <1>2, <1>3, <1>5, <1>6, <1>7, <1>9, <1>10 DEF IInv, FileInOrder

(***************************************************************************)
(* Records are appended, whole or cut short.                               *)
(***************************************************************************)

\* A file that a write leaves undamaged was so before, and got the whole line.
LEMMA UndamagedWrite ==
  ASSUME NEW old \in Files, HasContent(old),
         NEW line \in Lines, NEW newline \in BOOLEAN,
         NEW new, new = AddLine(old, line, newline), Undamaged(new)
  PROVE  Undamaged(old) /\ newline /\ ~IsMalformed(line)
<1>1. /\ new.newline = newline
      /\ Len(old.lines) \in Nat
      /\ DOMAIN old.lines = 1..Len(old.lines)
      /\ DOMAIN new.lines = 1..Len(new.lines)
      /\ old.newline =>
           /\ Len(new.lines) = Len(old.lines) + 1
           /\ new.lines[Len(old.lines) + 1] = line
           /\ \A i \in 1..Len(old.lines) : new.lines[i] = old.lines[i]
      /\ ~old.newline =>
           /\ Len(new.lines) = Len(old.lines)
           /\ Len(old.lines) > 0
           /\ new.lines[Len(old.lines)] = Malformed
  BY AddLineLines
<1>2. IsMalformed(Malformed)
  BY DEF IsMalformed, Malformed
<1>3. old.newline
  <2> SUFFICES ASSUME ~old.newline PROVE FALSE
    OBVIOUS
  <2>1. Len(old.lines) \in DOMAIN new.lines
    BY <1>1
  <2> QED BY <1>1, <1>2, <2>1 DEF Undamaged
<1>4. /\ Len(old.lines) + 1 \in DOMAIN new.lines
      /\ DOMAIN old.lines \subseteq DOMAIN new.lines
  BY <1>1, <1>3
<1> QED BY <1>1, <1>3, <1>4 DEF Undamaged

LEMMA UndamagedIsWhole ==
  ASSUME NEW old \in Files, HeaderFirst(old), Undamaged(old)
  PROVE  Whole(old)
<1>1. ASSUME HasContent(old) PROVE 1 \in HeaderIndices(old)
  <2>1. 1 \in DOMAIN old.lines
    BY <1>1 DEF Files, HasContent
  <2> QED BY <1>1, <2>1 DEF HeaderFirst, Undamaged, HeaderIndices
<1>2. old.newline = TRUE
  BY DEF Undamaged, Files
<1> QED BY <1>1, <1>2 DEF Whole, Undamaged

LEMMA NewRecordType ==
  ASSUME IInv, pc = "enriching", NEW f \in Functions, f \in todo, NEW ok \in BOOLEAN
  PROVE  /\ NewRecord(f, ok) \in RecordLines
         /\ NewRecord(f, ok) \in BoundedRecords
         /\ NewRecord(f, ok).fn = f
         /\ IsRecord(NewRecord(f, ok)) /\ ~IsHeader(NewRecord(f, ok))
<1>1. RoundOf(records[f]) \in Nat
  <2>1. records[f] \in MaybeRecords
    BY DEF IInv, TypeOK
  <2> QED BY <2>1 DEF MaybeRecords, RoundOf, RecordLines
<1>2. RoundOf(records[f]) < MaxRound
  BY DEF IInv, InRun, Running
<1>3. RoundOf(records[f]) + 1 \in 1..MaxRound /\ RoundOf(records[f]) + 1 \in Nat
  BY <1>1, <1>2, BoundsAssumption
<1> QED BY <1>3 DEF NewRecord, RecordLine, RecordLines, BoundedRecords, IsRecord, IsHeader

\* What holds of the file after an append of any length.
LEMMA AppendHolds ==
  ASSUME IInv, pc = "enriching", NEW f \in Functions, f \in todo, NEW ok \in BOOLEAN,
         NEW line \in {NewRecord(f, ok), Malformed}, NEW newline \in BOOLEAN,
         file' = AddLine(file, line, newline),
         UNCHANGED <<artifact, status>>,
         \/ records' = records
         \/ records' = Unloaded /\ pc' \notin Running
         \/ /\ newline /\ line = NewRecord(f, ok)
            /\ records' = [records EXCEPT ![f] = line]
  PROVE  /\ file' \in Files /\ HasContent(file') /\ HasContent(file)
         /\ \A i \in HeaderIndices(file') : file'.lines[i].cfg = config
         /\ FileInOrder' /\ LossInBudget' /\ Covered' /\ Complete'
<1>1. /\ file \in Files /\ HeaderFirst(file) /\ CompletedLast(file) /\ HasContent(file)
      /\ \A i \in HeaderIndices(file) : file.lines[i].cfg = config
      /\ NoneCompleted(file, f)
      /\ records \in [Functions -> MaybeRecords]
  BY DEF IInv, TypeOK, FileInOrder, InRun, ToDoOpen, Running
<1>2. /\ line \in Lines /\ ~IsHeader(line)
      /\ IsRecord(line) => line = NewRecord(f, ok) /\ line.fn = f
      /\ line = NewRecord(f, ok) => line \in RecordLines /\ line.fn = f
  BY NewRecordType DEF Lines, Malformed, IsHeader, IsRecord
<1>3. /\ HeaderFirst(file') /\ HasContent(file')
      /\ \A i \in HeaderIndices(file') :
           i \in HeaderIndices(file) /\ file'.lines[i] = file.lines[i]
  BY <1>1, <1>2, AddLineHeaderFirst
<1>4. file' \in Files
  BY <1>1, <1>2, AddLineLines
<1>5. CompletedLast(file')
  BY <1>1, <1>2, AddLineCompletedLast
<1>6. Shown' = Shown
  BY DEF Shown
<1>7. LossInBudget'
  <2>1. Cardinality(LostIn(file, Shown, records)) <= Budget(file)
    BY DEF IInv, LossInBudget
  <2>2. \A h \in Functions :
          \/ records'[h] \in {records[h], NoRecord}
          \/ h = f /\ records'[h] = line /\ newline /\ line \in RecordLines /\ line.fn = f
    <3>1. CASE records' = records
      BY <3>1
    <3>2. CASE records' = Unloaded
      BY <3>2 DEF Unloaded
    <3>3. CASE newline /\ line = NewRecord(f, ok) /\ records' = [records EXCEPT ![f] = line]
      BY <1>1, <1>2, <3>3
    <3> QED BY <3>1, <3>2, <3>3
  <2>3. Cardinality(LostIn(file', Shown, records')) <= Budget(file')
    BY <1>1, <1>2, <2>1, <2>2, AddLineLost
  <2> QED BY <1>6, <2>3 DEF LossInBudget
<1>8. Covered'
  <2> SUFFICES ASSUME status = "enrichment_passed" PROVE Covered'
    BY DEF Covered
  <2>1. pc \in Running
    BY DEF Running
  <2>2. /\ artifact # NoArtifact
        /\ Cardinality(MissingIn(file, Shown, records, TRUE)) <= Budget(file)
    <3>1. MissingIn(file, Shown, records, pc \in Running) = MissingIn(file, Shown, records, TRUE)
      BY <2>1 DEF MissingIn
    <3> QED BY <3>1 DEF IInv, Covered
  <2>3. pc' \in Running => \A h \in Functions : records'[h] = NoRecord => records[h] = NoRecord
    <3>1. CASE records' = records
      BY <3>1
    <3>2. CASE newline /\ line = NewRecord(f, ok) /\ records' = [records EXCEPT ![f] = line]
      <4>1. line # NoRecord
        BY <1>2, <3>2, NoRecordIsNone
      <4> QED BY <1>1, <3>2, <4>1
    <3> QED BY <3>1, <3>2
  <2>4. (pc' \in Running) \in BOOLEAN
    OBVIOUS
  <2> DEFINE running2 == pc' \in Running
  <2>5. Cardinality(MissingIn(file', Shown, records', running2)) <= Budget(file')
    <3> HIDE DEF running2
    <3>1. running2 \in BOOLEAN
      BY DEF running2
    <3>2. running2 => \A h \in Functions : records'[h] = NoRecord => records[h] = NoRecord
      BY <2>3 DEF running2
    <3> QED BY <1>1, <1>2, <2>2, <3>1, <3>2, AddLineMissing
  <2> QED BY <1>6, <2>2, <2>5 DEF Covered
<1>9. Complete'
  BY DEF IInv, Complete, Shows
<1> QED BY <1>1, <1>3, <1>4, <1>5, <1>7, <1>8, <1>9 DEF FileInOrder

\* What a load finds after a whole append to an undamaged file is what the
\* session has.
LEMMA AppendLoads ==
  ASSUME IInv, pc = "enriching", NEW f \in Functions, f \in todo, NEW ok \in BOOLEAN,
         file' = AddLine(file, NewRecord(f, ok), TRUE), Undamaged(file')
  PROVE  /\ Undamaged(file) /\ records = LoadedRecords(file)
         /\ HasContent(file) /\ HasContent(file')
         /\ LoadedHeader(file') = LoadedHeader(file)
         /\ LoadedRecords(file') = [records EXCEPT ![f] = NewRecord(f, ok)]
<1>1. file \in Files /\ HeaderFirst(file) /\ HasContent(file)
  BY DEF IInv, TypeOK, FileInOrder, InRun, Running
<1>2. NewRecord(f, ok) \in RecordLines /\ NewRecord(f, ok).fn = f
  BY NewRecordType
<1>3. NewRecord(f, ok) \in Lines
  BY <1>2 DEF Lines
<1>4. Undamaged(file)
  BY <1>1, <1>3, UndamagedWrite
<1>5. records = LoadedRecords(file)
  BY <1>4 DEF IInv, MemoryIsFile, Appending
<1>6. Whole(file)
  BY <1>1, <1>4, UndamagedIsWhole
<1>7. /\ HasContent(file') /\ LoadedHeader(file') = LoadedHeader(file)
      /\ LoadedRecords(file') = [LoadedRecords(file) EXCEPT ![f] = NewRecord(f, ok)]
  BY <1>1, <1>2, <1>6, AddRecordLoads
<1> QED BY <1>1, <1>4, <1>5, <1>7

LEMMA EnrichStep ==
  ASSUME IInv, NEW f \in Functions, NEW ok \in BOOLEAN, Enrich(f, ok)
  PROVE  IInv'
<1>1. /\ pc = "enriching" /\ f \in todo
      /\ file' = AddLine(file, NewRecord(f, ok), TRUE)
      /\ records' = [records EXCEPT ![f] = NewRecord(f, ok)]
      /\ todo' = todo \ {f} /\ index' = index + 1
      /\ pc' \in {"enriching", "periodic"}
      /\ UNCHANGED <<gates, smoke, artifact, status, kernel, config, loaded>>
  BY DEF Enrich, IsNext
<1>2. /\ file' \in Files /\ HasContent(file') /\ HasContent(file)
      /\ \A i \in HeaderIndices(file') : file'.lines[i].cfg = config
      /\ FileInOrder' /\ LossInBudget' /\ Covered' /\ Complete'
  <2>1. NewRecord(f, ok) \in {NewRecord(f, ok), Malformed} /\ TRUE \in BOOLEAN
    OBVIOUS
  <2> QED BY <1>1, <2>1, AppendHolds
<1>3. /\ NewRecord(f, ok) \in RecordLines /\ NewRecord(f, ok) # NoRecord
      /\ NewRecord(f, ok).fn = f /\ IsRecord(NewRecord(f, ok))
  BY <1>1, NewRecordType, NoRecordIsNone
<1>4. /\ records \in [Functions -> MaybeRecords] /\ todo \subseteq Functions
      /\ file \in Files
  BY DEF IInv, TypeOK
<1>5. /\ records' \in [Functions -> MaybeRecords]
      /\ records'[f] = NewRecord(f, ok)
      /\ \A g \in Functions : g # f => records'[g] = records[g]
  BY <1>1, <1>3, <1>4 DEF MaybeRecords
<1>6. /\ index' + Cardinality(todo') <= Cardinality(Functions)
      /\ index' \in 0..Cardinality(Functions)
  <2>1. /\ IsFiniteSet(todo) /\ Cardinality(todo) \in Nat
        /\ Cardinality(todo \ {f}) \in Nat /\ Cardinality(Functions) \in Nat
        /\ Cardinality(todo \ {f}) = Cardinality(todo) - 1
    BY <1>1, <1>4, FunctionsAssumption, FS_Subset, FS_CardinalityType, FS_RemoveElement
  <2>2. index + Cardinality(todo) <= Cardinality(Functions) /\ index \in 0..Cardinality(Functions)
    BY <1>1 DEF IInv, TypeOK, InRun, Running
  <2> QED BY <1>1, <2>1, <2>2
<1>7. pc' \in Running /\ pc' # "settling"
  BY <1>1 DEF Running
<1>8. TypeOK'
  BY <1>1, <1>2, <1>4, <1>5, <1>6, <1>7 DEF IInv, TypeOK
<1>9. OutOfRun'
  BY <1>1, <1>7 DEF IInv, OutOfRun
<1>10. InRun'
  <2>1. /\ GatesPassed
        /\ \A g \in todo : RoundOf(records[g]) < MaxRound
        /\ \A g \in Functions \ todo : records[g] # NoRecord
    BY <1>1 DEF IInv, InRun, Running
  <2>2. GatesPassed'
    BY <1>1, <2>1 DEF GatesPassed
  <2>3. \A g \in todo' : RoundOf(records'[g]) < MaxRound
    BY <1>1, <1>4, <1>5, <2>1
  <2>4. \A g \in Functions \ todo' : records'[g] # NoRecord
    BY <1>1, <1>3, <1>4, <1>5, <2>1
  <2> QED BY <1>1, <1>2, <1>6, <2>2, <2>3, <2>4 DEF InRun
<1>11. ToDoOpen'
  <2>1. ASSUME NEW g \in todo' PROVE NoneCompleted(file', g)
    <3>1. g \in Functions /\ g # f /\ NoneCompleted(file, g)
      BY <1>1, <1>4, <2>1 DEF IInv, ToDoOpen
    <3>2. /\ RecordIndices(file', g) \subseteq RecordIndices(file, g)
          /\ \A i \in RecordIndices(file', g) : file'.lines[i] = file.lines[i]
      <4>1. NewRecord(f, ok) \in Lines
        BY <1>3 DEF Lines
      <4>2. IsRecord(NewRecord(f, ok)) => NewRecord(f, ok).fn # g
        BY <1>3, <3>1
      <4>3. HasContent(file) \/ file.newline
        BY <1>2
      <4>4. PICK newline \in BOOLEAN : file' = AddLine(file, NewRecord(f, ok), newline)
        BY <1>1
      <4> QED BY <1>4, <3>1, <4>1, <4>2, <4>3, <4>4, AddLineOthers
    <3> QED BY <3>1, <3>2 DEF NoneCompleted
  <2> QED BY <2>1 DEF ToDoOpen
<1>12. Settling'
  BY <1>7 DEF Settling
<1>13. MemoryIsFile'
  BY <1>1, AppendLoads DEF MemoryIsFile
<1> QED BY <1>2, <1>8, <1>9, <1>10, <1>11, <1>12, <1>13 DEF IInv

LEMMA AppendCutShortStep ==
  ASSUME IInv, NEW f \in Functions, NEW ok \in BOOLEAN, NEW outcome \in Outcomes,
         AppendCutShort(f, ok, outcome)
  PROVE  IInv'
<1>1. /\ pc = "enriching" /\ f \in todo
      /\ file' = TornWrite(file, NewRecord(f, ok), outcome)
      /\ \/ pc' = "aborting" /\ UNCHANGED <<kernel, config, loaded, full>>
         \/ Dies
      /\ UNCHANGED <<gates, smoke, artifact, status>>
  BY DEF AppendCutShort, IsNext
<1>2. pc \in Running /\ pc' # "settling" /\ ~Appending'
  BY <1>1 DEF Running, Dies, Appending
<1>3. \/ pc' = "aborting" /\ records' = records
      \/ records' = Unloaded /\ pc' \notin Running
  BY <1>1 DEF Dies, LeaveFull, full, Running
<1>4. /\ file \in Files /\ HasContent(file)
      /\ \A i \in HeaderIndices(file) : file.lines[i].cfg = config
      /\ GatesPassed
  BY <1>2 DEF IInv, TypeOK, InRun
<1>5. /\ file' \in Files /\ HasContent(file')
      /\ \A i \in HeaderIndices(file') : file'.lines[i].cfg = config
      /\ FileInOrder' /\ LossInBudget' /\ Covered' /\ Complete'
  <2>1. CASE outcome = "nothing"
    <3>1. file' = file
      BY <1>1, <2>1 DEF TornWrite
    <3>2. pc' \in Running => pc \in Running /\ UNCHANGED records
      BY <1>2, <1>3
    <3>3. FileInOrder' /\ LossInBudget' /\ Covered' /\ Complete'
      BY <1>1, <1>3, <3>1, <3>2, FileKept
    <3> QED BY <1>4, <3>1, <3>3
  <2>2. CASE outcome # "nothing"
    <3>1. PICK line \in {NewRecord(f, ok), Malformed}, newline \in BOOLEAN :
            file' = AddLine(file, line, newline)
      BY <1>1, <2>2 DEF TornWrite
    <3>2. \/ records' = records
          \/ records' = Unloaded /\ pc' \notin Running
      BY <1>3
    <3> QED BY <1>1, <3>1, <3>2, AppendHolds
  <2> QED BY <2>1, <2>2
<1>6. CASE pc' = "aborting" /\ UNCHANGED <<kernel, config, loaded, full>>
  <2>1. pc' \in Running /\ UNCHANGED <<records, todo, index>>
    BY <1>6 DEF Running, full
  <2>2. TypeOK' /\ OutOfRun'
    BY <1>1, <1>2, <1>5, <1>6, <2>1 DEF IInv, TypeOK, OutOfRun
  <2>3. InRun'
    <3>1. GatesPassed'
      BY <1>1, <1>4, <1>6 DEF GatesPassed
    <3> QED BY <1>2, <1>5, <1>6, <2>1, <3>1 DEF IInv, InRun
  <2>4. ToDoOpen' /\ Settling' /\ MemoryIsFile'
    BY <1>2, <1>6 DEF ToDoOpen, Settling, MemoryIsFile
  <2> QED BY <1>5, <2>2, <2>3, <2>4 DEF IInv
<1>7. CASE Dies
  <2>1. /\ kernel' \in 1..MaxKernels /\ kernel' \in 0..MaxKernels
        /\ pc' \in {"dead", "idle"} /\ config' \in Configs /\ loaded' \in BOOLEAN
        /\ records' = Unloaded /\ records' \in [Functions -> MaybeRecords]
        /\ todo' \subseteq Functions /\ index' \in 0..Cardinality(Functions)
    BY <1>1, <1>7, LeftType
  <2>2. TypeOK' /\ OutOfRun'
    BY <1>1, <1>5, <2>1 DEF IInv, TypeOK, OutOfRun
  <2>3. InRun' /\ ToDoOpen' /\ Settling' /\ MemoryIsFile'
    BY <2>1, IdleHolds DEF Running
  <2> QED BY <1>5, <2>2, <2>3 DEF IInv
<1> QED BY <1>1, <1>6, <1>7

(***************************************************************************)
(* The artifact is written from the checkpoint.                            *)
(***************************************************************************)
LEMMA MaterializeStep ==
  ASSUME IInv, MaterializePeriodic \/ MaterializeFinal \/ MaterializeAborted
  PROVE  IInv'
<1>1. PICK partial \in BOOLEAN :
        /\ artifact' = [records |-> records, partial |-> partial]
        /\ pc' = "settling" => todo = {}
        /\ ~partial => todo = {}
  BY DEF MaterializePeriodic, MaterializeFinal, MaterializeAborted, Materialize
<1>2. UNCHANGED <<gates, smoke, file, records, status, kernel, config, loaded, todo, index>>
  BY DEF MaterializePeriodic, MaterializeFinal, MaterializeAborted, full
<1>3. /\ pc \in Running /\ pc' \in Running
      /\ pc' \in {"enriching", "periodic"} => pc \in {"enriching", "periodic"}
      /\ Appending' => Appending
  BY DEF MaterializePeriodic, MaterializeFinal, MaterializeAborted, Running, Appending
<1>4. /\ artifact' \in [records: [Functions -> MaybeRecords], partial: BOOLEAN]
      /\ artifact' # NoArtifact
      /\ artifact'.records = records /\ artifact'.partial = partial
      /\ Shown' = records
  <2>1. artifact' \in [records: [Functions -> MaybeRecords], partial: BOOLEAN]
    BY <1>1 DEF IInv, TypeOK
  <2>2. artifact' # NoArtifact
    BY <2>1, SentinelsAssumption
  <2>3. artifact'.records = records /\ artifact'.partial = partial
    BY <1>1
  <2> QED BY <2>1, <2>2, <2>3 DEF Shown
<1>5. TypeOK' /\ OutOfRun'
  <2>1. kernel \in 1..MaxKernels /\ pc' # "dead"
    BY <1>3 DEF IInv, OutOfRun, Running
  <2>2. TypeOK'
    BY <1>2, <1>3, <1>4 DEF IInv, TypeOK
  <2> QED BY <1>2, <1>3, <2>1, <2>2 DEF OutOfRun
<1>6. InRun'
  <2>1. GatesPassed'
    BY <1>2, <1>3 DEF IInv, InRun, GatesPassed
  <2> QED BY <1>2, <1>3, <2>1 DEF IInv, InRun
<1>7. ToDoOpen' /\ MemoryIsFile'
  BY <1>2, <1>3 DEF IInv, ToDoOpen, MemoryIsFile
<1>8. ASSUME todo = {} PROVE \A f \in Functions : records[f] # NoRecord
  BY <1>3, <1>8 DEF IInv, InRun
<1>9. Settling' /\ Complete'
  BY <1>1, <1>4, <1>8 DEF Settling, Complete, Shows
<1>10. FileInOrder' /\ file \in Files
  BY <1>2 DEF IInv, FileInOrder, TypeOK
<1>11. LossInBudget'
  <2> DEFINE S == LostIn(file, Shown, records)
             T == LostIn(file, records, records)
  <2>1. T \subseteq S
    BY DEF LostIn
  <2>2. Cardinality(T) <= Cardinality(S) /\ Cardinality(T) \in Nat /\ Cardinality(S) \in Nat
    BY <2>1, NoMore DEF LostIn
  <2>3. Cardinality(S) <= Budget(file)
    BY DEF IInv, LossInBudget
  <2> HIDE DEF S, T
  <2>4. Cardinality(T) <= Budget(file)
    BY <1>10, <2>2, <2>3, BudgetType
  <2> QED BY <1>2, <1>4, <2>4 DEF LossInBudget, T
<1>12. Covered'
  <2> SUFFICES ASSUME status = "enrichment_passed" PROVE Covered'
    BY <1>2 DEF Covered
  <2> DEFINE S == MissingIn(file, Shown, records, pc \in Running)
             T == MissingIn(file, records, records, pc' \in Running)
  <2>1. Cardinality(S) <= Budget(file)
    BY DEF IInv, Covered
  <2>2. T \subseteq S
    BY <1>3 DEF MissingIn
  <2>3. Cardinality(T) <= Cardinality(S) /\ Cardinality(T) \in Nat /\ Cardinality(S) \in Nat
    BY <2>2, NoMore DEF MissingIn
  <2> HIDE DEF S, T
  <2>4. Cardinality(T) <= Budget(file)
    BY <1>10, <2>1, <2>3, BudgetType
  <2> QED BY <1>2, <1>4, <2>4 DEF Covered, T
<1> QED BY <1>5, <1>6, <1>7, <1>9, <1>10, <1>11, <1>12 DEF IInv

(***************************************************************************)
(* The loop is left; the status is settled; the kernel dies.               *)
(***************************************************************************)
LEMMA FullRaisesStep == IInv /\ FullRaises => IInv'
<1> SUFFICES ASSUME IInv, FullRaises PROVE IInv'
  OBVIOUS
<1>1. /\ UNCHANGED <<gates, smoke, file, artifact, status, kernel, config, loaded, records,
                     todo, index>>
      /\ pc \in {"enriching", "periodic"} /\ pc' = "aborting"
  BY DEF FullRaises, disk, full
<1>2. pc \in Running /\ pc' \in Running /\ ~Appending'
  BY <1>1 DEF Running, Appending
<1>3. TypeOK' /\ OutOfRun'
  BY <1>1, <1>2 DEF IInv, TypeOK, OutOfRun
<1>4. InRun'
  <2>1. GatesPassed'
    BY <1>1, <1>2 DEF IInv, InRun, GatesPassed
  <2> QED BY <1>1, <1>2, <2>1 DEF IInv, InRun
<1>5. ToDoOpen' /\ Settling' /\ MemoryIsFile'
  BY <1>1, <1>2 DEF ToDoOpen, Settling, MemoryIsFile
<1>6. FileInOrder' /\ LossInBudget' /\ Covered' /\ Complete'
  BY <1>1, <1>2, FileKept
<1> QED BY <1>3, <1>4, <1>5, <1>6 DEF IInv

Leaves == SetIncomplete \/ SettleRaises \/ Kill \/ KillTearingManifest

LEMMA LeavesFrame ==
  Leaves => /\ UNCHANGED <<gates, smoke, file, artifact>>
            /\ status' \in {status, Torn, "enrichment_incomplete"}
            /\ pc # "dead" /\ (CellFails \/ Dies)
            /\ pc' \notin Running /\ records' = Unloaded
BY DEF Leaves, SetIncomplete, SettleRaises, Kill, KillTearingManifest, CellFails, Dies,
       LeaveFull, disk, Running

LEMMA LeavesStep == IInv /\ Leaves => IInv'
<1> SUFFICES ASSUME IInv, Leaves PROVE IInv'
  OBVIOUS
<1>1. /\ UNCHANGED <<gates, smoke, file, artifact>>
      /\ status' \in {status, Torn, "enrichment_incomplete"}
      /\ pc # "dead" /\ (CellFails \/ Dies)
      /\ pc' \notin Running /\ records' = Unloaded
  BY LeavesFrame
<1>2. /\ kernel' \in 1..MaxKernels /\ kernel' \in 0..MaxKernels
      /\ pc' \in {"dead", "idle"} /\ config' \in Configs /\ loaded' \in BOOLEAN
      /\ records' = Unloaded /\ records' \in [Functions -> MaybeRecords]
      /\ todo' \subseteq Functions /\ index' \in 0..Cardinality(Functions)
  BY <1>1, LeftType
<1>3. TypeOK' /\ OutOfRun'
  BY <1>1, <1>2 DEF IInv, TypeOK, OutOfRun, Statuses
<1>4. InRun' /\ ToDoOpen' /\ Settling' /\ MemoryIsFile'
  BY <1>1, IdleHolds
<1>5. FileInOrder' /\ LossInBudget' /\ Covered' /\ Complete'
  BY <1>1, SentinelsAssumption, FileKept
<1> QED BY <1>3, <1>4, <1>5 DEF IInv

\* The run that passes has just shown every function.
LEMMA SetPassedStep == IInv /\ SetPassed => IInv'
<1> SUFFICES ASSUME IInv, SetPassed PROVE IInv'
  OBVIOUS
<1>1. /\ pc = "settling" /\ pc' = "idle" /\ status' = "enrichment_passed"
      /\ records' = Unloaded /\ todo' = {} /\ index' = 0
      /\ UNCHANGED <<gates, smoke, file, artifact, kernel, config, loaded>>
  BY DEF SetPassed, LeaveFull
<1>2. pc \in Running /\ pc' \notin Running
  BY <1>1 DEF Running
<1>3. 0 \in 0..Cardinality(Functions)
  BY FunctionsAssumption, FS_CardinalityType
<1>4. TypeOK' /\ OutOfRun'
  BY <1>1, <1>3, UnloadedType DEF IInv, TypeOK, OutOfRun, Statuses
<1>5. InRun' /\ ToDoOpen' /\ Settling' /\ MemoryIsFile'
  BY <1>2, IdleHolds
<1>6. /\ artifact # NoArtifact /\ \A f \in Functions : Shown[f] # NoRecord
      /\ Shown' = Shown /\ file \in Files
  BY <1>1 DEF IInv, Settling, Shows, Shown, TypeOK
<1>7. FileInOrder' /\ Complete'
  BY <1>1 DEF IInv, FileInOrder, Complete, Shows
<1> DEFINE S  == LostIn(file, Shown, records)
           S2 == LostIn(file, Shown, Unloaded)
           T  == MissingIn(file, Shown, Unloaded, pc' \in Running)
<1>8. S2 \subseteq S
  BY DEF LostIn, Unwritten, Unloaded
<1>9. T \subseteq S
  BY <1>2, <1>6 DEF LostIn, Unwritten, MissingIn
<1>10. /\ Cardinality(S2) <= Cardinality(S) /\ Cardinality(T) <= Cardinality(S)
       /\ Cardinality(S) \in Nat /\ Cardinality(S2) \in Nat /\ Cardinality(T) \in Nat
  BY <1>8, <1>9, NoMore DEF LostIn, MissingIn
<1>11. Cardinality(S) <= Budget(file)
  BY DEF IInv, LossInBudget
<1> HIDE DEF S, S2, T
<1>12. Cardinality(S2) <= Budget(file) /\ Cardinality(T) <= Budget(file)
  BY <1>6, <1>10, <1>11, BudgetType
<1>13. LossInBudget'
  BY <1>1, <1>6, <1>12 DEF LossInBudget, S2
<1>14. Covered'
  BY <1>1, <1>6, <1>12 DEF Covered, T
<1> QED BY <1>4, <1>5, <1>7, <1>13, <1>14 DEF IInv

LEMMA StutterStep == IInv /\ UNCHANGED vars => IInv'
<1> SUFFICES ASSUME IInv, UNCHANGED vars PROVE IInv'
  OBVIOUS
<1>1. UNCHANGED <<gates, smoke, file, artifact, status, kernel, pc, config, loaded, records,
                  todo, index>>
  BY DEF vars
<1>2. TypeOK' /\ OutOfRun'
  BY <1>1 DEF IInv, TypeOK, OutOfRun
<1>3. InRun' /\ ToDoOpen' /\ Settling' /\ MemoryIsFile'
  BY <1>1 DEF IInv, InRun, ToDoOpen, Settling, MemoryIsFile, GatesPassed, Shows, Appending
<1>4. FileInOrder' /\ LossInBudget' /\ Covered' /\ Complete'
  BY <1>1, FileKept
<1> QED BY <1>2, <1>3, <1>4 DEF IInv

\* The kinds of step there are.
LEMMA NextCases ==
  Next => \/ Outside
          \/ CreateFull
          \/ ResumeFull
          \/ \E f \in Functions, ok \in BOOLEAN : Enrich(f, ok)
          \/ FullRaises
          \/ MaterializePeriodic \/ MaterializeFinal \/ MaterializeAborted
          \/ SetPassed
          \/ Leaves
          \/ \E outcome \in Outcomes :
               \/ CreateCutShort(outcome)
               \/ \E f \in Functions, ok \in BOOLEAN : AppendCutShort(f, ok, outcome)
BY DEF Next, FullStep, Outside, Leaves

LEMMA StepIInv == IInv /\ [Next]_vars => IInv'
BY NextCases, OutsideStep, CreateFullStep, ResumeFullStep, EnrichStep, FullRaisesStep,
   MaterializeStep, SetPassedStep, LeavesStep, CreateCutShortStep, AppendCutShortStep,
   StutterStep

LEMMA AlwaysIInv == Spec => []IInv
BY InitIInv, StepIInv, PTL DEF Spec

(***************************************************************************)
(* The theorems.                                                           *)
(***************************************************************************)

\* A part of what the budget covers is at most two for each malformed line.
LEMMA InBudget ==
  ASSUME IInv, NEW S \in SUBSET Functions, Cardinality(S) <= Budget(file),
         NEW T, T \subseteq S
  PROVE  Cardinality(T) <= 2 * Cardinality(MalformedLines)
<1>1. Cardinality(T) <= Cardinality(S) /\ Cardinality(T) \in Nat /\ Cardinality(S) \in Nat
  BY NoMore
<1>2. /\ Cardinality(Malformations(file)) \in Nat /\ Budget(file) \in Int
      /\ Budget(file) <= 2 * Cardinality(Malformations(file))
  BY BudgetType DEF IInv, TypeOK
<1>3. MalformedLines = Malformations(file)
  BY DEF MalformedLines, Malformations
<1> QED BY <1>1, <1>2, <1>3

\* run_full_enrichment, Checkpoint and materialize: wherever writes are torn,
\* the artifact is ahead of the checkpoint in two functions at most for each
\* line that has become unreadable, and a complete one shows every function.
THEOREM ArtifactAlwaysBehind == Spec => [](TypeOK /\ ArtifactBehindCheckpoint)
<1>1. IInv => TypeOK /\ ArtifactBehindCheckpoint
  <2> SUFFICES ASSUME IInv PROVE ArtifactBehindCheckpoint
    BY DEF IInv
  <2>1. Ahead \subseteq LostIn(file, Shown, records)
    BY DEF Ahead, Shows, LostIn, Unwritten, Shown
  <2>2. Cardinality(Ahead) <= 2 * Cardinality(MalformedLines)
    <3>1. /\ LostIn(file, Shown, records) \in SUBSET Functions
          /\ Cardinality(LostIn(file, Shown, records)) <= Budget(file)
      BY DEF LostIn, IInv, LossInBudget
    <3> QED BY <2>1, <3>1, InBudget
  <2> QED BY <2>2 DEF IInv, Complete, ArtifactBehindCheckpoint
<1> QED BY AlwaysIInv, <1>1, PTL

\* set_model_status: a model that has passed has an artifact with every
\* function but those that torn writes took away afterwards, two for each line
\* that has become unreadable.
THEOREM PassedAlwaysCovered == Spec => []PassedMeansCovered
<1>1. IInv => PassedMeansCovered
  <2> SUFFICES ASSUME IInv, status = "enrichment_passed"
               PROVE  /\ artifact # NoArtifact
                      /\ Cardinality({f \in Functions : ~Shows(f)})
                           <= 2 * Cardinality(MalformedLines)
    BY DEF PassedMeansCovered
  <2> DEFINE S == MissingIn(file, Shown, records, pc \in Running)
  <2>1. artifact # NoArtifact /\ Cardinality(S) <= Budget(file)
    BY DEF IInv, Covered
  <2>2. {f \in Functions : ~Shows(f)} \subseteq S
    BY <2>1 DEF Shows, Shown, MissingIn
  <2>3. S \in SUBSET Functions
    BY DEF MissingIn
  <2> HIDE DEF S
  <2>4. Cardinality({f \in Functions : ~Shows(f)}) <= 2 * Cardinality(MalformedLines)
    BY <2>1, <2>2, <2>3, InBudget
  <2> QED BY <2>1, <2>4
<1> QED BY AlwaysIInv, <1>1, PTL

\* The steps that write the checkpoint.
LEMMA FileChanges ==
  ASSUME IInv, Next, file' # file
  PROVE  \/ ~HasContent(file) /\ GatesPassed
         \/ \E f \in Functions, ok \in BOOLEAN, newline \in BOOLEAN :
              \E line \in {NewRecord(f, ok), Malformed} :
                 /\ pc = "enriching" /\ f \in todo
                 /\ file' = AddLine(file, line, newline)
<1>1. CASE CreateFull \/ \E outcome \in Outcomes : CreateCutShort(outcome)
  BY <1>1 DEF CreateFull, CreateCutShort, Begins
<1>2. CASE \E f \in Functions, ok \in BOOLEAN : Enrich(f, ok)
  <2>1. PICK f \in Functions, ok \in BOOLEAN : Enrich(f, ok)
    BY <1>2
  <2>2. pc = "enriching" /\ f \in todo /\ file' = AddLine(file, NewRecord(f, ok), TRUE)
    BY <2>1 DEF Enrich, IsNext
  <2> QED BY <2>2
<1>3. CASE \E outcome \in Outcomes, f \in Functions, ok \in BOOLEAN :
             AppendCutShort(f, ok, outcome)
  <2>1. PICK outcome \in Outcomes, f \in Functions, ok \in BOOLEAN :
               AppendCutShort(f, ok, outcome)
    BY <1>3
  <2>2. pc = "enriching" /\ f \in todo /\ file' = TornWrite(file, NewRecord(f, ok), outcome)
    BY <2>1 DEF AppendCutShort, IsNext
  <2>3. PICK line \in {NewRecord(f, ok), Malformed}, newline \in BOOLEAN :
          file' = AddLine(file, line, newline)
    BY <2>2 DEF TornWrite
  <2> QED BY <2>2, <2>3
<1>4. /\ ~Outside /\ ~ResumeFull /\ ~FullRaises /\ ~SetPassed /\ ~Leaves
      /\ ~MaterializePeriodic /\ ~MaterializeFinal /\ ~MaterializeAborted
  BY OutsideFrame, LeavesFrame
     DEF ResumeFull, FullRaises, MaterializePeriodic, MaterializeFinal,
         MaterializeAborted, SetPassed, disk
<1> QED BY <1>1, <1>2, <1>3, <1>4, NextCases

\* require_all_gates_passed: nothing is written to the checkpoint without every
\* gate passed under its settings, and gate 1 in this very kernel.
THEOREM RecordsAlwaysGated == Spec => RecordsAreGated
<1> DEFINE Gated ==
      /\ gates # Torn
      /\ \A g \in Gates : gates[g] # NoGate /\ gates[g].passed /\ gates[g].cfg = config
      /\ gates["gate1"].kernel = kernel
      /\ \A i \in HeaderIndices(file) : file.lines[i].cfg = config
<1>1. IInv /\ [Next]_vars => [file' # file => Gated]_vars
  <2> SUFFICES ASSUME IInv, Next, file' # file PROVE Gated
    BY DEF vars
  <2>1. CASE ~HasContent(file) /\ GatesPassed
    <3>1. HeaderIndices(file) = {}
      BY <2>1, NoContentHolds DEF IInv, TypeOK
    <3> QED BY <2>1, <3>1 DEF GatesPassed
  <2>2. CASE pc = "enriching"
    BY <2>2 DEF IInv, InRun, GatesPassed, Running
  <2> QED BY <2>1, <2>2, FileChanges
<1> QED BY <1>1, InitIInv, StepIInv, PTL DEF Spec, RecordsAreGated

\* A resumed run leaves completed functions alone; what it can still lose of
\* them is the one record whose line was cut short before its newline.
THEOREM CompletedAlwaysStays == Spec => CompletedStays
<1>1. IInv /\ [Next]_vars =>
        [file' # file =>
           \A f \in Functions :
             LET record == LoadedRecords(file)[f]
             IN IsCompleted(record) =>
                  \/ LoadedRecords(file')[f] = record
                  \/ ~file.newline /\ file.lines[Len(file.lines)] = record]_vars
  <2> SUFFICES ASSUME IInv, Next, file' # file,
                      NEW f \in Functions, IsCompleted(LoadedRecords(file)[f])
               PROVE  \/ LoadedRecords(file')[f] = LoadedRecords(file)[f]
                      \/ /\ ~file.newline
                         /\ file.lines[Len(file.lines)] = LoadedRecords(file)[f]
    BY DEF vars
  <2>1. file \in Files
    BY DEF IInv, TypeOK
  <2>2. ASSUME ~HasContent(file) PROVE FALSE
    <3>1. LoadedRecords(file)[f] = NoRecord
      BY <2>1, <2>2, NoContentHolds DEF LoadedRecords
    <3> QED BY <3>1 DEF IsCompleted
  <2>3. PICK g \in Functions, ok \in BOOLEAN, newline \in BOOLEAN :
          \E line \in {NewRecord(g, ok), Malformed} :
             /\ pc = "enriching" /\ g \in todo
             /\ file' = AddLine(file, line, newline)
    BY <2>2, FileChanges
  <2>4. PICK line \in {NewRecord(g, ok), Malformed} :
             /\ pc = "enriching" /\ g \in todo
             /\ file' = AddLine(file, line, newline)
    BY <2>3
  <2>5. /\ NewRecord(g, ok) \in RecordLines /\ NewRecord(g, ok).fn = g
        /\ NoneCompleted(file, g)
    BY <2>4, NewRecordType DEF IInv, ToDoOpen
  <2>6. line \in Lines /\ (IsRecord(line) => NoneCompleted(file, line.fn))
    BY <2>5 DEF Lines, IsRecord, Malformed
  <2> QED BY <2>1, <2>2, <2>4, <2>6, AddLineKeepsCompleted
<1> QED BY <1>1, InitIInv, StepIInv, PTL DEF Spec, CompletedStays

(***************************************************************************)
(* The checkpoint is used as a durable map: every step of the run is a     *)
(* step of the map, or leaves it as it is, while the file is undamaged.    *)
(***************************************************************************)

\* The file stays, and who has it open.
LEMMA MapKept ==
  ASSUME UNCHANGED file, Appending' = Appending, Appending => UNCHANGED records
  PROVE  UNCHANGED Map!vars
BY DEF Map!vars

\* The file stays, and the session is over.
LEMMA MapCloses ==
  ASSUME UNCHANGED file, Appending, ~Appending'
  PROVE  Map!Next
<1>1. Map!Close
  BY DEF Map!Close, Map!Nothing, Unloaded
<1> QED BY <1>1 DEF Map!Next

LEMMA CreateFullOpens == IInv /\ CreateFull => Map!Next
<1> SUFFICES ASSUME IInv, CreateFull PROVE Map!Next
  OBVIOUS
<1>1. config \in Configs /\ file \in Files
  BY DEF IInv, TypeOK
<1>2. /\ ~HasContent(file) /\ file' = AddLine(EmptyFile, HeaderLine(config), TRUE)
      /\ records' = Unloaded /\ pc = "idle" /\ pc' = "enriching"
  BY DEF CreateFull, Begins
<1>3. LoadedRecords(file) = Unloaded
  BY <1>1, <1>2, NoContentLoads DEF Unloaded
<1>4. /\ HasContent(file') /\ LoadedHeader(file') = config
      /\ LoadedRecords(file') = Unloaded
  BY <1>1, <1>2, HeaderOnlyLoads DEF Unloaded
<1>5. ~Appending /\ Appending'
  BY <1>2 DEF Appending
<1>6. Map!Open(config)
  BY <1>2, <1>3, <1>4, <1>5 DEF Map!Open
<1> QED BY <1>1, <1>6 DEF Map!Next

LEMMA ResumeFullOpens == IInv /\ ResumeFull => Map!Next
<1> SUFFICES ASSUME IInv, ResumeFull PROVE Map!Next
  OBVIOUS
<1>1. config \in Configs
  BY DEF IInv, TypeOK
<1>2. /\ HasContent(file) /\ LoadedHeader(file) = config /\ UNCHANGED file
      /\ records' = LoadedRecords(file) /\ pc = "idle" /\ pc' = "enriching"
  BY DEF ResumeFull, Begins
<1>3. ~Appending /\ Appending'
  BY <1>2 DEF Appending
<1>4. Map!Open(config)
  BY <1>2, <1>3 DEF Map!Open
<1> QED BY <1>1, <1>4 DEF Map!Next

LEMMA CreateCutShortCrashes ==
  ASSUME IInv, NEW outcome \in Outcomes, CreateCutShort(outcome), Undamaged(file')
  PROVE  Map!Next
<1>1. config \in Configs /\ file \in Files /\ outcome \in WriteOutcomes
  BY OutcomesAssumption DEF IInv, TypeOK
<1>2. /\ ~HasContent(file)
      /\ file' = TornWrite(EmptyFile, HeaderLine(config), outcome)
      /\ pc = "idle" /\ pc' \in {"idle", "dead"}
  BY DEF CreateCutShort, CellFails, Dies
<1>3. LoadedRecords(file) = Unloaded
  BY <1>1, <1>2, NoContentLoads DEF Unloaded
<1>4. Appending = FALSE /\ Appending' = FALSE
  BY <1>2 DEF Appending
<1>5. /\ LoadedRecords(file') = Unloaded
      /\ HasContent(file') => LoadedHeader(file') = config
  <2>1. CASE outcome = "nothing"
    <3>1. file' = EmptyFile
      BY <1>2, <2>1 DEF TornWrite
    <3> QED BY <3>1, EmptyFileHolds, NoContentLoads DEF Unloaded
  <2>2. CASE outcome = "complete"
    <3>1. file' = AddLine(EmptyFile, HeaderLine(config), TRUE)
      BY <1>2, <2>2 DEF TornWrite
    <3> QED BY <1>1, <3>1, HeaderOnlyLoads DEF Unloaded
  <2>3. CASE outcome \in {"fragment", "unterminated"}
    <3>1. file'.newline = FALSE
      BY <1>2, <2>3 DEF TornWrite, AddLine
    <3> QED BY <3>1 DEF Undamaged
  <2> QED BY <1>1, <2>1, <2>2, <2>3 DEF WriteOutcomes
<1>6. Map!CrashInOpen(config)
  BY <1>2, <1>3, <1>4, <1>5 DEF Map!CrashInOpen
<1> QED BY <1>1, <1>6 DEF Map!Next

LEMMA EnrichPuts ==
  ASSUME IInv, NEW f \in Functions, NEW ok \in BOOLEAN, Enrich(f, ok), Undamaged(file')
  PROVE  Map!Next
<1> DEFINE r == NewRecord(f, ok)
<1>1. /\ pc = "enriching" /\ f \in todo /\ pc' \in {"enriching", "periodic"}
      /\ file' = AddLine(file, r, TRUE)
      /\ records' = [records EXCEPT ![f] = r]
  BY DEF Enrich, IsNext
<1>2. r \in BoundedRecords
  BY <1>1, NewRecordType
<1>3. /\ records = LoadedRecords(file)
      /\ HasContent(file) /\ HasContent(file')
      /\ LoadedHeader(file') = LoadedHeader(file)
      /\ LoadedRecords(file') = [records EXCEPT ![f] = r]
  BY <1>1, AppendLoads
<1>4. Appending /\ Appending'
  BY <1>1 DEF Appending
<1> HIDE DEF r
<1>5. Map!Put(f, r)
  BY <1>1, <1>3, <1>4 DEF Map!Put
<1> QED BY <1>2, <1>5 DEF Map!Next

LEMMA AppendCutShortCrashes ==
  ASSUME IInv, NEW f \in Functions, NEW ok \in BOOLEAN, NEW outcome \in Outcomes,
         AppendCutShort(f, ok, outcome), Undamaged(file')
  PROVE  Map!Next
<1> DEFINE r == NewRecord(f, ok)
<1>1. /\ pc = "enriching" /\ f \in todo
      /\ file' = TornWrite(file, r, outcome)
      /\ outcome \in WriteOutcomes
  BY OutcomesAssumption DEF AppendCutShort, IsNext
<1>2. Appending /\ ~Appending'
  BY <1>1 DEF AppendCutShort, Dies, Appending
<1>3. CASE outcome = "nothing"
  <2>1. UNCHANGED file
    BY <1>1, <1>3 DEF TornWrite
  <2> QED BY <1>2, <2>1, MapCloses
<1>4. CASE outcome = "complete"
  <2>1. file' = AddLine(file, r, TRUE)
    BY <1>1, <1>4 DEF TornWrite
  <2>2. r \in BoundedRecords
    BY <1>1, NewRecordType
  <2>3. /\ records = LoadedRecords(file)
        /\ HasContent(file) /\ HasContent(file')
        /\ LoadedHeader(file') = LoadedHeader(file)
        /\ LoadedRecords(file') = [records EXCEPT ![f] = r]
    BY <1>1, <2>1, AppendLoads
  <2> HIDE DEF r
  <2>4. Map!CrashInPut(f, r)
    BY <1>2, <2>3 DEF Map!CrashInPut, Map!Nothing, Unloaded
  <2> QED BY <2>2, <2>4 DEF Map!Next
<1>5. CASE outcome \in {"fragment", "unterminated"}
  <2>1. file'.newline = FALSE
    BY <1>1, <1>5 DEF TornWrite, AddLine
  <2> QED BY <2>1 DEF Undamaged
<1> QED BY <1>1, <1>3, <1>4, <1>5 DEF WriteOutcomes

\* The steps that leave the file alone.
LEMMA FileLeft ==
  ASSUME \/ Outside \/ FullRaises \/ SetPassed \/ Leaves
         \/ MaterializePeriodic \/ MaterializeFinal \/ MaterializeAborted
  PROVE  UNCHANGED Map!vars \/ Map!Next
<1>1. UNCHANGED file
  BY OutsideFrame, LeavesFrame
     DEF FullRaises, MaterializePeriodic, MaterializeFinal, MaterializeAborted, SetPassed, disk
<1>2. Appending' => Appending /\ UNCHANGED records
  BY OutsideFrame, LeavesFrame
     DEF FullRaises, MaterializePeriodic, MaterializeFinal, MaterializeAborted, SetPassed,
         full, Appending, Running
<1>3. CASE Appending' = Appending
  BY <1>1, <1>2, <1>3, MapKept
<1>4. CASE Appending /\ ~Appending'
  BY <1>1, <1>4, MapCloses
<1> QED BY <1>2, <1>3, <1>4 DEF Appending

\* run_full_enrichment over Checkpoint: while no line of it is damaged, what the
\* kernels do to a model's checkpoint, with their exceptions and kills, is what
\* module DurableMap allows.
THEOREM CheckpointUsedAsMap == Spec => UsesDurableMap
<1>1. Init => Map!Init
  <2>1. ASSUME Init PROVE LoadedRecords(file) = Unloaded /\ ~HasContent(file) /\ ~Appending
    BY <2>1, EmptyFileHolds, NoContentLoads DEF Init, Unloaded, Appending
  <2> QED BY <2>1 DEF Map!Init, Map!Nothing, Unloaded
<1>2. IInv /\ [Next]_vars =>
        [Undamaged(file') => UNCHANGED Map!vars \/ Map!Next]_<<file, records, pc>>
  <2> SUFFICES ASSUME IInv, Next, Undamaged(file') PROVE UNCHANGED Map!vars \/ Map!Next
    BY DEF vars
  <2> QED BY NextCases, FileLeft, CreateFullOpens, ResumeFullOpens, CreateCutShortCrashes,
             EnrichPuts, AppendCutShortCrashes
<1> QED BY <1>1, <1>2, InitIInv, StepIInv, PTL DEF Spec, UsesDurableMap
=============================================================================
