------------------------- MODULE RunDirectoryProofs -------------------------
(***************************************************************************)
(* What restoring and freezing keep, for any contents of base.json and any *)
(* number of kernels, killed anywhere: records stay with their base.json,  *)
(* a frozen benchmark stays what it was, the longest checkpoint survives.  *)
(***************************************************************************)
EXTENDS RunDirectory, TLAPS

\* A log is of one base.json; without a header it has no record.
SoundLog(log) ==
  /\ log \in Logs
  /\ log.about \subseteq {log.header}
  /\ log.header = Missing => log.lines <= 1
  /\ log.lines = 0 => log.header = Missing

SoundDir(d, n) ==
  /\ d \in RunDirs
  /\ SoundLog(d.checkpoint)
  /\ n \in Bases => d.checkpoint.header \in {n, Missing}
  /\ d.frozen \in Stamps => d.queries = d.frozen

SoundRoot(r) ==
  /\ r \in [Names -> RunDirs]
  /\ \A n \in Names : SoundDir(r[n], n)

\* Where a kernel works, and what it has done to the benchmark.
Kernel ==
  /\ stage = "dead" => base = Missing
  /\ stage # "dead" => base \in Bases /\ name \in {Dataset, base} /\ kernel \in 1..MaxKernels
  /\ stage = "gates" => source \in DOMAIN inputs
  /\ stage = "freezing" => Dir.queries = Stamp /\ Dir.frozen \notin Stamps

IInv ==
  /\ TypeOK
  /\ SoundRoot(root)
  /\ \A i \in DOMAIN inputs : SoundRoot(inputs[i])
  /\ Kernel

LEMMA NamesOfBases == Bases \subseteq Names /\ Dataset \in Names /\ Missing \notin Bases
BY SentinelsAssumption DEF Names

LEMMA NoLogIsSound == SoundLog(NoLog) /\ NoLog.header = Missing /\ NoLog.lines = 0
<1>1. NoLog \in Logs
  BY BoundsAssumption DEF NoLog, Logs
<1>2. NoLog.header = Missing /\ NoLog.lines = 0 /\ NoLog.about = {}
  BY DEF NoLog
<1> QED BY <1>1, <1>2 DEF SoundLog

LEMMA EmptyIsSound == SoundRoot(EmptyRoot)
<1>1. NoLog \in Logs /\ SoundLog(NoLog)
  BY NoLogIsSound DEF SoundLog
<1>2. EmptyDir \in RunDirs
  BY <1>1 DEF EmptyDir, RunDirs
<1>3. /\ EmptyDir.checkpoint = NoLog /\ EmptyDir.frozen = Missing
      /\ NoLog.header = Missing
  BY DEF EmptyDir, NoLog
<1>4. \A n \in Names : SoundDir(EmptyDir, n)
  BY <1>1, <1>2, <1>3, StampsAssumption DEF SoundDir
<1> QED BY <1>2, <1>4 DEF SoundRoot, EmptyRoot

LEMMA InitIInv == Init => IInv
<1> SUFFICES ASSUME Init PROVE IInv
  OBVIOUS
<1>1. TypeOK
  BY BoundsAssumption, NamesOfBases, EmptyIsSound DEF Init, TypeOK, SoundRoot
<1>2. Kernel
  BY DEF Init, Kernel
<1> QED BY <1>1, <1>2, EmptyIsSound DEF Init, IInv

\* One file of the kernel's run directory is written.
LEMMA WritesOne ==
  ASSUME SoundRoot(root), name \in Names,
         NEW field \in {"base", "manifest", "checkpoint", "gates", "queries", "frozen"},
         NEW value, Writes(field, value)
  PROVE  /\ \A n \in Names \ {name} : root'[n] = root[n]
         /\ root'[name] = [Dir EXCEPT ![field] = value]
         /\ root'[name][field] = value
         /\ \A other \in {"base", "manifest", "checkpoint", "gates", "queries", "frozen"} \ {field} :
              root'[name][other] = Dir[other]
         /\ [Dir EXCEPT ![field] = value] \in RunDirs => root' \in [Names -> RunDirs]
BY DEF Writes, SoundRoot, Dir, RunDirs

\* A sound file makes a sound directory.
LEMMA WritesSound ==
  ASSUME SoundRoot(root), name \in Names,
         NEW field \in {"base", "manifest", "checkpoint", "gates", "queries", "frozen"},
         NEW value, Writes(field, value),
         [Dir EXCEPT ![field] = value] \in RunDirs,
         SoundDir([Dir EXCEPT ![field] = value], name)
  PROVE  SoundRoot(root')
<1>1. root' \in [Names -> RunDirs]
  BY WritesOne
<1>2. \A n \in Names : SoundDir(root'[n], n)
  <2>1. \A n \in Names \ {name} : root'[n] = root[n]
    BY WritesOne
  <2>2. root'[name] = [Dir EXCEPT ![field] = value]
    BY WritesOne
  <2> QED BY <2>1, <2>2 DEF SoundRoot
<1> QED BY <1>1, <1>2 DEF SoundRoot

LEMMA WritesCheckpoint ==
  ASSUME SoundRoot(root), name \in Names, NEW log, Writes("checkpoint", log), SoundLog(log),
         name \in Bases => log.header \in {name, Missing}
  PROVE  SoundRoot(root')
<1> DEFINE d == [Dir EXCEPT !["checkpoint"] = log]
<1>1. Dir \in RunDirs /\ SoundDir(Dir, name)
  BY DEF SoundRoot, Dir
<1>2. d \in RunDirs /\ d.checkpoint = log /\ d.frozen = Dir.frozen /\ d.queries = Dir.queries
  BY <1>1 DEF RunDirs, SoundLog
<1>3. SoundDir(d, name)
  BY <1>1, <1>2 DEF SoundDir
<1> QED BY <1>2, <1>3, WritesSound

LEMMA WritesOther ==
  ASSUME SoundRoot(root), name \in Names, NEW field \in {"base", "manifest", "gates"},
         NEW value, Writes(field, value),
         field = "base" => value \in Bases \cup {Missing, Torn},
         field = "manifest" => value \in {Missing, Torn, "whole"},
         field = "gates" => value \in Stamps \cup {Missing, Torn}
  PROVE  SoundRoot(root')
<1> DEFINE d == [Dir EXCEPT ![field] = value]
<1>1. Dir \in RunDirs /\ SoundDir(Dir, name)
  BY DEF SoundRoot, Dir
<1>2. /\ d \in RunDirs /\ d.checkpoint = Dir.checkpoint
      /\ d.frozen = Dir.frozen /\ d.queries = Dir.queries
  BY <1>1 DEF RunDirs
<1>3. SoundDir(d, name)
  BY <1>1, <1>2 DEF SoundDir
<1> QED BY <1>2, <1>3, WritesSound

LEMMA WritesQueries ==
  ASSUME SoundRoot(root), name \in Names, NEW value \in Stamps \cup {Missing, Torn},
         Writes("queries", value), Dir.frozen \notin Stamps
  PROVE  SoundRoot(root') /\ root'[name].frozen \notin Stamps /\ root'[name].queries = value
<1> DEFINE d == [Dir EXCEPT !["queries"] = value]
<1>1. Dir \in RunDirs /\ SoundDir(Dir, name)
  BY DEF SoundRoot, Dir
<1>2. /\ d \in RunDirs /\ d.checkpoint = Dir.checkpoint /\ d.frozen = Dir.frozen
      /\ d.queries = value
  BY <1>1 DEF RunDirs
<1>3. SoundDir(d, name)
  BY <1>1, <1>2 DEF SoundDir
<1>4. root'[name] = d
  BY WritesOne
<1> QED BY <1>2, <1>3, <1>4, WritesSound

LEMMA WritesFrozen ==
  ASSUME SoundRoot(root), name \in Names, NEW value \in Stamps \cup {Torn},
         Writes("frozen", value), value \in Stamps => Dir.queries = value
  PROVE  SoundRoot(root')
<1> DEFINE d == [Dir EXCEPT !["frozen"] = value]
<1>1. Dir \in RunDirs /\ SoundDir(Dir, name)
  BY DEF SoundRoot, Dir
<1>2. /\ d \in RunDirs /\ d.checkpoint = Dir.checkpoint /\ d.frozen = value
      /\ d.queries = Dir.queries
  BY <1>1 DEF RunDirs
<1>3. SoundDir(d, name)
  BY <1>1, <1>2 DEF SoundDir
<1> QED BY <1>2, <1>3, WritesSound

\* A log whose writing or copying is cut short is sound.
LEMMA PrefixesSound ==
  ASSUME NEW log, SoundLog(log), log.lines >= 1, NEW copy \in Prefixes(log)
  PROVE  SoundLog(copy) /\ copy.header \in {log.header, Missing}
<1>1. /\ log \in Logs /\ log.header \in Bases \cup {Missing} /\ log.lines \in 0..MaxLines
      /\ log.about \in SUBSET Bases /\ log.torn \in BOOLEAN
  BY DEF SoundLog, Logs
<1>2. CASE copy = NoLog
  BY <1>1, <1>2, NoLogIsSound
<1>3. CASE copy = NoHeader
  <2>1. 1 \in 0..MaxLines
    BY <1>1, BoundsAssumption
  <2> QED BY <1>3, <2>1 DEF SoundLog, NoHeader, Logs
<1>4. ASSUME NEW n \in 1..log.lines, NEW t \in BOOLEAN,
             copy = FirstLines(log, n, t)
      PROVE  SoundLog(copy) /\ copy.header \in {log.header, Missing}
  <2>1. /\ copy.lines = n /\ copy.torn = t /\ copy.header = log.header
        /\ copy.about = IF n = 1 THEN {} ELSE log.about
    BY <1>1, <1>4 DEF Logs, FirstLines
  <2>2. n \in 0..MaxLines /\ n >= 1 /\ n <= log.lines
    BY <1>1, BoundsAssumption
  <2>3. copy \in Logs
    BY <1>1, <1>4, <2>2 DEF Logs, FirstLines
  <2>4. copy.about \subseteq {copy.header}
    BY <2>1 DEF SoundLog
  <2>5. copy.header = Missing => copy.lines <= 1
    BY <1>1, <2>1, <2>2, BoundsAssumption DEF SoundLog
  <2> QED BY <2>1, <2>2, <2>3, <2>4, <2>5, BoundsAssumption DEF SoundLog
<1> QED BY <1>2, <1>3, <1>4 DEF Prefixes

\* What a restore reads of an input.
LEMMA FromIsSound ==
  ASSUME IInv, base \in Bases, NEW i \in DOMAIN inputs
  PROVE  /\ SoundLog(From(i).checkpoint) /\ From(i).checkpoint.header \in {base, Missing}
         /\ From(i).gates \in Stamps \cup {Missing, Torn}
<1>1. base \in Names /\ SoundRoot(inputs[i])
  BY NamesOfBases DEF IInv
<1>2. SoundDir(From(i), base)
  BY <1>1 DEF SoundRoot, From
<1> QED BY <1>2 DEF SoundDir, RunDirs

LEMMA HereIsSound ==
  ASSUME IInv
  PROVE  /\ SoundDir(Dir, name) /\ name \in Names
         /\ ~BothExist => Dir.frozen \notin Stamps
<1>1. SoundDir(Dir, name) /\ name \in Names
  BY DEF IInv, SoundRoot, Dir, TypeOK
<1>2. ~BothExist => Dir.frozen \notin Stamps
  BY <1>1, StampsAssumption DEF BothExist, SoundDir
<1> QED BY <1>1, <1>2

-----------------------------------------------------------------------------
(***************************************************************************)
(* The invariant is inductive.                                             *)
(***************************************************************************)

\* A step that writes soundly in the directory of a kernel that goes on or ends.
LEMMA RunningStep ==
  ASSUME IInv, SoundRoot(root'), UNCHANGED <<inputs, kernel>>,
         stage' \in {"dead", "started", "loaded", "ready", "checkpoints", "gates", "restored",
                     "freezing", "frozen"},
         \/ Ends
         \/ /\ stage # "dead" /\ stage' # "dead" /\ UNCHANGED <<base, name>>
            /\ source' \in 0..Len(inputs) /\ todo' \subseteq DOMAIN inputs
            /\ stage' = "gates" => source' \in DOMAIN inputs
            /\ stage' = "freezing" => Dir'.queries = Stamp' /\ Dir'.frozen \notin Stamps
  PROVE  IInv'
<1>1. TypeOK'
  <2>1. root' \in [Names -> RunDirs]
    BY DEF SoundRoot
  <2>2. CASE Ends
    BY <2>1, <2>2, NamesOfBases DEF IInv, TypeOK, Ends
  <2>3. CASE ~Ends
    BY <2>1, <2>3 DEF IInv, TypeOK
  <2> QED BY <2>2, <2>3
<1>2. Kernel'
  <2>1. CASE Ends
    BY <2>1 DEF Ends, Kernel
  <2>2. CASE ~Ends
    BY <2>2 DEF IInv, Kernel
  <2> QED BY <2>1, <2>2
<1>3. \A i \in DOMAIN inputs' : SoundRoot(inputs'[i])
  BY DEF IInv
<1> QED BY <1>1, <1>2, <1>3 DEF IInv

LEMMA StartStep ==
  ASSUME IInv, NEW fresh \in BOOLEAN, NEW b \in Bases, NEW n \in {Dataset, b},
         StartKernel(fresh, b, n)
  PROVE  IInv'
<1>1. /\ base' = b /\ name' = n /\ name' \in Names /\ stage' = "started"
      /\ UNCHANGED <<source, todo>>
      /\ kernel' \in 1..MaxKernels /\ kernel' = kernel + 1
  BY BoundsAssumption, NamesOfBases DEF StartKernel, IInv, TypeOK
<1>2. CASE fresh
  <2>1. inputs' = Append(inputs, root) /\ root' = EmptyRoot
    BY <1>2 DEF StartKernel
  <2>2. /\ inputs \in Seq([Names -> RunDirs]) /\ root \in [Names -> RunDirs]
        /\ Len(inputs) <= kernel /\ kernel \in Nat
    BY BoundsAssumption DEF IInv, TypeOK
  <2>3. /\ inputs' \in Seq([Names -> RunDirs]) /\ Len(inputs') = Len(inputs) + 1
        /\ DOMAIN inputs' = 1..(Len(inputs) + 1)
        /\ \A i \in DOMAIN inputs : inputs'[i] = inputs[i]
        /\ inputs'[Len(inputs) + 1] = root
    BY <2>1, <2>2
  <2>4. \A i \in DOMAIN inputs' : i \in DOMAIN inputs \/ i = Len(inputs) + 1
    BY <2>2, <2>3
  <2>5. \A i \in DOMAIN inputs' : SoundRoot(inputs'[i])
    BY <2>3, <2>4 DEF IInv
  <2>6. SoundRoot(root')
    BY <2>1, EmptyIsSound
  <2>7. source' \in 0..Len(inputs') /\ todo' \subseteq DOMAIN inputs' /\ Len(inputs') <= kernel'
    BY <1>1, <2>2, <2>3 DEF IInv, TypeOK
  <2>8. TypeOK'
    BY <1>1, <2>3, <2>6, <2>7 DEF TypeOK, SoundRoot
  <2> QED BY <1>1, <2>5, <2>6, <2>8 DEF IInv, Kernel
<1>3. CASE ~fresh
  <2>1. UNCHANGED <<inputs, root>>
    BY <1>3 DEF StartKernel
  <2>2. TypeOK'
    BY <1>1, <2>1, BoundsAssumption DEF IInv, TypeOK
  <2> QED BY <1>1, <2>1, <2>2 DEF IInv, Kernel
<1> QED BY <1>2, <1>3

LEMMA RemoveStep ==
  ASSUME IInv, RemoveBase
  PROVE  IInv'
<1> DEFINE d == [root[Dataset] EXCEPT !.base = Missing]
<1>1. Dataset \in Names /\ SoundRoot(root) /\ stage = "dead"
      /\ root' = [root EXCEPT ![Dataset].base = Missing]
  BY NamesOfBases DEF IInv, RemoveBase
<1>2. root[Dataset] \in RunDirs /\ SoundDir(root[Dataset], Dataset)
  BY <1>1 DEF SoundRoot
<1>3. /\ d \in RunDirs /\ d.checkpoint = root[Dataset].checkpoint
      /\ d.frozen = root[Dataset].frozen /\ d.queries = root[Dataset].queries
  BY <1>2 DEF RunDirs
<1>4. SoundDir(d, Dataset)
  BY <1>2, <1>3 DEF SoundDir
<1>5. root' = [root EXCEPT ![Dataset] = d]
  BY <1>1
<1>6. SoundRoot(root')
  BY <1>1, <1>3, <1>4, <1>5 DEF SoundRoot
<1>7. UNCHANGED <<inputs, kernel, base, name, stage, source, todo>>
  BY DEF RemoveBase
<1>8. TypeOK' /\ Kernel'
  BY <1>1, <1>6, <1>7 DEF IInv, TypeOK, Kernel, SoundRoot
<1> QED BY <1>6, <1>7, <1>8 DEF IInv

LEMMA LoadStep ==
  ASSUME IInv, Load \/ StartRestore
  PROVE  IInv'
<1>t. TypeOK /\ SoundRoot(root) /\ name \in Names /\ Kernel
  BY DEF IInv, TypeOK
<1>1. CASE LoadBase
  <2>1. base \in Bases
    BY <1>t, <1>1 DEF LoadBase, Kernel
  <2>2. SoundRoot(root')
    BY <1>t, <1>1, <2>1, WritesOther DEF LoadBase
  <2> QED BY <1>t, <1>1, <2>2, RunningStep DEF LoadBase, TypeOK
<1>2. CASE RefuseBase \/ RefuseManifest
  <2>1. UNCHANGED root /\ Ends
    BY <1>2 DEF RefuseBase, RefuseManifest
  <2> QED BY <1>t, <2>1, RunningStep DEF Ends
<1>3. CASE CreateContext
  <2>1. SoundRoot(root')
    BY <1>t, <1>3, WritesOther DEF CreateContext
  <2> QED BY <1>t, <1>3, <2>1, RunningStep DEF CreateContext, TypeOK
<1>4. CASE StartRestore
  BY <1>t, <1>4, RunningStep DEF StartRestore, TypeOK
<1> QED BY <1>1, <1>2, <1>3, <1>4 DEF Load

LEMMA RestoreStep ==
  ASSUME IInv, RestoreGates \/ \E i \in DOMAIN inputs : RestoreCheckpoint(i)
  PROVE  IInv'
<1>t. TypeOK /\ SoundRoot(root) /\ name \in Names /\ Kernel
  BY DEF IInv, TypeOK
<1>1. ASSUME NEW i \in DOMAIN inputs, RestoreCheckpoint(i) PROVE IInv'
  <2>1. base \in Bases /\ name \in {Dataset, base}
    BY <1>t, <1>1 DEF RestoreCheckpoint, Kernel
  <2>2. SoundLog(From(i).checkpoint) /\ From(i).checkpoint.header \in {base, Missing}
    BY <2>1, FromIsSound
  <2>3. name \in Bases => name = base
    BY <2>1, SentinelsAssumption
  <2>4. SoundRoot(root')
    BY <1>t, <1>1, <2>2, <2>3, WritesCheckpoint DEF RestoreCheckpoint
  <2>5. /\ stage = "checkpoints" /\ stage' = "gates" /\ source' = i /\ todo' = todo \ {i}
        /\ UNCHANGED <<inputs, kernel, base, name>>
    BY <1>1 DEF RestoreCheckpoint
  <2>6. source' \in 0..Len(inputs) /\ source' \in DOMAIN inputs /\ todo' \subseteq DOMAIN inputs
    BY <1>t, <2>5 DEF TypeOK
  <2> QED BY <2>4, <2>5, <2>6, RunningStep
<1>2. CASE RestoreGates
  <2>1. base \in Bases /\ source \in DOMAIN inputs
    BY <1>t, <1>2 DEF RestoreGates, Kernel
  <2>2. From(source).gates \in Stamps \cup {Missing, Torn}
    BY <2>1, FromIsSound
  <2>3. SoundRoot(root')
    BY <1>t, <1>2, <2>2, WritesOther DEF RestoreGates
  <2>4. /\ stage = "gates" /\ stage' \in {"restored", "checkpoints"} /\ source' = 0
        /\ UNCHANGED <<inputs, kernel, base, name, todo>>
    BY <1>2 DEF RestoreGates
  <2>5. source' \in 0..Len(inputs) /\ todo' \subseteq DOMAIN inputs
    BY <1>t, <2>4 DEF TypeOK
  <2> QED BY <2>3, <2>4, <2>5, RunningStep
<1> QED BY <1>1, <1>2

LEMMA StampIsStamp == IInv /\ stage # "dead" => Stamp \in Stamps
BY DEF IInv, Kernel, Stamp, Stamps

LEMMA FreezeStep ==
  ASSUME IInv, Freeze
  PROVE  IInv'
<1>t. TypeOK /\ SoundRoot(root) /\ name \in Names /\ Kernel
  BY DEF IInv, TypeOK
<1>1. CASE FreezeReuse
  <2>1. stage \in {"ready", "restored"} /\ stage' = "frozen"
        /\ UNCHANGED <<root, inputs, kernel, base, name, source, todo>>
    BY <1>1 DEF FreezeReuse, BeforeFreeze
  <2> QED BY <1>t, <2>1, RunningStep DEF TypeOK
<1>2. CASE FreezeRefuse
  <2>1. UNCHANGED root /\ Ends
    BY <1>2 DEF FreezeRefuse
  <2> QED BY <1>t, <2>1, RunningStep DEF Ends
<1>3. CASE FreezeQueries
  <2>1. /\ stage \in {"ready", "restored"} /\ stage' = "freezing" /\ ~BothExist
        /\ Writes("queries", Stamp)
        /\ UNCHANGED <<inputs, kernel, base, name, source, todo>>
    BY <1>3 DEF FreezeQueries, BeforeFreeze
  <2>2. Stamp \in Stamps /\ Stamp' = Stamp
    BY <2>1, StampIsStamp DEF Stamp
  <2>3. /\ SoundRoot(root') /\ root'[name].frozen \notin Stamps
        /\ root'[name].queries = Stamp
    BY <1>t, <2>1, <2>2, HereIsSound, WritesQueries
  <2>4. Dir'.queries = Stamp' /\ Dir'.frozen \notin Stamps
    BY <2>1, <2>2, <2>3 DEF Dir
  <2> QED BY <1>t, <2>1, <2>3, <2>4, RunningStep DEF TypeOK
<1>4. CASE FreezeManifest
  <2>1. /\ stage = "freezing" /\ stage' = "frozen" /\ Writes("frozen", Stamp)
        /\ UNCHANGED <<inputs, kernel, base, name, source, todo>>
    BY <1>4 DEF FreezeManifest
  <2>2. Stamp \in Stamps /\ Dir.queries = Stamp
    BY <1>t, <2>1, StampIsStamp DEF Kernel
  <2>3. SoundRoot(root')
    BY <1>t, <2>1, <2>2, WritesFrozen
  <2> QED BY <1>t, <2>1, <2>3, RunningStep DEF TypeOK
<1> QED BY <1>1, <1>2, <1>3, <1>4 DEF Freeze

\* A record of the kernel's base.json is added, its line break written or not.
\* A log that had a record is as long as before.
LEMMA RecordSound ==
  ASSUME base \in Bases, NEW log, SoundLog(log), Opens(log), NEW new,
         WithRecord(Created(log)).lines <= MaxLines,
         \/ new = WithRecord(Created(log))
         \/ new = [WithRecord(Created(log)) EXCEPT !.torn = TRUE]
  PROVE  /\ SoundLog(new) /\ new.lines >= 1 /\ new.header \in {base, Missing}
         /\ log.lines >= 2 => new.header = base /\ new.lines >= log.lines
<1> DEFINE old == Created(log)
           whole == WithRecord(old)
<1>1. Missing \notin Bases
  BY SentinelsAssumption
<1>2. new = whole \/ new = [whole EXCEPT !.torn = TRUE]
  OBVIOUS
<1>3. /\ old \in [header: {base}, lines: Nat, about: SUBSET {base}, torn: BOOLEAN]
      /\ old.lines >= 1 /\ old.lines >= log.lines
  <2>1. CASE log.lines = 0
    BY <2>1 DEF Created
  <2>2. CASE log.lines # 0
    <3>1. old = log /\ log.header = base
      BY <2>2 DEF Created, Opens
    <3>2. /\ log \in Logs /\ log.lines \in Nat /\ log.torn \in BOOLEAN
          /\ log.about \in SUBSET {base}
      BY <3>1, BoundsAssumption DEF SoundLog, Logs
    <3> QED BY <2>2, <3>1, <3>2 DEF Logs
  <2> QED BY <2>1, <2>2
<1> HIDE DEF old
<1>4. PICK k \in Nat, a \in SUBSET {base}, t \in BOOLEAN :
        old = [header |-> base, lines |-> k, about |-> a, torn |-> t]
  BY <1>3
<1>5. CASE ~old.torn
  <2>1. whole = [header |-> base, lines |-> k + 1, about |-> a \cup {base}, torn |-> t]
    BY <1>5, <1>4 DEF WithRecord
  <2>2. \E u \in BOOLEAN :
          new = [header |-> base, lines |-> k + 1, about |-> a \cup {base}, torn |-> u]
    <3> HIDE DEF whole
    <3>1. CASE new = whole
      BY <2>1, <3>1
    <3>2. CASE new = [whole EXCEPT !.torn = TRUE]
      <4>1. new = [header |-> base, lines |-> k + 1, about |-> a \cup {base}, torn |-> TRUE]
        BY <2>1, <3>2
      <4> QED BY <4>1
    <3> QED BY <1>2, <3>1, <3>2
  <2>3. /\ new \in [header: {base}, lines: Nat, about: SUBSET {base}, torn: BOOLEAN]
        /\ new.lines = old.lines + 1 /\ new.lines <= MaxLines
    BY <1>4, <2>1, <2>2
  <2>4. /\ new.header = base /\ new.lines \in 0..MaxLines /\ new.lines >= 1
        /\ new.about \subseteq {base}
    BY <1>3, <2>3, BoundsAssumption
  <2>5. new \in Logs
    BY <2>3, <2>4 DEF Logs
  <2>6. SoundLog(new)
    BY <1>1, <2>4, <2>5, BoundsAssumption DEF SoundLog
  <2>7. new.lines >= log.lines
    <3>1. log.lines \in Nat
      BY BoundsAssumption DEF SoundLog, Logs
    <3> QED BY <1>3, <2>3, <3>1
  <2> QED BY <2>4, <2>6, <2>7
<1>6. CASE old.torn /\ old.lines = 1
  <2>1. whole = [NoHeader EXCEPT !.torn = FALSE]
    BY <1>6 DEF WithRecord
  <2>2. whole = [header |-> Missing, lines |-> 1, about |-> {}, torn |-> FALSE]
    BY <2>1 DEF NoHeader
  <2>3. \E u \in BOOLEAN :
          new = [header |-> Missing, lines |-> 1, about |-> {}, torn |-> u]
    <3> HIDE DEF whole
    <3>1. CASE new = whole
      BY <2>2, <3>1
    <3>2. CASE new = [whole EXCEPT !.torn = TRUE]
      <4>1. new = [header |-> Missing, lines |-> 1, about |-> {}, torn |-> TRUE]
        BY <2>2, <3>2
      <4> QED BY <4>1
    <3> QED BY <1>2, <3>1, <3>2
  <2>4. /\ new \in [header: {Missing}, lines: {1}, about: {{}}, torn: BOOLEAN]
        /\ 1 <= MaxLines
    BY <2>2, <2>3
  <2>5. new \in Logs
    BY <2>4, BoundsAssumption DEF Logs
  <2>6. SoundLog(new)
    BY <1>1, <2>4, <2>5 DEF SoundLog
  <2>7. ~(log.lines >= 2)
    <3>1. log.lines \in Nat
      BY BoundsAssumption DEF SoundLog, Logs
    <3> QED BY <1>3, <1>6, <3>1
  <2> QED BY <2>4, <2>6, <2>7
<1>7. CASE old.torn /\ old.lines # 1
  <2>1. whole = [old EXCEPT !.torn = FALSE]
    BY <1>7 DEF WithRecord
  <2>2. whole = [header |-> base, lines |-> k, about |-> a, torn |-> FALSE]
    BY <1>4, <2>1
  <2>3. \E u \in BOOLEAN :
          new = [header |-> base, lines |-> k, about |-> a, torn |-> u]
    <3> HIDE DEF whole
    <3>1. CASE new = whole
      BY <2>2, <3>1
    <3>2. CASE new = [whole EXCEPT !.torn = TRUE]
      <4>1. new = [header |-> base, lines |-> k, about |-> a, torn |-> TRUE]
        BY <2>2, <3>2
      <4> QED BY <4>1
    <3> QED BY <1>2, <3>1, <3>2
  <2>4. /\ new \in [header: {base}, lines: Nat, about: SUBSET {base}, torn: BOOLEAN]
        /\ new.lines = old.lines /\ new.lines <= MaxLines
    BY <1>4, <2>2, <2>3
  <2>5. /\ new.header = base /\ new.lines \in 0..MaxLines /\ new.lines >= 1
        /\ new.about \subseteq {base}
    BY <1>3, <2>4, BoundsAssumption
  <2>6. new \in Logs
    BY <2>4, <2>5 DEF Logs
  <2>7. SoundLog(new)
    BY <1>1, <2>5, <2>6, BoundsAssumption DEF SoundLog
  <2> QED BY <1>3, <2>4, <2>5, <2>7
<1> QED BY <1>3, <1>5, <1>6, <1>7

\* What enriching leaves of the checkpoint, finished or killed within.
Worked(log) ==
  LET new == WithRecord(Created(Dir.checkpoint))
  IN \/ log = new
     \/ log = [new EXCEPT !.torn = TRUE]
     \/ Dir.checkpoint.lines = 0 /\ log \in Prefixes(new)

\* The checkpoint grows by a record of the kernel's base.json, or by part of it.
LEMMA WorkWrites ==
  ASSUME IInv, CanEnrich, NEW log, Worked(log), Writes("checkpoint", log)
  PROVE  /\ SoundRoot(root')
         /\ \A n \in Names \ {name} : root'[n] = root[n]
         /\ root'[name].checkpoint = log /\ log.lines \in Nat
         /\ Dir.checkpoint.lines >= 2 => log.header = base /\ log.lines >= Dir.checkpoint.lines
<1> DEFINE new == WithRecord(Created(Dir.checkpoint))
<1>t. TypeOK /\ SoundRoot(root) /\ name \in Names /\ Kernel
  BY DEF IInv, TypeOK
<1>1. /\ stage = "frozen" /\ Opens(Dir.checkpoint) /\ new.lines <= MaxLines
      /\ base \in Bases /\ name \in {Dataset, base}
  BY <1>t DEF CanEnrich, Kernel
<1>2. SoundLog(Dir.checkpoint)
  BY HereIsSound DEF SoundDir
<1>3. /\ SoundLog(new) /\ new.lines >= 1 /\ new.header \in {base, Missing}
  BY <1>1, <1>2, RecordSound
<1>4. /\ SoundLog(log) /\ log.header \in {base, Missing}
      /\ Dir.checkpoint.lines >= 2 => log.header = base /\ log.lines >= Dir.checkpoint.lines
  <2>1. CASE log = new \/ log = [new EXCEPT !.torn = TRUE]
    BY <1>1, <1>2, <2>1, RecordSound
  <2>2. CASE Dir.checkpoint.lines = 0 /\ log \in Prefixes(new)
    <3> HIDE DEF new
    <3> QED BY <1>3, <2>2, PrefixesSound
  <2> QED BY <2>1, <2>2 DEF Worked
<1>5. name \in Bases => log.header \in {name, Missing}
  BY <1>1, <1>4, SentinelsAssumption
<1>6. SoundRoot(root')
  BY <1>t, <1>4, <1>5, WritesCheckpoint
<1>7. root'[name]["checkpoint"] = log /\ \A n \in Names \ {name} : root'[n] = root[n]
  BY <1>t, WritesOne
<1>8. log.lines \in Nat
  BY <1>4, BoundsAssumption DEF SoundLog, Logs
<1> QED BY <1>4, <1>6, <1>7, <1>8

LEMMA EnrichStep ==
  ASSUME IInv, Enrich
  PROVE  IInv'
<1>1. /\ CanEnrich /\ stage = "frozen"
      /\ Writes("checkpoint", WithRecord(Created(Dir.checkpoint)))
      /\ UNCHANGED <<inputs, kernel, base, name, stage, source, todo>>
  BY DEF Enrich, CanEnrich
<1>2. SoundRoot(root')
  BY <1>1, WorkWrites DEF Worked
<1> QED BY <1>1, <1>2, RunningStep DEF IInv, TypeOK

LEMMA GatesStep ==
  ASSUME IInv, RunGates
  PROVE  IInv'
<1>t. TypeOK /\ SoundRoot(root) /\ name \in Names
  BY DEF IInv, TypeOK
<1>1. /\ stage = "frozen" /\ Writes("gates", Stamp)
      /\ UNCHANGED <<inputs, kernel, base, name, stage, source, todo>>
  BY DEF RunGates
<1>2. Stamp \in Stamps
  BY <1>1, StampIsStamp
<1>3. SoundRoot(root')
  BY <1>t, <1>1, <1>2, WritesOther
<1> QED BY <1>t, <1>1, <1>3, RunningStep DEF TypeOK

LEMMA KillStep ==
  ASSUME IInv, Kill
  PROVE  IInv'
<1>t. TypeOK /\ SoundRoot(root) /\ name \in Names /\ Kernel
  BY DEF IInv, TypeOK
<1>1. Ends
  BY DEF Kill, Stop, KillInLoad, KillInCreate, KillInRestore, KillInFreeze, KillInWork
<1>2. SoundRoot(root')
  <2>1. CASE Stop
    BY <1>t, <2>1 DEF Stop
  <2>2. CASE KillInLoad \/ KillInCreate
    BY <1>t, <2>2, WritesOther DEF KillInLoad, KillInCreate
  <2>3. CASE KillInRestore
    <3>1. CASE stage = "gates"
      BY <1>t, <2>3, <3>1, WritesOther DEF KillInRestore
    <3>2. CASE stage # "gates"
      <4>1. PICK i \in todo : /\ Takes(i)
                              /\ \E log \in Prefixes(From(i).checkpoint) : Writes("checkpoint", log)
        BY <2>3, <3>2 DEF KillInRestore
      <4>2. Takes(i)
        BY <4>1
      <4>3. PICK log \in Prefixes(From(i).checkpoint) : Writes("checkpoint", log)
        BY <4>1
      <4>4. i \in DOMAIN inputs /\ base \in Bases /\ name \in {Dataset, base}
        BY <1>t, <2>3, <3>2 DEF TypeOK, KillInRestore, Kernel
      <4>5. SoundLog(log) /\ log.header \in {base, Missing}
        <5>1. SoundLog(From(i).checkpoint) /\ From(i).checkpoint.header \in {base, Missing}
          BY <4>4, FromIsSound
        <5>2. From(i).checkpoint.lines >= 1
          BY <4>2, <5>1, HereIsSound, BoundsAssumption DEF Takes, SoundDir, SoundLog, Logs
        <5> QED BY <4>3, <5>1, <5>2, PrefixesSound
      <4>6. name \in Bases => name = base
        BY <4>4, SentinelsAssumption
      <4> QED BY <1>t, <4>3, <4>5, <4>6, WritesCheckpoint
    <3> QED BY <3>1, <3>2
  <2>4. CASE KillInFreeze
    <3>1. CASE BeforeFreeze /\ ~BothExist /\ Writes("queries", Torn)
      BY <1>t, <3>1, HereIsSound, WritesQueries
    <3>2. CASE stage = "freezing" /\ Writes("frozen", Torn)
      BY <1>t, <3>2, WritesFrozen, StampsAssumption
    <3> QED BY <2>4, <3>1, <3>2 DEF KillInFreeze
  <2>5. CASE KillInWork
    <3>1. CASE Writes("gates", Torn)
      BY <1>t, <3>1, WritesOther
    <3>2. CASE CanEnrich /\ \E log : Worked(log) /\ Writes("checkpoint", log)
      BY <3>2, WorkWrites
    <3> QED BY <2>5, <3>1, <3>2 DEF KillInWork, Worked
  <2> QED BY <2>1, <2>2, <2>3, <2>4, <2>5 DEF Kill
<1> QED BY <1>1, <1>2, RunningStep DEF Ends

LEMMA StepIInv == IInv /\ [Next]_vars => IInv'
<1> SUFFICES ASSUME IInv, [Next]_vars PROVE IInv'
  OBVIOUS
<1>1. CASE UNCHANGED vars
  BY <1>1 DEF vars, IInv, TypeOK, Kernel, Dir, Stamp
<1>2. ASSUME NEW fresh \in BOOLEAN, NEW b \in Bases, NEW n \in {Dataset, b},
             StartKernel(fresh, b, n)
      PROVE  IInv'
  BY <1>2, StartStep
<1> QED BY <1>1, <1>2, RemoveStep, LoadStep, RestoreStep, FreezeStep, EnrichStep, GatesStep,
           KillStep DEF Next, Restore

LEMMA SpecIInv == Spec => []IInv
BY InitIInv, StepIInv, PTL DEF Spec

-----------------------------------------------------------------------------
(***************************************************************************)
(* The theorems.                                                           *)
(***************************************************************************)

\* Every file is one that the code writes, or the start of one.
THEOREM RunDirectoryTypeOK == Spec => []TypeOK
<1>1. IInv => TypeOK
  BY DEF IInv
<1> QED BY SpecIInv, <1>1, PTL

LEMMA RootsAreSound == IInv => \A r \in Roots, n \in Names : SoundDir(r[n], n)
BY DEF IInv, Roots, SoundRoot

\* A checkpoint has records about the base.json of its header only, here and in
\* every attached input.
THEOREM RunDirectoryRecordsOfOneBase == Spec => []RecordsOfOneBase
<1>1. IInv => RecordsOfOneBase
  BY RootsAreSound DEF RecordsOfOneBase, SoundDir, SoundLog
<1> QED BY SpecIInv, <1>1, PTL

\* A benchmark manifest that can be read belongs to the queries beside it.
THEOREM RunDirectoryManifestVouches == Spec => []ManifestVouches
<1>1. IInv => ManifestVouches
  BY RootsAreSound DEF ManifestVouches, SoundDir
<1> QED BY SpecIInv, <1>1, PTL

\* Only freezing writes the benchmark.
LEMMA OthersLeaveFrozen ==
  ASSUME IInv, NEW field \in {"base", "manifest", "checkpoint", "gates"}, NEW value,
         Writes(field, value), NEW n \in Names
  PROVE  root'[n].frozen = root[n].frozen /\ root'[n].queries = root[n].queries
<1>1. SoundRoot(root) /\ name \in Names
  BY DEF IInv, TypeOK
<1>2. n # name => root'[n] = root[n]
  BY <1>1, WritesOne
<1>3. root'[name]["frozen"] = Dir["frozen"] /\ root'[name]["queries"] = Dir["queries"]
  BY <1>1, WritesOne
<1> QED BY <1>2, <1>3 DEF Dir

\* A frozen benchmark stays what it was, in every directory and whatever is
\* killed.
THEOREM RunDirectoryFrozenStays == Spec => FrozenStays
<1> DEFINE Kept == \A n \in Names :
             root[n].frozen \in Stamps /\ root' # EmptyRoot
               => root'[n].frozen = root[n].frozen /\ root'[n].queries = root[n].queries
<1>1. ASSUME IInv, Next PROVE Kept
  <2> SUFFICES ASSUME NEW n \in Names, root[n].frozen \in Stamps, root' # EmptyRoot
               PROVE  root'[n].frozen = root[n].frozen /\ root'[n].queries = root[n].queries
    OBVIOUS
  <2>t. SoundRoot(root) /\ name \in Names /\ Kernel
    BY <1>1 DEF IInv, TypeOK
  <2>1. CASE UNCHANGED root
    BY <2>1
  <2>2. CASE \E field \in {"base", "manifest", "checkpoint", "gates"} :
               \E value : Writes(field, value)
    BY <1>1, <2>2, OthersLeaveFrozen
  <2>3. CASE Dir.frozen \notin Stamps
             /\ \E field \in {"queries", "frozen"} : \E value : Writes(field, value)
    <3>1. n # name
      BY <2>3 DEF Dir
    <3>2. root'[n] = root[n]
      BY <2>t, <2>3, <3>1, WritesOne
    <3> QED BY <3>2
  <2>4. CASE RemoveBase
    <3>1. root' = [root EXCEPT ![Dataset].base = Missing] /\ root[n] \in RunDirs
      BY <2>t, <2>4 DEF RemoveBase, SoundRoot
    <3> QED BY <2>t, <3>1 DEF RunDirs, SoundRoot
  <2>5. ASSUME NEW fresh \in BOOLEAN, NEW b \in Bases, NEW m \in {Dataset, b},
               StartKernel(fresh, b, m)
        PROVE  UNCHANGED root
    BY <2>5 DEF StartKernel
  <2>6. CASE Load \/ Restore \/ RunGates \/ Enrich
    <3>1. \/ UNCHANGED root
          \/ \E field \in {"base", "manifest", "checkpoint", "gates"} :
               \E value : Writes(field, value)
      BY <2>6 DEF Load, Restore, LoadBase, RefuseBase, CreateContext, RefuseManifest, StartRestore,
                  RestoreGates, RestoreCheckpoint, RunGates, Enrich
    <3> QED BY <2>1, <2>2, <3>1
  <2>7. CASE Freeze \/ KillInFreeze
    <3>1. \/ UNCHANGED root
          \/ (~BothExist \/ stage = "freezing")
             /\ \E field \in {"queries", "frozen"} : \E value : Writes(field, value)
      BY <2>7 DEF Freeze, KillInFreeze, FreezeReuse, FreezeRefuse, FreezeQueries, FreezeManifest
    <3>2. ~BothExist \/ stage = "freezing" => Dir.frozen \notin Stamps
      BY <1>1, <2>t, HereIsSound DEF Kernel
    <3> QED BY <2>1, <2>3, <3>1, <3>2
  <2>8. CASE Stop \/ KillInLoad \/ KillInCreate \/ KillInRestore \/ KillInWork
    <3>1. \/ UNCHANGED root
          \/ \E field \in {"base", "manifest", "checkpoint", "gates"} :
               \E value : Writes(field, value)
      BY <2>8 DEF Stop, KillInLoad, KillInCreate, KillInRestore, KillInWork
    <3> QED BY <2>1, <2>2, <3>1
  <2> QED BY <1>1, <2>1, <2>4, <2>5, <2>6, <2>7, <2>8 DEF Next, Kill
<1>2. ASSUME UNCHANGED vars PROVE Kept
  BY <1>2 DEF vars
<1>3. IInv /\ [Next]_vars => [Kept]_vars
  BY <1>1, <1>2
<1> HIDE DEF Kept
<1>4. Spec => [][Kept]_vars
  BY SpecIInv, <1>3, PTL DEF Spec
<1> QED BY <1>4 DEF FrozenStays, Kept

\* A checkpoint that is replaced is found again somewhere, as long.
LEMMA ReachKept ==
  ASSUME IInv, NEW b \in Bases, NEW k \in Nat, k >= 2, Reach(b, k), UNCHANGED inputs,
         \A n \in Names : root[n].checkpoint.header = b /\ root[n].checkpoint.lines >= 2 =>
           \E r \in Roots', m \in Names : /\ r[m].checkpoint.header = b
                                          /\ r[m].checkpoint.lines \in Nat
                                          /\ r[m].checkpoint.lines >= root[n].checkpoint.lines
  PROVE  Reach(b, k)'
<1>1. PICK r \in Roots, n \in Names : r[n].checkpoint.header = b /\ r[n].checkpoint.lines >= k
  BY DEF Reach, LinesOf
<1>2. r[n].checkpoint.lines \in Nat
  BY <1>1, RootsAreSound, BoundsAssumption DEF SoundDir, SoundLog, Logs
<1>3. CASE r = root
  <2>1. PICK q \in Roots', m \in Names : /\ q[m].checkpoint.header = b
                                         /\ q[m].checkpoint.lines \in Nat
                                         /\ q[m].checkpoint.lines >= root[n].checkpoint.lines
    BY <1>1, <1>2, <1>3
  <2>2. q[m].checkpoint.lines >= k
    BY <1>1, <1>2, <1>3, <2>1
  <2> QED BY <2>1, <2>2 DEF Reach, LinesOf
<1>4. CASE r # root
  <2>1. r \in Roots'
    BY <1>1, <1>4 DEF Roots
  <2> QED BY <1>1, <2>1 DEF Reach, LinesOf
<1> QED BY <1>3, <1>4

\* A copy, whole or cut short, leaves the input it is made from, which is longer.
LEMMA CopyLeavesInput ==
  ASSUME IInv, stage # "dead", NEW i \in DOMAIN inputs, Takes(i), NEW log,
         Writes("checkpoint", log), UNCHANGED inputs,
         NEW n \in Names, root[n].checkpoint.header = base
  PROVE  \E r \in Roots', m \in Names : /\ r[m].checkpoint.header = base
                                        /\ r[m].checkpoint.lines \in Nat
                                        /\ r[m].checkpoint.lines >= root[n].checkpoint.lines
<1>1. SoundRoot(root) /\ name \in Names /\ base \in Bases /\ base \in Names /\ Missing \notin Bases
  BY NamesOfBases DEF IInv, TypeOK, Kernel
<1>2. SoundLog(root[n].checkpoint) /\ SoundLog(Dir.checkpoint)
  BY <1>1 DEF SoundRoot, SoundDir, Dir
<1>3. root[n].checkpoint.lines \in Nat /\ Dir.checkpoint.lines \in Nat
  BY <1>2, BoundsAssumption DEF SoundLog, Logs
<1>4. CASE n # name
  <2>1. root'[n] = root[n] /\ root' \in Roots'
    BY <1>1, <1>4, WritesOne DEF Roots
  <2> QED BY <1>3, <2>1
<1>5. CASE n = name
  <2>1. SoundLog(From(i).checkpoint) /\ From(i).checkpoint.header \in {base, Missing}
    BY <1>1, FromIsSound
  <2>2. From(i).checkpoint.lines \in Nat
    BY <2>1, BoundsAssumption DEF SoundLog, Logs
  <2>3. From(i).checkpoint.lines > Dir.checkpoint.lines /\ Dir.checkpoint.header = base
    BY <1>5 DEF Takes, Dir
  <2>4. From(i).checkpoint.header = base
    <3>1. SUFFICES ASSUME From(i).checkpoint.header = Missing PROVE FALSE
      BY <2>1
    <3>2. From(i).checkpoint.lines <= 1
      BY <2>1, <3>1 DEF SoundLog
    <3>3. Dir.checkpoint.lines = 0
      BY <1>3, <2>2, <2>3, <3>2
    <3> QED BY <1>1, <1>2, <2>3, <3>3 DEF SoundLog
  <2>5. inputs[i] \in Roots' /\ From(i) = inputs[i][base] /\ Dir = root[n]
    BY <1>5 DEF Roots, From, Dir
  <2>6. From(i).checkpoint.lines >= root[n].checkpoint.lines
    BY <1>3, <2>2, <2>3, <2>5
  <2> QED BY <1>1, <2>2, <2>4, <2>5, <2>6
<1> QED BY <1>4, <1>5

\* The longest checkpoint with a record of the base.json at hand survives every
\* step of a kernel, copies and appends that are cut short included.
THEOREM RunDirectoryLongestSurvives == Spec => LongestSurvives
<1> DEFINE Kept == \A b \in Bases, n \in 2..MaxLines : base = b /\ Reach(b, n) => Reach(b, n)'
<1>1. ASSUME IInv, Next PROVE Kept
  <2> SUFFICES ASSUME NEW k \in 2..MaxLines, base \in Bases, Reach(base, k)
               PROVE  \E b \in Bases : b = base /\ Reach(b, k)'
    OBVIOUS
  <2>t. SoundRoot(root) /\ name \in Names /\ Kernel /\ stage # "dead" /\ k \in Nat /\ k >= 2
        /\ todo \subseteq DOMAIN inputs
    BY <1>1, NamesOfBases DEF IInv, TypeOK, Kernel
  <2>l. ASSUME NEW n \in Names
        PROVE  root[n].checkpoint.lines \in Nat
    BY <2>t, BoundsAssumption DEF SoundRoot, SoundDir, SoundLog, Logs
  <2> DEFINE Somewhere == \A n \in Names :
               root[n].checkpoint.header = base /\ root[n].checkpoint.lines >= 2 =>
               \E r \in Roots', m \in Names : /\ r[m].checkpoint.header = base
                                              /\ r[m].checkpoint.lines \in Nat
                                              /\ r[m].checkpoint.lines >= root[n].checkpoint.lines
  <2>1. ASSUME UNCHANGED inputs, Somewhere
        PROVE  \E b \in Bases : b = base /\ Reach(b, k)'
    <3>1. PICK b \in Bases : b = base
      OBVIOUS
    <3> QED BY <1>1, <2>1, <2>t, <3>1, ReachKept
  <2>r. root' \in Roots'
    BY DEF Roots
  <2>2. ASSUME UNCHANGED root PROVE Somewhere
    BY <2>2, <2>l, <2>r
  <2>3. ASSUME NEW field \in {"base", "manifest", "gates", "queries", "frozen"}, NEW value,
               Writes(field, value)
        PROVE  Somewhere
    <3>1. ASSUME NEW n \in Names PROVE root'[n].checkpoint = root[n].checkpoint
      <4>1. n # name => root'[n] = root[n]
        BY <2>3, <2>t, WritesOne
      <4>2. root'[name]["checkpoint"] = Dir["checkpoint"]
        BY <2>3, <2>t, WritesOne
      <4> QED BY <4>1, <4>2 DEF Dir
    <3> QED BY <2>l, <2>r, <3>1
  <2>4. ASSUME NEW i \in DOMAIN inputs, Takes(i), NEW log, Writes("checkpoint", log),
               UNCHANGED inputs
        PROVE  Somewhere
    BY <1>1, <2>4, <2>t, CopyLeavesInput
  <2>5. ASSUME CanEnrich, NEW log, Worked(log), Writes("checkpoint", log) PROVE Somewhere
    <3>1. /\ \A n \in Names \ {name} : root'[n] = root[n]
          /\ root'[name].checkpoint = log /\ log.lines \in Nat
          /\ Dir.checkpoint.lines >= 2 =>
               log.header = base /\ log.lines >= Dir.checkpoint.lines
      BY <1>1, <2>5, WorkWrites
    <3> QED BY <2>l, <2>r, <2>t, <3>1 DEF Dir
  <2>6. CASE Load \/ Freeze \/ RunGates \/ Stop \/ KillInLoad \/ KillInCreate \/ KillInFreeze
             \/ StartRestore \/ RestoreGates
    <3>1. /\ UNCHANGED inputs
          /\ \/ UNCHANGED root
             \/ \E field \in {"base", "manifest", "gates", "queries", "frozen"} :
                  \E value : Writes(field, value)
      BY <2>6 DEF Load, Freeze, RunGates, Stop, KillInLoad, KillInCreate, KillInFreeze, StartRestore,
                  RestoreGates, LoadBase, RefuseBase, CreateContext, RefuseManifest, FreezeReuse,
                  FreezeRefuse, FreezeQueries, FreezeManifest, Ends
    <3> HIDE DEF Somewhere
    <3> QED BY <2>1, <2>2, <2>3, <3>1
  <2>7. CASE KillInRestore \/ \E i \in DOMAIN inputs : RestoreCheckpoint(i)
    <3>1. UNCHANGED inputs
      BY <2>7 DEF KillInRestore, RestoreCheckpoint, Ends
    <3>2. \/ UNCHANGED root
          \/ \E value : Writes("gates", value)
          \/ \E i \in DOMAIN inputs : Takes(i) /\ \E log : Writes("checkpoint", log)
      BY <2>7, <2>t DEF KillInRestore, RestoreCheckpoint
    <3> HIDE DEF Somewhere
    <3> QED BY <2>1, <2>2, <2>3, <2>4, <3>1, <3>2
  <2>8. CASE Enrich \/ KillInWork
    <3>1. UNCHANGED inputs
      BY <2>8 DEF Enrich, KillInWork, Ends
    <3>2. \/ \E value : Writes("gates", value)
          \/ CanEnrich /\ \E log : Worked(log) /\ Writes("checkpoint", log)
      BY <2>8 DEF Enrich, KillInWork, Worked
    <3> HIDE DEF Somewhere
    <3> QED BY <2>1, <2>3, <2>5, <3>1, <3>2
  <2>9. ~RemoveBase /\ \A fresh \in BOOLEAN, b \in Bases : \A n \in {Dataset, b} :
                         ~StartKernel(fresh, b, n)
    BY <2>t DEF RemoveBase, StartKernel
  <2> QED BY <1>1, <2>6, <2>7, <2>8, <2>9 DEF Next, Restore, Kill
<1>2. ASSUME UNCHANGED vars PROVE Kept
  BY <1>2 DEF vars, Reach, Roots, LinesOf
<1>3. IInv /\ [Next]_vars => [Kept]_vars
  BY <1>1, <1>2
<1> HIDE DEF Kept
<1>4. Spec => [][Kept]_vars
  BY SpecIInv, <1>3, PTL DEF Spec
<1> QED BY <1>4 DEF LongestSurvives, Kept
=============================================================================
