-------------------------- MODULE BenchmarkProofs ---------------------------
(***************************************************************************)
(* Proofs about the two parts of the retrieval benchmark that keep work    *)
(* between runs, for any number of contents, kernels, sessions and         *)
(* suffixes: the index that build_indexes keeps (IndexBuild), and the runs *)
(* that ExperimentStore keeps (SuiteRunner).                               *)
(***************************************************************************)
EXTENDS IndexBuild, SuiteRunner, TLAPS

-----------------------------------------------------------------------------
(***************************************************************************)
(* IndexBuild: no stale, torn or mock index is used as long as no          *)
(* exception of FAISS has been swallowed.                                  *)
(*                                                                         *)
(* The invariant says what a build in progress knows: its view is the      *)
(* present source; from the first write to the last the fingerprint on     *)
(* disk is of an older content; and what has been written so far is of the *)
(* view, by the embedder the build got.                                    *)
(***************************************************************************)

\* No content has a fingerprint before it has been viewed.
InOrder ==
  /\ view <= source
  /\ fingerprint \in Versions => fingerprint <= view
  /\ place # "idle" => view = source

\* What holds at each place of a build.
Progress ==
  /\ accepted => place = "idle"
  /\ place = "embedding" => changed = (fingerprint # view)
  /\ place \in {"saving", "saved", "recording"} => changed /\ fingerprint # view
  /\ place = "saving" => faiss = Index(view, mock)
  /\ place = "saved" => faiss = Index(view, mock) /\ pkl = Index(view, mock)
  /\ place = "asserting" =>
       \/ ~changed /\ fingerprint = view
       \/ /\ changed
          /\ fingerprint # view
          /\ faiss = Index(view, mock)
          /\ pkl = Index(view, mock)
          /\ metadata = [mock |-> mock]
  /\ place = "recording" => Whole /\ metadata = [mock |-> FALSE]

\* A build in progress is of the present source, also when FAISS has failed.
Current == IndexTypeOK /\ (place # "idle" => view = source)

\* What is accepted is whole: StaleOnlyAfterFaissFailed for as long as FAISS works.
NoStaleIndex == accepted => Whole

Sound == ~faissFailed /\ IndexTypeOK /\ InOrder /\ Progress /\ FingerprintVouches /\ NoStaleIndex

IndexInv == Current /\ (~faissFailed => Sound)

\* Absent and Torn are no content and no record.
LEMMA Sentinels ==
  /\ \A v \in 0..MaxVersion : v # Absent /\ v # Torn
  /\ \A x \in Indexes : x # Absent /\ x # Torn
  /\ \A x \in [mock: BOOLEAN] : x # Absent /\ x # Torn
BY SentinelsAssumption DEF Indexes, Versions

\* What Index(v, m) is.
LEMMA IndexType ==
  \A v \in Versions, m \in BOOLEAN :
    Index(v, m) \in Indexes /\ Index(v, m) # Absent
<1>1. \A v \in Versions, m \in BOOLEAN : Index(v, m) \in Indexes
  BY DEF Index, Indexes
<1> QED BY <1>1, Sentinels

LEMMA InitSound == IndexInit => Sound
<1> SUFFICES ASSUME IndexInit PROVE Sound
  OBVIOUS
<1>1. fingerprint \notin 0..MaxVersion
  BY Sentinels DEF IndexInit
<1>2. IndexTypeOK
  <2>1. source \in Versions /\ view \in 0..MaxVersion
    BY MaxVersionAssumption DEF IndexInit, Versions
  <2>2. /\ fingerprint \in Versions \cup {Absent, Torn}
        /\ faiss \in Indexes \cup {Absent, Torn}
        /\ pkl \in Indexes \cup {Absent, Torn}
        /\ metadata \in [mock: BOOLEAN] \cup {Absent, Torn}
    BY DEF IndexInit
  <2>3. /\ place \in {"idle", "embedding", "saving", "saved", "asserting", "recording"}
        /\ changed \in BOOLEAN /\ mock \in BOOLEAN /\ accepted \in BOOLEAN
    BY DEF IndexInit
  <2>4. faissFailed \in BOOLEAN
    BY DEF IndexInit
  <2> QED BY <2>1, <2>2, <2>3, <2>4 DEF IndexTypeOK
<1>3. InOrder /\ Progress /\ FingerprintVouches /\ NoStaleIndex
  BY <1>1, MaxVersionAssumption
     DEF IndexInit, InOrder, Progress, FingerprintVouches, NoStaleIndex, Versions
<1>4. ~faissFailed
  BY DEF IndexInit
<1> QED BY <1>2, <1>3, <1>4 DEF Sound

\* A build that writes does so because the fingerprint is not the view's.
LEMMA BuildsChanged == Sound /\ Builds => changed /\ fingerprint # view
<1> SUFFICES ASSUME Sound, Builds PROVE changed /\ fingerprint # view
  OBVIOUS
<1>1. place = "embedding" /\ changed = (fingerprint # view)
  BY DEF Sound, Progress, Builds
<1>2. CASE changed
  BY <1>1, <1>2
<1>3. CASE ~changed
  <2>1. fingerprint = view
    BY <1>1, <1>3
  <2>2. faiss = Index(view, FALSE) /\ pkl = Index(view, FALSE)
    BY <2>1 DEF Sound, FingerprintVouches, Whole
  <2>3. view \in Versions
    BY <2>1, Sentinels DEF Sound, IndexTypeOK
  <2>4. PersistentIndex
    BY <2>2, <2>3, IndexType DEF PersistentIndex
  <2> QED BY <2>4, <1>3 DEF Builds
<1> QED BY <1>2, <1>3

(***************************************************************************)
(* One lemma per kind of step.                                             *)
(***************************************************************************)

\* Nothing the invariant speaks of changes but the source.
LEMMA MaterializeStep == Sound /\ Materialize => Sound'
<1> SUFFICES ASSUME Sound, Materialize PROVE Sound'
  OBVIOUS
<1> USE DEF Sound, Materialize
<1>1. IndexTypeOK'
  BY MaxVersionAssumption DEF IndexTypeOK, Versions
<1>2. InOrder'
  BY DEF InOrder, IndexTypeOK, Versions
<1>3. Progress' /\ FingerprintVouches' /\ NoStaleIndex'
  BY DEF Progress, FingerprintVouches, NoStaleIndex, Whole, Index
<1> QED BY <1>1, <1>2, <1>3

\* The new view is the newest content: a fingerprint of it was there before
\* only if the view was.
LEMMA BeginStep == Sound /\ Begin => Sound'
<1> SUFFICES ASSUME Sound, Begin PROVE Sound'
  OBVIOUS
<1> USE DEF Sound, Begin
<1>1. IndexTypeOK'
  <2>1. view' \in 0..MaxVersion
    BY MaxVersionAssumption DEF IndexTypeOK, Versions
  <2>2. changed' \in BOOLEAN /\ accepted' \in BOOLEAN
    OBVIOUS
  <2>3. UNCHANGED <<source, fingerprint, faiss, pkl, metadata, mock>> /\ place' = "embedding"
    OBVIOUS
  <2> QED BY <2>1, <2>2, <2>3 DEF IndexTypeOK
<1>2. InOrder'
  BY MaxVersionAssumption DEF InOrder, IndexTypeOK, Versions
<1>3. Progress' /\ NoStaleIndex'
  BY DEF Progress, NoStaleIndex
<1>4. FingerprintVouches'
  <2> SUFFICES ASSUME fingerprint = source
               PROVE Whole' /\ metadata = [mock |-> FALSE]
    BY DEF FingerprintVouches
  <2>1. view = source
    BY MaxVersionAssumption DEF InOrder, IndexTypeOK, Versions
  <2>2. Whole /\ metadata = [mock |-> FALSE]
    BY <2>1 DEF FingerprintVouches
  <2> QED BY <2>1, <2>2 DEF Whole, Index
<1> QED BY <1>1, <1>2, <1>3, <1>4

\* A step of a build that writes one of the index's files or its metadata.
LEMMA WriteStep ==
  ASSUME Sound, NEW m \in BOOLEAN, SaveFaiss(m) \/ SavePkl \/ WriteMetadata
  PROVE  Sound'
<1> USE DEF Sound
<1>1. view \in Versions
  BY DEF SaveFaiss, SavePkl, WriteMetadata, Builds, InOrder, IndexTypeOK
<1>2. changed /\ fingerprint # view /\ place # "idle" /\ ~accepted
  BY BuildsChanged DEF SaveFaiss, SavePkl, WriteMetadata, Builds, Progress, IndexTypeOK
<1>3. UNCHANGED <<source, view, fingerprint, changed, accepted, faissFailed>>
  BY DEF SaveFaiss, SavePkl, WriteMetadata
<1>4. place' \in {"saving", "saved", "asserting"}
  BY DEF SaveFaiss, SavePkl, WriteMetadata
<1>5. IndexTypeOK'
  <2>1. CASE SaveFaiss(m)
    BY <1>1, <2>1, IndexType DEF IndexTypeOK, SaveFaiss
  <2>2. CASE SavePkl
    BY <1>1, <2>2, IndexType DEF IndexTypeOK, SavePkl
  <2>3. CASE WriteMetadata
    BY <2>3 DEF IndexTypeOK, WriteMetadata
  <2> QED BY <2>1, <2>2, <2>3
<1>6. InOrder' /\ FingerprintVouches' /\ NoStaleIndex'
  BY <1>2, <1>3 DEF InOrder, FingerprintVouches, NoStaleIndex
<1>7. Progress'
  <2>1. CASE SaveFaiss(m)
    BY <1>2, <2>1 DEF Progress, SaveFaiss, Index
  <2>2. CASE SavePkl
    BY <1>2, <2>2 DEF Progress, SavePkl, Index
  <2>3. CASE WriteMetadata
    BY <1>2, <2>3 DEF Progress, WriteMetadata, Index
  <2> QED BY <2>1, <2>2, <2>3
<1> QED BY <1>3, <1>5, <1>6, <1>7

\* The build goes on to the assertions with what is on disk, or ends.
LEMMA QuietStep ==
  ASSUME Sound, Skip \/ EmbedRaises \/ AssertFails \/ AssertHolds \/ RefuseMockEmbedder
  PROVE  Sound'
<1> USE DEF Sound
<1>1. UNCHANGED <<disk, changed, mock>>
  BY DEF Skip, EmbedRaises, AssertFails, AssertHolds, RefuseMockEmbedder
<1>2. IndexTypeOK'
  <2>1. place' \in {"idle", "embedding", "saving", "saved", "asserting", "recording"}
    BY DEF IndexTypeOK, Skip, EmbedRaises, AssertFails, AssertHolds, RefuseMockEmbedder, Raises
  <2>2. accepted' \in BOOLEAN
    BY DEF IndexTypeOK, Skip, EmbedRaises, AssertFails, AssertHolds, RefuseMockEmbedder
  <2> QED BY <1>1, <2>1, <2>2 DEF disk, IndexTypeOK
<1>3. InOrder' /\ FingerprintVouches'
  <2>1. FingerprintVouches'
    BY <1>1 DEF disk, FingerprintVouches, Whole, Index
  <2>2. InOrder'
    BY <1>1 DEF disk, InOrder, Skip, EmbedRaises, AssertFails, AssertHolds,
                RefuseMockEmbedder, Raises, Builds
  <2> QED BY <2>1, <2>2
<1>4. Progress' /\ NoStaleIndex'
  <2>1. CASE Skip
    BY <2>1 DEF Skip, disk, Progress, NoStaleIndex, IndexTypeOK
  <2>2. CASE EmbedRaises \/ AssertFails \/ RefuseMockEmbedder
    BY <2>2 DEF EmbedRaises, AssertFails, RefuseMockEmbedder, Raises, Builds, disk,
                Progress, NoStaleIndex
  <2>3. CASE AssertHolds
    <3>1. place = "asserting" /\ IndexOk /\ ~accepted
      BY <2>3 DEF AssertHolds, Progress, IndexTypeOK
    <3>2. CASE changed
      <4>1. /\ faiss = Index(view, mock) /\ pkl = Index(view, mock)
            /\ metadata = [mock |-> mock] /\ fingerprint # view
        BY <3>1, <3>2 DEF Progress
      <4>2. ~mock
        BY <3>1, <4>1 DEF IndexOk
      <4>3. mock = FALSE
        BY <4>2 DEF IndexTypeOK
      <4>4. Whole /\ metadata = [mock |-> FALSE]
        BY <4>1, <4>3 DEF Whole
      <4>5. place' = "recording" /\ ~accepted'
        BY <2>3, <3>1, <3>2 DEF AssertHolds
      <4>6. Whole' /\ (metadata = [mock |-> FALSE])'
        BY <4>4, <1>1 DEF disk, Whole, Index
      <4> QED BY <4>1, <4>5, <4>6, <3>2, <1>1 DEF disk, Progress, NoStaleIndex
    <3>3. CASE ~changed
      <4>1. fingerprint = view
        BY <3>1, <3>3 DEF Progress
      <4>2. Whole
        BY <4>1 DEF FingerprintVouches
      <4>3. place' = "idle"
        BY <2>3, <3>3 DEF AssertHolds
      <4>4. Whole'
        BY <4>2, <1>1 DEF disk, Whole, Index
      <4> QED BY <4>3, <4>4 DEF Progress, NoStaleIndex
    <3> QED BY <3>2, <3>3 DEF IndexTypeOK
  <2> QED BY <2>1, <2>2, <2>3
<1> QED BY <1>1, <1>2, <1>3, <1>4 DEF disk

\* The fingerprint is written last, of an index that is whole.
LEMMA WriteFingerprintStep == Sound /\ WriteFingerprint => Sound'
<1> SUFFICES ASSUME Sound, WriteFingerprint PROVE Sound'
  OBVIOUS
<1> USE DEF Sound, WriteFingerprint
<1>1. view \in Versions /\ view = source
  BY DEF InOrder, IndexTypeOK
<1>2. IndexTypeOK'
  BY <1>1 DEF IndexTypeOK
<1>3. InOrder'
  BY <1>1, MaxVersionAssumption DEF InOrder, Versions, IndexTypeOK
<1>4. Whole /\ metadata = [mock |-> FALSE]
  BY DEF Progress
<1>5. Whole'
  BY <1>4 DEF Whole, Index
<1>6. Progress' /\ FingerprintVouches' /\ NoStaleIndex'
  BY <1>4, <1>5 DEF Progress, FingerprintVouches, NoStaleIndex
<1> QED BY <1>2, <1>3, <1>6

\* A kill tears at most a file that the fingerprint does not vouch for.
LEMMA KillStep == Sound /\ (KillBuild \/ KillInWrite) => Sound'
<1> SUFFICES ASSUME Sound, KillBuild \/ KillInWrite PROVE Sound'
  OBVIOUS
<1> USE DEF Sound
<1>1. Gone
  BY DEF KillBuild, KillInWrite
<1>2. IndexTypeOK'
  BY <1>1 DEF Gone, IndexTypeOK, KillBuild, KillInWrite
<1>3. InOrder'
  <2>1. fingerprint' \in {fingerprint, Torn}
    BY DEF KillBuild, KillInWrite
  <2>2. Torn \notin Versions
    BY Sentinels DEF Versions
  <2> QED BY <1>1, <2>1, <2>2 DEF Gone, InOrder
<1>4. Progress' /\ NoStaleIndex'
  BY <1>1 DEF Gone, Progress, NoStaleIndex
<1>5. FingerprintVouches'
  <2>1. CASE KillBuild
    BY <2>1 DEF KillBuild, Gone, FingerprintVouches, Whole, Index
  <2>2. CASE KillInWrite
    <3>1. fingerprint' # view
      <4>1. fingerprint # view
        BY <2>2, BuildsChanged DEF KillInWrite, Progress
      <4>2. Torn # view
        BY Sentinels DEF IndexTypeOK
      <4>3. fingerprint' \in {fingerprint, Torn}
        BY <2>2 DEF KillInWrite
      <4> QED BY <4>1, <4>2, <4>3
    <3> QED BY <3>1, <1>1 DEF Gone, FingerprintVouches
  <2> QED BY <2>1, <2>2
<1> QED BY <1>1, <1>2, <1>3, <1>4, <1>5 DEF Gone

(***************************************************************************)
(* All steps.                                                              *)
(***************************************************************************)

\* Only what FaissFails and a build write is at stake for the types.
LEMMA StepCurrent == Current /\ [IndexNext]_indexVars => Current'
<1> SUFFICES ASSUME Current, [IndexNext]_indexVars PROVE Current'
  OBVIOUS
<1> USE DEF Current
<1>1. CASE Materialize
  BY <1>1, MaxVersionAssumption DEF Materialize, IndexTypeOK, Versions
<1>2. CASE RefuseMockEmbedder \/ Skip \/ EmbedRaises \/ AssertFails \/ AssertHolds
  <2>1. place' \in {"idle", "embedding", "saving", "saved", "asserting", "recording"}
    BY <1>2 DEF IndexTypeOK, Skip, EmbedRaises, AssertFails, AssertHolds, RefuseMockEmbedder, Raises
  <2>2. accepted' \in BOOLEAN
    BY <1>2 DEF IndexTypeOK, Skip, EmbedRaises, AssertFails, AssertHolds, RefuseMockEmbedder
  <2>3. UNCHANGED <<disk, changed, mock>>
    BY <1>2 DEF Skip, EmbedRaises, AssertFails, AssertHolds, RefuseMockEmbedder
  <2>4. place' # "idle" => place # "idle"
    BY <1>2 DEF Skip, EmbedRaises, AssertFails, AssertHolds, RefuseMockEmbedder, Raises
  <2> QED BY <2>1, <2>2, <2>3, <2>4 DEF disk, IndexTypeOK
<1>3. CASE Begin
  <2>1. view' \in 0..MaxVersion
    BY <1>3, MaxVersionAssumption DEF Begin, IndexTypeOK, Versions
  <2>2. changed' \in BOOLEAN
    BY <1>3 DEF Begin
  <2> QED BY <1>3, <2>1, <2>2 DEF Begin, IndexTypeOK
<1>4. ASSUME NEW m \in BOOLEAN, SaveFaiss(m) \/ FaissFails(m) PROVE Current'
  <2>1. view \in Versions
    BY <1>4 DEF SaveFaiss, FaissFails, Builds, IndexTypeOK
  <2>2. CASE SaveFaiss(m)
    BY <2>1, <2>2, IndexType DEF IndexTypeOK, SaveFaiss, Builds
  <2>3. CASE FaissFails(m)
    <3>1. faiss' \in {faiss, Torn} /\ pkl' \in {pkl, Torn} /\ mock' \in BOOLEAN
      BY <2>3 DEF FaissFails, IndexTypeOK
    <3>2. place' \in {"idle", "saved"} /\ place # "idle"
      BY <2>3 DEF FaissFails, Builds
    <3>3. UNCHANGED <<source, view, fingerprint, metadata, changed, accepted>> /\ faissFailed'
      BY <2>3 DEF FaissFails
    <3> QED BY <3>1, <3>2, <3>3 DEF IndexTypeOK
  <2> QED BY <1>4, <2>2, <2>3
<1>5. CASE SavePkl \/ WriteMetadata \/ WriteFingerprint
  <2>1. view \in Versions
    BY <1>5 DEF SavePkl, WriteMetadata, WriteFingerprint, IndexTypeOK
  <2>2. CASE SavePkl
    BY <2>1, <2>2, IndexType DEF SavePkl, IndexTypeOK
  <2>3. CASE WriteMetadata
    BY <2>3 DEF WriteMetadata, IndexTypeOK
  <2>4. CASE WriteFingerprint
    BY <2>1, <2>4 DEF WriteFingerprint, IndexTypeOK
  <2> QED BY <1>5, <2>2, <2>3, <2>4
<1>6. CASE KillBuild \/ KillInWrite
  BY <1>6 DEF Gone, IndexTypeOK, KillBuild, KillInWrite
<1>7. CASE UNCHANGED indexVars
  BY <1>7 DEF indexVars, IndexTypeOK
<1> QED BY <1>1, <1>2, <1>3, <1>4, <1>5, <1>6, <1>7 DEF IndexNext, Build

\* An index that has been built soundly stays so until FAISS fails.
LEMMA StepSound == Sound /\ [IndexNext]_indexVars /\ ~faissFailed' => Sound'
<1> SUFFICES ASSUME Sound, [IndexNext]_indexVars, ~faissFailed' PROVE Sound'
  OBVIOUS
<1>1. CASE Materialize
  BY <1>1, MaterializeStep
<1>2. CASE RefuseMockEmbedder \/ Skip \/ EmbedRaises \/ AssertFails \/ AssertHolds
  BY <1>2, QuietStep
<1>3. CASE Begin
  BY <1>3, BeginStep
<1>4. ASSUME NEW m \in BOOLEAN, SaveFaiss(m) PROVE Sound'
  BY <1>4, WriteStep
<1>5. ASSUME NEW m \in BOOLEAN, FaissFails(m) PROVE Sound'
  BY <1>5 DEF FaissFails
<1>6. CASE SavePkl \/ WriteMetadata
  BY <1>6, WriteStep
<1>7. CASE WriteFingerprint
  BY <1>7, WriteFingerprintStep
<1>8. CASE KillBuild \/ KillInWrite
  BY <1>8, KillStep
<1>9. CASE UNCHANGED indexVars
  BY <1>9 DEF indexVars, Sound, IndexTypeOK, InOrder, Progress, FingerprintVouches, NoStaleIndex,
              Whole, Index
<1> QED BY <1>1, <1>2, <1>3, <1>4, <1>5, <1>6, <1>7, <1>8, <1>9 DEF IndexNext, Build

\* FAISS does not come to work again.
LEMMA StaysFailed == [IndexNext]_indexVars /\ faissFailed => faissFailed'
BY DEF IndexNext, Build, Materialize, RefuseMockEmbedder, Begin, Skip, EmbedRaises, SaveFaiss,
       FaissFails, SavePkl, WriteMetadata, AssertFails, AssertHolds, WriteFingerprint,
       KillBuild, KillInWrite, Gone, disk, indexVars

LEMMA StepIndexInv == IndexInv /\ [IndexNext]_indexVars => IndexInv'
BY StepCurrent, StepSound, StaysFailed DEF IndexInv

LEMMA InitIndexInv == IndexInit => IndexInv
BY InitSound DEF IndexInv, Current, Sound, IndexInit

LEMMA AlwaysIndexInv == IndexSpec => []IndexInv
BY StepIndexInv, InitIndexInv, PTL DEF IndexSpec

\* As long as no exception of FAISS was swallowed, the index in use is of the
\* present view, by the real model and whole.
THEOREM NoStaleIndexReuse == IndexSpec => [](IndexTypeOK /\ StaleOnlyAfterFaissFailed)
<1>1. IndexInv => IndexTypeOK /\ StaleOnlyAfterFaissFailed
  BY DEF IndexInv, Current, Sound, NoStaleIndex, StaleOnlyAfterFaissFailed
<1> QED BY AlwaysIndexInv, <1>1, PTL

\* A fingerprint of the present view is only ever found beside the vectors, the
\* index and the metadata of that view, whichever build wrote them and wherever
\* it was killed.
THEOREM FingerprintAlwaysVouches == IndexSpec => []FingerprintVouches
<1>1. IndexInv => FingerprintVouches
  BY DEF IndexInv, Current, Sound, FingerprintVouches
<1> QED BY AlwaysIndexInv, <1>1, PTL

\* As long as no exception of FAISS was swallowed, only an index that is whole
\* is skipped.
THEOREM RefusedIsRebuiltAlways == IndexSpec => RefusedIsRebuilt
<1>1. IndexInv /\ [IndexNext]_indexVars => [~faissFailed /\ place = "embedding" /\ place' = "asserting"
                                 => Whole /\ fingerprint = view]_indexVars
  <2> SUFFICES ASSUME IndexInv, IndexNext, ~faissFailed, place = "embedding", place' = "asserting"
               PROVE  Whole /\ fingerprint = view
    BY DEF indexVars
  <2>1. Skip
    BY DEF IndexNext, Build, Materialize, RefuseMockEmbedder, Begin, EmbedRaises, SaveFaiss,
           FaissFails, SavePkl, WriteMetadata, AssertFails, AssertHolds,
           WriteFingerprint, KillBuild, KillInWrite, Gone, Raises
  <2>2. changed = (fingerprint # view) /\ ~changed
    BY <2>1 DEF Skip, IndexInv, Sound, Progress
  <2> QED BY <2>2 DEF IndexInv, Sound, FingerprintVouches
<1> QED BY <1>1, StepIndexInv, InitIndexInv, PTL DEF IndexSpec, RefusedIsRebuilt

-----------------------------------------------------------------------------
(***************************************************************************)
(* SuiteRunner: types, faithful reuse, complete reports, one execution of a*)
(* configuration a session, and a store that nothing is taken from.        *)
(***************************************************************************)

\* A session that runs has been counted.
Begun == pc = "running" => session > 0

\* What executed remembers for a key is a stored run of this session that
\* succeeded under that key and is whole.
Remembered ==
  \A k \in Keys : executed[k] # NoRun =>
    /\ executed[k] \in runs
    /\ executed[k].key = k
    /\ executed[k].ok
    /\ executed[k].from = NoRun
    /\ executed[k].result = "whole" /\ executed[k].perQuery = "whole"

\* No run is of a later session, nor of a position this one has still to
\* reach: the identity of a run about to be executed is not taken.
Dated ==
  \A r \in runs :
    /\ r.id.session <= session
    /\ pc = "running" /\ r.id.session = session => r.id.position < position

\* A success of the session that runs is remembered.
SuccessRemembered ==
  \A r \in runs :
    pc = "running" /\ r.from = NoRun /\ r.ok /\ r.id.session = session
      => executed[r.key] # NoRun

ShownIn(store, label) == \E r \in store : r.result = "whole" /\ r.label = label

\* Every position passed, and every label taken for done, has a loaded record.
Passed == pc = "running" => \A p \in Positions : p < position => ShownIn(runs, Plan[p].label)

DoneShown == \A l \in done : ShownIn(runs, l)

IInv ==
  /\ TypeOK
  /\ Begun
  /\ Remembered
  /\ ReuseIsFaithful
  /\ Dated
  /\ SuccessRemembered
  /\ ExecutedOnceASession
  /\ Passed
  /\ DoneShown
  /\ ReportShowsPlan

-----------------------------------------------------------------------------
(***************************************************************************)
(* Lemmas.                                                                 *)
(***************************************************************************)

LEMMA PositionsAreNumbers ==
  ASSUME TypeOK
  PROVE  position \in Int /\ \A i \in Ids : i.position \in Int
  <1>1. position \in 1..(Len(Plan) + 1)
    BY DEF TypeOK
  <1>2. \A i \in Ids : i.position \in 1..Len(Plan)
    BY SequenceAssumption DEF Ids
  <1> QED BY <1>1, <1>2, SequenceAssumption

\* The record of a planned run, executed or reused, is a run.
LEMMA ExecutedIsRun ==
  ASSUME TypeOK, Begun, AtRun, NEW ok \in BOOLEAN
  PROVE  /\ Executed(ok) \in Runs
         /\ Planned.key \in Keys
         /\ Executed(ok).key = Planned.key
         /\ Executed(ok).label = Planned.label
         /\ Executed(ok).ok = ok
         /\ Executed(ok).from = NoRun
         /\ Executed(ok).id.session = session
         /\ Executed(ok).result = "whole"
         /\ Executed(ok).perQuery = "whole"
  <1>0. session \in 0..MaxSessions /\ session > 0 /\ position \in Positions
    BY DEF TypeOK, Begun, AtRun
  <1>1. session \in 1..MaxSessions
    BY <1>0, BoundAssumption
  <1>2. Planned.key \in Keys /\ Planned.label \in Labels
    BY <1>0 DEF Planned, Keys, Labels
  <1> QED BY <1>0, <1>1, <1>2 DEF Executed, Runs, Ids

LEMMA ReusedIsRun ==
  ASSUME TypeOK, Remembered, Dated, AtRun, executed[Planned.key] # NoRun,
         NEW suffix \in Suffixes
  PROVE  /\ Planned.key \in Keys
         /\ executed[Planned.key] \in runs
         /\ Reused(suffix) \in Runs
         /\ Reused(suffix).key = Planned.key
         /\ Reused(suffix).label = Planned.label
         /\ Reused(suffix).from = executed[Planned.key].id
         /\ Reused(suffix).from # NoRun
         /\ Reused(suffix).id.session = executed[Planned.key].id.session
         /\ Reused(suffix).id.session = session => Reused(suffix).id.position <= position
         /\ Reused(suffix).result = "whole"
  <1>1. position \in Positions
    BY DEF AtRun
  <1>2. Planned.key \in Keys /\ Planned.label \in Labels
    BY <1>1 DEF Planned, Keys, Labels
  <1> DEFINE e == executed[Planned.key]
  <1>3. /\ e \in runs /\ e.key = Planned.key /\ e.result = "whole"
    BY <1>2 DEF Remembered
  <1>4. e \in Runs
    BY <1>3 DEF TypeOK
  <1>5. e.id \in Ids /\ e.id # NoRun
    BY <1>4, NoRunAssumption DEF Runs
  <1> HIDE DEF e
  <1>6. Reused(suffix) = [e EXCEPT !.id.suffix = suffix, !.label = Planned.label, !.from = e.id]
    BY DEF Reused, e
  <1>7. [e.id EXCEPT !.suffix = suffix] \in Ids
    BY <1>5 DEF Ids
  <1>8. /\ [e.id EXCEPT !.suffix = suffix].session = e.id.session
        /\ [e.id EXCEPT !.suffix = suffix].position = e.id.position
    BY <1>5 DEF Ids
  <1>9. e.id.session = session => e.id.position <= position
    <2>1. e.id.position \in Int /\ position \in Int
      BY <1>5, PositionsAreNumbers
    <2> QED BY <1>3, <2>1 DEF Dated, AtRun
  <1> QED BY <1>2, <1>3, <1>4, <1>5, <1>6, <1>7, <1>8, <1>9 DEF e, Runs

\* An interrupted save leaves a run that differs in its files only.
LEMMA RemainsOfRun ==
  ASSUME NEW r \in Runs, NEW s \in Remains(r)
  PROVE  /\ s \in Runs
         /\ s.id = r.id /\ s.label = r.label /\ s.key = r.key
         /\ s.ok = r.ok /\ s.from = r.from
  BY DEF Remains, Runs

\* A run under an identity that is not taken is added to the store.
LEMMA StoredAdds ==
  ASSUME NEW r, ~Exists(r.id)
  PROVE  Stored(r) = runs \cup {r}
BY DEF Exists, Stored

LEMMA ExecutedIsNew ==
  ASSUME TypeOK, Dated, AtRun, NEW ok \in BOOLEAN
  PROVE  ~Exists(Executed(ok).id)
  <1>1. position \in Int /\ pc = "running"
    BY PositionsAreNumbers DEF AtRun
  <1>2. Executed(ok).id.session = session /\ Executed(ok).id.position = position
    BY DEF Executed
  <1>3. \A r \in runs : ~(r.id.session = session /\ r.id.position = position)
    BY <1>1 DEF Dated
  <1> QED BY <1>2, <1>3 DEF Exists

-----------------------------------------------------------------------------
(***************************************************************************)
(* What a step stores.                                                     *)
(***************************************************************************)

\* A record of a run executed by this session, the first success of its key.
StoresExecuted(r) ==
  /\ r.from = NoRun
  /\ r.id.session = session
  /\ executed[r.key] = NoRun
  /\ r.ok => pc' = "stopped" \/ executed'[r.key] # NoRun

\* A record that repeats a remembered one under another label.
StoresReused(r) ==
  /\ r.from # NoRun
  /\ executed[r.key] # NoRun
  /\ r.from = executed[r.key].id
  /\ r.id.session = executed[r.key].id.session

Stores(r) ==
  /\ pc = "running"
  /\ runs' = runs \cup {r}
  /\ session' = session
  /\ pc' = "running" => position' = position + 1
  /\ r.id.session = session => r.id.position <= position
  /\ r.key \in Keys
  /\ StoresExecuted(r) \/ StoresReused(r)

LEMMA SucceedStores ==
  ASSUME TypeOK, Begun, Dated, Succeed
  PROVE  \E r \in Runs : Stores(r)
  <1>1. AtRun /\ executed[Planned.key] = NoRun
    BY DEF Succeed, ToExecute
  <1> DEFINE r == Executed(TRUE)
  <1>2. /\ r \in Runs /\ r.key = Planned.key /\ r.from = NoRun
        /\ r.id.session = session /\ Planned.key \in Keys
        /\ r.id.position = position /\ position \in Int
    BY <1>1, ExecutedIsRun, PositionsAreNumbers DEF Executed
  <1>3. /\ runs' = runs \cup {r} /\ session' = session /\ pc = "running"
        /\ position' = position + 1
    <2>1. runs' = Stored(r)
      BY DEF Succeed
    <2>2. runs' = runs \cup {r}
      BY <1>1, <2>1, ExecutedIsNew, StoredAdds
    <2> QED BY <1>1, <2>2 DEF Succeed, Advances, AtRun
  <1>4. executed'[Planned.key] = r
    BY <1>2 DEF Succeed, TypeOK
  <1>5. r # NoRun
    BY <1>2, NoRunAssumption
  <1> HIDE DEF r
  <1> QED BY <1>1, <1>2, <1>3, <1>4, <1>5 DEF Stores, StoresExecuted

LEMMA FailStores ==
  ASSUME TypeOK, Begun, Dated, Fail
  PROVE  \E r \in Runs : Stores(r)
  <1>1. AtRun /\ executed[Planned.key] = NoRun
    BY DEF Fail, ToExecute
  <1> DEFINE r == Executed(FALSE)
  <1>2. /\ r \in Runs /\ r.key = Planned.key /\ r.from = NoRun /\ ~r.ok
        /\ r.id.session = session /\ Planned.key \in Keys
        /\ r.id.position = position /\ position \in Int
    BY <1>1, ExecutedIsRun, PositionsAreNumbers DEF Executed
  <1>3. /\ runs' = runs \cup {r} /\ session' = session /\ pc = "running"
        /\ position' = position + 1
    <2>1. runs' = Stored(r)
      BY DEF Fail
    <2>2. runs' = runs \cup {r}
      BY <1>1, <2>1, ExecutedIsNew, StoredAdds
    <2> QED BY <1>1, <2>2 DEF Fail, Advances, AtRun
  <1> HIDE DEF r
  <1> QED BY <1>1, <1>2, <1>3 DEF Stores, StoresExecuted

LEMMA ReuseStores ==
  ASSUME TypeOK, Remembered, Dated, NEW suffix \in Suffixes, Reuse(suffix)
  PROVE  \E r \in Runs : Stores(r)
  <1>1. AtRun /\ executed[Planned.key] # NoRun
    BY DEF Reuse
  <1> DEFINE r == Reused(suffix)
  <1>2. /\ r \in Runs /\ r.key = Planned.key /\ r.from # NoRun
        /\ r.from = executed[Planned.key].id
        /\ r.id.session = executed[Planned.key].id.session
        /\ Planned.key \in Keys
        /\ r.id.session = session => r.id.position <= position
    BY <1>1, ReusedIsRun
  <1>3. /\ runs' = runs \cup {r} /\ session' = session /\ pc = "running"
        /\ position' = position + 1
    <2>1. runs' = Stored(r) /\ ~Exists(r.id)
      BY DEF Reuse
    <2> QED BY <1>1, <2>1, StoredAdds DEF Reuse, Advances, AtRun
  <1> HIDE DEF r
  <1> QED BY <1>1, <1>2, <1>3 DEF Stores, StoresReused

LEMMA KillInSaveStores ==
  ASSUME TypeOK, Begun, Remembered, Dated, KillInSave
  PROVE  \E r \in Runs : Stores(r)
  <1>1. AtRun /\ pc = "running" /\ session' = session /\ pc' = "stopped" /\ position \in Int
    BY PositionsAreNumbers DEF KillInSave, Ends, AtRun
  <1>2. ASSUME executed[Planned.key] # NoRun,
               NEW s \in Suffixes, ~Exists(Reused(s).id),
               NEW r \in Remains(Reused(s)), runs' = Stored(r)
        PROVE  \E q \in Runs : Stores(q)
    <2>1. /\ Reused(s) \in Runs /\ Reused(s).key = Planned.key /\ Reused(s).from # NoRun
          /\ Reused(s).from = executed[Planned.key].id
          /\ Reused(s).id.session = executed[Planned.key].id.session
          /\ Reused(s).id.session = session => Reused(s).id.position <= position
          /\ Planned.key \in Keys
      BY <1>1, <1>2, ReusedIsRun
    <2>2. /\ r \in Runs /\ r.key = Planned.key /\ r.from = Reused(s).from
          /\ r.id = Reused(s).id
      BY <2>1, RemainsOfRun
    <2>3. runs' = runs \cup {r}
      BY <1>2, <2>2, StoredAdds
    <2> QED BY <1>1, <1>2, <2>1, <2>2, <2>3 DEF Stores, StoresReused
  <1>3. ASSUME ToExecute, NEW ok \in BOOLEAN, NEW r \in Remains(Executed(ok)),
               runs' = Stored(r)
        PROVE  \E q \in Runs : Stores(q)
    <2>1. /\ Executed(ok) \in Runs /\ Executed(ok).key = Planned.key
          /\ Executed(ok).from = NoRun /\ Executed(ok).id.session = session
          /\ Executed(ok).id.position = position
          /\ Planned.key \in Keys
      BY <1>1, ExecutedIsRun DEF Executed
    <2>2. /\ r \in Runs /\ r.key = Planned.key /\ r.from = NoRun
          /\ r.id = Executed(ok).id
      BY <2>1, RemainsOfRun
    <2>3. runs' = runs \cup {r}
      BY <1>1, <1>3, <2>2, ExecutedIsNew, StoredAdds
    <2>4. executed[Planned.key] = NoRun
      BY <1>3 DEF ToExecute
    <2> QED BY <1>1, <2>1, <2>2, <2>3, <2>4 DEF Stores, StoresExecuted
  <1>4. \/ /\ executed[Planned.key] # NoRun
           /\ \E s \in Suffixes : /\ ~Exists(Reused(s).id)
                                  /\ \E r \in Remains(Reused(s)) : runs' = Stored(r)
        \/ /\ ToExecute
           /\ \E ok \in BOOLEAN : \E r \in Remains(Executed(ok)) : runs' = Stored(r)
    BY DEF KillInSave
  <1> QED BY <1>2, <1>3, <1>4

LEMMA StepStores ==
  ASSUME TypeOK, Begun, Remembered, Dated, [Next]_vars
  PROVE  runs' = runs \/ \E r \in Runs : Stores(r)
  <1>1. ASSUME NEW resume \in BOOLEAN, Start(resume) PROVE runs' = runs
    BY <1>1 DEF Start
  <1>2. ASSUME NEW suffix \in Suffixes, Reuse(suffix) PROVE \E r \in Runs : Stores(r)
    BY <1>2, ReuseStores
  <1>3. ASSUME NEW suffix \in Suffixes, ReuseCollides(suffix) PROVE runs' = runs
    BY <1>3 DEF ReuseCollides
  <1>4. SkipDone => runs' = runs
    BY DEF SkipDone
  <1>5. Succeed => \E r \in Runs : Stores(r)
    BY SucceedStores
  <1>6. Fail => \E r \in Runs : Stores(r)
    BY FailStores
  <1>7. Report => runs' = runs
    BY DEF Report
  <1>8. Kill => runs' = runs
    BY DEF Kill
  <1>9. KillInSave => \E r \in Runs : Stores(r)
    BY KillInSaveStores
  <1>10. UNCHANGED vars => runs' = runs
    BY DEF vars
  <1> QED BY <1>1, <1>2, <1>3, <1>4, <1>5, <1>6, <1>7, <1>8, <1>9, <1>10 DEF Next, Step

-----------------------------------------------------------------------------
(***************************************************************************)
(* The invariant, conjunct by conjunct.                                    *)
(***************************************************************************)

LEMMA TypesStay ==
  ASSUME TypeOK, Begun, Remembered, Dated, [Next]_vars
  PROVE  TypeOK' /\ Begun'
  <1>1. runs' \subseteq Runs
    <2>1. runs' = runs \/ \E r \in Runs : runs' = runs \cup {r}
      BY StepStores DEF Stores
    <2> QED BY <2>1 DEF TypeOK
  <1>2. ASSUME NEW resume \in BOOLEAN, Start(resume) PROVE TypeOK' /\ Begun'
    <2>1. session' \in 0..MaxSessions /\ session' > 0
      <3>1. session \in 0..MaxSessions /\ session < MaxSessions /\ session' = session + 1
        BY <1>2 DEF Start, TypeOK
      <3> QED BY <3>1, BoundAssumption
    <2>2. position' \in 1..(Len(Plan) + 1)
      <3>1. position' = 1
        BY <1>2 DEF Start
      <3> QED BY <3>1, SequenceAssumption
    <2>3. executed' \in [Keys -> Runs \cup {NoRun}]
      BY <1>2 DEF Start
    <2>4. {r.label : r \in {s \in Loaded : s.ok}} \subseteq Labels
      BY DEF Loaded, TypeOK, Runs
    <2>5. done' \subseteq Labels
      BY <1>2, <2>4 DEF Start, Ends
    <2>6. /\ pc' \in {"running", "stopped"}
          /\ failure' \in {"none", "unreadable results", "run exists", "killed"}
      BY <1>2 DEF Start, Ends
    <2>7. reported' \subseteq Runs
      BY <1>2 DEF Start, TypeOK
    <2> QED BY <1>1, <2>1, <2>2, <2>3, <2>5, <2>6, <2>7 DEF TypeOK, Begun
  <1>3. ASSUME AtRun, Advances, executed' = executed
               \/ \E r \in Runs : executed' = [executed EXCEPT ![Planned.key] = r]
        PROVE  TypeOK' /\ Begun'
    <2>1. position' \in 1..(Len(Plan) + 1)
      <3>1. position \in 1..Len(Plan) /\ position' = position + 1
        BY <1>3, SequenceAssumption DEF AtRun, Advances
      <3> QED BY <3>1, SequenceAssumption
    <2>2. executed' \in [Keys -> Runs \cup {NoRun}]
      BY <1>3 DEF TypeOK
    <2>3. /\ session' = session /\ pc' = pc /\ done' = done
          /\ reported' = reported /\ failure' = failure
      BY <1>3 DEF Advances
    <2> QED BY <1>1, <2>1, <2>2, <2>3 DEF TypeOK, Begun
  <1>4. ASSUME pc' = "stopped",
               failure' \in {"none", "unreadable results", "run exists", "killed"},
               UNCHANGED <<session, position, done, executed>>,
               reported' = reported \/ reported' = Loaded
        PROVE  TypeOK' /\ Begun'
    BY <1>1, <1>4 DEF TypeOK, Begun, Loaded
  <1>5. ASSUME NEW suffix \in Suffixes, Reuse(suffix) PROVE TypeOK' /\ Begun'
    BY <1>3, <1>5 DEF Reuse
  <1>6. ASSUME NEW suffix \in Suffixes, ReuseCollides(suffix) PROVE TypeOK' /\ Begun'
    BY <1>4, <1>6 DEF ReuseCollides, Ends
  <1>7. CASE SkipDone
    BY <1>3, <1>7 DEF SkipDone, ToExecute
  <1>8. CASE Succeed
    <2>1. AtRun
      BY <1>8 DEF Succeed, ToExecute
    <2>2. Executed(TRUE) \in Runs
      BY <2>1, ExecutedIsRun
    <2> QED BY <1>3, <1>8, <2>1, <2>2 DEF Succeed
  <1>9. CASE Fail
    BY <1>3, <1>9 DEF Fail, ToExecute
  <1>10. CASE Report
    BY <1>4, <1>10 DEF Report, Ends
  <1>11. CASE Kill
    BY <1>4, <1>11 DEF Kill, Ends
  <1>12. CASE KillInSave
    BY <1>4, <1>12 DEF KillInSave, Ends
  <1>13. CASE UNCHANGED vars
    BY <1>13 DEF vars, TypeOK, Begun
  <1> QED BY <1>2, <1>5, <1>6, <1>7, <1>8, <1>9, <1>10, <1>11, <1>12, <1>13 DEF Next, Step

LEMMA RememberedStays ==
  ASSUME TypeOK, Begun, Remembered, Dated, [Next]_vars
  PROVE  Remembered'
  <1>1. runs \subseteq runs'
    BY StepStores DEF Stores
  <1>2. ASSUME executed' = executed PROVE Remembered'
    BY <1>1, <1>2 DEF Remembered
  <1>3. ASSUME NEW resume \in BOOLEAN, Start(resume) PROVE Remembered'
    BY <1>3 DEF Start, Remembered
  <1>4. CASE Succeed
    <2>1. AtRun
      BY <1>4 DEF Succeed, ToExecute
    <2> DEFINE r == Executed(TRUE)
    <2>2. /\ r \in Runs /\ r.key = Planned.key /\ r.ok /\ r.from = NoRun
          /\ r.result = "whole" /\ r.perQuery = "whole"
      BY <2>1, ExecutedIsRun
    <2>3. r \in runs' /\ executed' = [executed EXCEPT ![Planned.key] = r]
      BY <1>4 DEF Succeed, Stored
    <2> HIDE DEF r
    <2> SUFFICES ASSUME NEW k \in Keys, executed'[k] # NoRun
                 PROVE  /\ executed'[k] \in runs'
                        /\ executed'[k].key = k
                        /\ executed'[k].ok
                        /\ executed'[k].from = NoRun
                        /\ executed'[k].result = "whole"
                        /\ executed'[k].perQuery = "whole"
      BY DEF Remembered
    <2>4. CASE k = Planned.key
      <3>1. executed'[k] = r
        BY <2>3, <2>4 DEF TypeOK
      <3> QED BY <2>2, <2>3, <2>4, <3>1
    <2>5. CASE k # Planned.key
      <3>1. executed'[k] = executed[k]
        BY <2>3, <2>5 DEF TypeOK
      <3> QED BY <1>1, <3>1 DEF Remembered
    <2> QED BY <2>4, <2>5
  <1>5. ASSUME NEW suffix \in Suffixes, Reuse(suffix) \/ ReuseCollides(suffix)
        PROVE  Remembered'
    BY <1>2, <1>5 DEF Reuse, ReuseCollides
  <1>6. CASE SkipDone \/ Fail \/ Report \/ Kill \/ KillInSave \/ UNCHANGED vars
    BY <1>2, <1>6 DEF SkipDone, Fail, Report, Kill, KillInSave, vars
  <1> QED BY <1>3, <1>4, <1>5, <1>6 DEF Next, Step

LEMMA ReuseStays ==
  ASSUME TypeOK, Begun, Remembered, Dated, ReuseIsFaithful, [Next]_vars
  PROVE  ReuseIsFaithful'
  <1>1. CASE runs' = runs
    BY <1>1 DEF ReuseIsFaithful
  <1>2. ASSUME NEW r \in Runs, Stores(r) PROVE ReuseIsFaithful'
    <2>1. runs' = runs \cup {r} /\ r.key \in Keys
      BY <1>2 DEF Stores
    <2>2. r.from # NoRun =>
            \E s \in runs : /\ s.id = r.from /\ s.from = NoRun /\ s.ok /\ s.key = r.key
                            /\ s.result = "whole" /\ s.perQuery = "whole"
      BY <1>2, <2>1 DEF Stores, StoresExecuted, StoresReused, Remembered
    <2> QED BY <2>1, <2>2 DEF ReuseIsFaithful
  <1> QED BY <1>1, <1>2, StepStores

\* The two facts about sessions and the one about executions they serve.
LEMMA DatesStay ==
  ASSUME TypeOK, Begun, Remembered, Dated, [Next]_vars
  PROVE  Dated'
  <1>1. /\ session \in Int /\ position \in Int
        /\ \A r \in Runs : r.id.session \in Int /\ r.id.position \in Int
    <2>1. session \in 0..MaxSessions /\ position \in 1..(Len(Plan) + 1)
      BY DEF TypeOK
    <2>2. \A r \in Runs : r.id.session \in 1..MaxSessions /\ r.id.position \in 1..Len(Plan)
      BY SequenceAssumption DEF Runs, Ids
    <2> QED BY <2>1, <2>2, BoundAssumption, SequenceAssumption
  <1>2. runs \subseteq Runs
    BY DEF TypeOK
  <1>3. ASSUME NEW resume \in BOOLEAN, Start(resume) PROVE Dated'
    <2>1. session' = session + 1 /\ runs' = runs
      BY <1>3 DEF Start
    <2> QED BY <1>1, <1>2, <2>1 DEF Dated
  <1>4. ASSUME runs' = runs, session' = session,
               pc' = "running" => pc = "running" /\ position' \in {position, position + 1}
        PROVE  Dated'
    BY <1>1, <1>2, <1>4 DEF Dated
  <1>5. ASSUME NEW r \in Runs, Stores(r) PROVE Dated'
    <2>1. /\ runs' = runs \cup {r} /\ session' = session /\ pc = "running" /\ r.key \in Keys
          /\ pc' = "running" => position' = position + 1
          /\ r.id.session = session => r.id.position <= position
      BY <1>5 DEF Stores
    <2>2. r.id.session <= session
      <3>1. CASE StoresExecuted(r)
        BY <1>1, <3>1 DEF StoresExecuted
      <3>2. CASE StoresReused(r)
        BY <2>1, <3>2 DEF StoresReused, Remembered, Dated
      <3> QED BY <1>5, <3>1, <3>2 DEF Stores
    <2> QED BY <1>1, <1>2, <2>1, <2>2 DEF Dated
  <1>6. ASSUME NEW suffix \in Suffixes, Reuse(suffix) \/ ReuseCollides(suffix) PROVE Dated'
    <2>1. CASE Reuse(suffix)
      BY <1>5, <2>1, ReuseStores
    <2>2. CASE ReuseCollides(suffix)
      BY <1>4, <2>2 DEF ReuseCollides, Ends
    <2> QED BY <1>6, <2>1, <2>2
  <1>7. CASE SkipDone \/ Report \/ Kill \/ UNCHANGED vars
    BY <1>4, <1>7 DEF SkipDone, ToExecute, AtRun, Report, Kill, Advances, Ends, vars
  <1>8. CASE Succeed \/ Fail \/ KillInSave
    BY <1>5, <1>8, SucceedStores, FailStores, KillInSaveStores
  <1> QED BY <1>3, <1>6, <1>7, <1>8 DEF Next, Step

LEMMA SuccessesStay ==
  ASSUME TypeOK, Begun, Remembered, Dated, SuccessRemembered, [Next]_vars
  PROVE  SuccessRemembered'
  <1>1. ASSUME NEW resume \in BOOLEAN, Start(resume) PROVE SuccessRemembered'
    <2>1. session \in Int /\ session' = session + 1 /\ runs' = runs
      <3>1. session \in 0..MaxSessions
        BY DEF TypeOK
      <3>2. session \in Int
        BY <3>1, BoundAssumption
      <3> QED BY <1>1, <3>2 DEF Start
    <2>2. \A r \in runs : r.id.session \in Int
      <3>1. \A r \in runs : r.id.session \in 1..MaxSessions
        BY DEF TypeOK, Runs, Ids
      <3> QED BY <3>1, BoundAssumption
    <2>3. \A r \in runs' : r.id.session # session'
      BY <2>1, <2>2 DEF Dated
    <2> QED BY <2>3 DEF SuccessRemembered
  <1>2. ASSUME session' = session,
               pc' = "running" => pc = "running",
               \A k \in Keys : executed[k] # NoRun => executed'[k] # NoRun
        PROVE  SuccessRemembered'
    <2> SUFFICES ASSUME NEW r \in runs', pc' = "running", r.from = NoRun, r.ok,
                        r.id.session = session'
                 PROVE  executed'[r.key] # NoRun
      BY DEF SuccessRemembered
    <2>1. CASE r \in runs
      <3>1. r.key \in Keys
        BY <2>1 DEF TypeOK, Runs
      <3> QED BY <1>2, <2>1, <3>1 DEF SuccessRemembered
    <2>2. CASE r \notin runs
      <3>1. PICK s \in Runs : Stores(s)
        BY <2>2, StepStores
      <3>2. r = s
        BY <2>2, <3>1 DEF Stores
      <3>3. Stores(r)
        BY <3>1, <3>2
      <3> QED BY <1>2, <3>3 DEF Stores, StoresExecuted, StoresReused
    <2> QED BY <2>1, <2>2
  <1>3. ASSUME NEW suffix \in Suffixes, Reuse(suffix) \/ ReuseCollides(suffix)
        PROVE  SuccessRemembered'
    BY <1>2, <1>3 DEF Reuse, ReuseCollides, Advances, Ends
  <1>4. CASE SkipDone \/ Fail \/ Report \/ Kill \/ KillInSave \/ UNCHANGED vars
    BY <1>2, <1>4 DEF SkipDone, Fail, Report, Kill, KillInSave, Advances, Ends, vars
  <1>5. CASE Succeed
    <2>1. AtRun
      BY <1>5 DEF Succeed, ToExecute
    <2>2. Executed(TRUE) \in Runs
      BY <2>1, ExecutedIsRun
    <2>3. Executed(TRUE) # NoRun
      BY <2>2, NoRunAssumption
    <2>4. \A k \in Keys : executed[k] # NoRun => executed'[k] # NoRun
      BY <1>5, <2>3 DEF Succeed, TypeOK
    <2>5. session' = session /\ pc' = pc
      BY <1>5 DEF Succeed, Advances
    <2> QED BY <1>2, <2>4, <2>5
  <1> QED BY <1>1, <1>3, <1>4, <1>5 DEF Next, Step

LEMMA OnceStays ==
  ASSUME TypeOK, Begun, Remembered, Dated, SuccessRemembered, ExecutedOnceASession, [Next]_vars
  PROVE  ExecutedOnceASession'
  <1>1. CASE runs' = runs
    BY <1>1 DEF ExecutedOnceASession
  <1>2. ASSUME NEW r \in Runs, Stores(r) PROVE ExecutedOnceASession'
    <2>1. runs' = runs \cup {r} /\ pc = "running"
      BY <1>2 DEF Stores
    <2>2. ASSUME NEW s \in runs, r.from = NoRun, s.from = NoRun, r.key = s.key,
                 r.id.session = s.id.session, r.ok, s.ok
          PROVE  FALSE
      <3>1. StoresExecuted(r)
        BY <1>2, <2>2 DEF Stores, StoresReused
      <3> QED BY <2>1, <2>2, <3>1 DEF StoresExecuted, SuccessRemembered
    <2> QED BY <2>1, <2>2 DEF ExecutedOnceASession
  <1> QED BY <1>1, <1>2, StepStores

\* What is shown stays shown, since the store only grows.
LEMMA ShownStays ==
  ASSUME TypeOK, Begun, Remembered, Dated, [Next]_vars, NEW l, ShownIn(runs, l)
  PROVE  ShownIn(runs', l)
  <1>1. runs \subseteq runs'
    BY StepStores DEF Stores
  <1> QED BY <1>1 DEF ShownIn

LEMMA DoneStays ==
  ASSUME TypeOK, Begun, Remembered, Dated, DoneShown, [Next]_vars
  PROVE  DoneShown'
  <1>1. ASSUME done' = done PROVE DoneShown'
    BY <1>1, ShownStays DEF DoneShown
  <1>2. ASSUME NEW resume \in BOOLEAN, Start(resume) PROVE DoneShown'
    <2>1. runs' = runs
      BY <1>2 DEF Start
    <2>2. \A l \in done' : \E r \in runs : r.result = "whole" /\ r.label = l
      BY <1>2 DEF Start, Loaded
    <2> QED BY <2>1, <2>2 DEF DoneShown, ShownIn
  <1>3. ASSUME NEW suffix \in Suffixes, Reuse(suffix) \/ ReuseCollides(suffix)
        PROVE  DoneShown'
    BY <1>1, <1>3 DEF Reuse, ReuseCollides, Advances
  <1>4. CASE SkipDone \/ Succeed \/ Fail \/ Report \/ Kill \/ KillInSave \/ UNCHANGED vars
    BY <1>1, <1>4 DEF SkipDone, Succeed, Fail, Report, Kill, KillInSave, Advances, vars
  <1> QED BY <1>2, <1>3, <1>4 DEF Next, Step

LEMMA PassedStays ==
  ASSUME TypeOK, Begun, Remembered, Dated, DoneShown, Passed, [Next]_vars
  PROVE  Passed'
  <1>1. ASSUME pc' # "running" PROVE Passed'
    BY <1>1 DEF Passed
  <1>2. ASSUME UNCHANGED <<pc, position>> PROVE Passed'
    BY <1>2, ShownStays DEF Passed
  <1>3. ASSUME AtRun, Advances, ShownIn(runs', Planned.label) PROVE Passed'
    <2>1. position \in 1..Len(Plan) /\ position' = position + 1 /\ pc' = pc
      BY <1>3, SequenceAssumption DEF AtRun, Advances
    <2> SUFFICES ASSUME NEW p \in Positions, p < position', pc = "running"
                 PROVE  ShownIn(runs', Plan[p].label)
      BY <2>1 DEF Passed
    <2>2. p = position \/ p < position
      BY <2>1, SequenceAssumption
    <2>3. CASE p = position
      BY <1>3, <2>3 DEF Planned
    <2>4. CASE p < position
      BY <2>4, ShownStays DEF Passed
    <2> QED BY <2>2, <2>3, <2>4
  <1>4. ASSUME NEW resume \in BOOLEAN, Start(resume) PROVE Passed'
    <2>1. position' = 1
      BY <1>4 DEF Start
    <2>2. \A p \in Positions : ~(p < 1)
      BY SequenceAssumption
    <2> QED BY <2>1, <2>2 DEF Passed
  <1>5. ASSUME NEW suffix \in Suffixes, Reuse(suffix) PROVE Passed'
    <2>1. AtRun /\ Advances /\ executed[Planned.key] # NoRun
          /\ runs' = Stored(Reused(suffix))
      BY <1>5 DEF Reuse
    <2>2. Reused(suffix).label = Planned.label /\ Reused(suffix).result = "whole"
      BY <2>1, ReusedIsRun
    <2>4. ShownIn(runs', Planned.label)
      BY <2>1, <2>2 DEF ShownIn, Stored
    <2> QED BY <1>3, <2>1, <2>4
  <1>6. ASSUME NEW suffix \in Suffixes, ReuseCollides(suffix) PROVE Passed'
    BY <1>1, <1>6 DEF ReuseCollides, Ends
  <1>7. CASE SkipDone
    <2>1. AtRun /\ Advances /\ Planned.label \in done
      BY <1>7 DEF SkipDone, ToExecute
    <2>2. ShownIn(runs', Planned.label)
      BY <2>1, ShownStays DEF DoneShown
    <2> QED BY <1>3, <2>1, <2>2
  <1>8. ASSUME NEW ok \in BOOLEAN, AtRun, Advances, runs' = Stored(Executed(ok))
        PROVE  Passed'
    <2>1. Executed(ok).label = Planned.label /\ Executed(ok).result = "whole"
      BY <1>8, ExecutedIsRun
    <2>2. ShownIn(runs', Planned.label)
      BY <1>8, <2>1 DEF ShownIn, Stored
    <2> QED BY <1>3, <1>8, <2>2
  <1>9. CASE Succeed
    BY <1>8, <1>9 DEF Succeed, ToExecute
  <1>10. CASE Fail
    BY <1>8, <1>10 DEF Fail, ToExecute
  <1>11. CASE Report \/ Kill \/ KillInSave
    BY <1>1, <1>11 DEF Report, Kill, KillInSave, Ends
  <1>12. CASE UNCHANGED vars
    BY <1>2, <1>12 DEF vars
  <1> QED BY <1>4, <1>5, <1>6, <1>7, <1>9, <1>10, <1>11, <1>12 DEF Next, Step

LEMMA ReportStays ==
  ASSUME TypeOK, Begun, Remembered, Dated, Passed, ReportShowsPlan, [Next]_vars
  PROVE  ReportShowsPlan'
  <1>1. ASSUME pc' = "running" \/ failure' # "none" PROVE ReportShowsPlan'
    BY <1>1 DEF ReportShowsPlan
  <1>2. CASE Report
    <2>1. CASE ReportReadable
      <3>1. pc = "running" /\ reported' = Loaded
        BY <1>2, <2>1 DEF Report
      <3>2. position = Len(Plan) + 1
        <4>1. position \in 1..(Len(Plan) + 1) /\ position \notin Positions
          BY <1>2 DEF Report, TypeOK
        <4> QED BY <4>1, SequenceAssumption
      <3>3. \A p \in Positions : p < position
        BY <3>2, SequenceAssumption
      <3>4. \A p \in Positions : ShownIn(runs, Plan[p].label)
        BY <3>1, <3>3 DEF Passed
      <3> QED BY <3>1, <3>4 DEF ReportShowsPlan, ShownIn, Loaded
    <2>2. CASE ~ReportReadable
      BY <1>1, <1>2, <2>2 DEF Report, Ends
    <2> QED BY <2>1, <2>2
  <1>3. ASSUME NEW resume \in BOOLEAN, Start(resume) PROVE ReportShowsPlan'
    BY <1>1, <1>3 DEF Start, Ends
  <1>4. ASSUME NEW suffix \in Suffixes, Reuse(suffix) PROVE ReportShowsPlan'
    BY <1>1, <1>4 DEF Reuse, Advances, AtRun
  <1>5. ASSUME NEW suffix \in Suffixes, ReuseCollides(suffix) PROVE ReportShowsPlan'
    BY <1>1, <1>5 DEF ReuseCollides, Ends
  <1>6. CASE SkipDone \/ Succeed \/ Fail
    BY <1>1, <1>6 DEF SkipDone, Succeed, Fail, ToExecute, Advances, AtRun
  <1>7. CASE Kill \/ KillInSave
    BY <1>1, <1>7 DEF Kill, KillInSave, Ends
  <1>8. CASE UNCHANGED vars
    BY <1>8 DEF vars, ReportShowsPlan
  <1> QED BY <1>2, <1>3, <1>4, <1>5, <1>6, <1>7, <1>8 DEF Next, Step

-----------------------------------------------------------------------------
(***************************************************************************)
(* The theorems.                                                           *)
(***************************************************************************)

LEMMA InitIInv == Init => IInv
  <1> SUFFICES ASSUME Init PROVE IInv
    OBVIOUS
  <1>1. TypeOK
    <2>1. 1 \in 1..(Len(Plan) + 1) /\ 0 \in 0..MaxSessions
      BY SequenceAssumption, BoundAssumption
    <2> QED BY <2>1 DEF Init, TypeOK
  <1>2. Remembered
    BY DEF Init, Remembered
  <1>3. Begun /\ ReuseIsFaithful /\ Dated /\ SuccessRemembered /\ ExecutedOnceASession
    BY DEF Init, Begun, ReuseIsFaithful, Dated, SuccessRemembered, ExecutedOnceASession
  <1>4. Passed /\ DoneShown /\ ReportShowsPlan
    BY DEF Init, Passed, DoneShown, ReportShowsPlan
  <1> QED BY <1>1, <1>2, <1>3, <1>4 DEF IInv

LEMMA StepIInv == IInv /\ [Next]_vars => IInv'
  <1> SUFFICES ASSUME IInv, [Next]_vars PROVE IInv'
    OBVIOUS
  <1> USE DEF IInv
  <1>1. TypeOK' /\ Begun'
    BY TypesStay
  <1>2. Remembered' /\ ReuseIsFaithful'
    BY RememberedStays, ReuseStays
  <1>3. Dated' /\ SuccessRemembered' /\ ExecutedOnceASession'
    BY DatesStay, SuccessesStay, OnceStays
  <1>4. Passed' /\ DoneShown' /\ ReportShowsPlan'
    BY PassedStays, DoneStays, ReportStays
  <1> QED BY <1>1, <1>2, <1>3, <1>4

LEMMA AlwaysIInv == Spec => []IInv
  BY InitIInv, StepIInv, PTL DEF Spec

\* The variables keep their types.
THEOREM SuiteTypeOK == Spec => []TypeOK
  <1>1. IInv => TypeOK
    BY DEF IInv
  <1> QED BY <1>1, AlwaysIInv, PTL

\* A record flagged reused_from names a stored run that succeeded under the
\* same configuration, whatever sessions and interrupted saves came between.
THEOREM SuiteReuseIsFaithful == Spec => []ReuseIsFaithful
  <1>1. IInv => ReuseIsFaithful
    BY DEF IInv
  <1> QED BY <1>1, AlwaysIInv, PTL

\* write_suite_reports shows every planned run, however many sessions it took.
THEOREM SuiteReportShowsPlan == Spec => []ReportShowsPlan
  <1>1. IInv => ReportShowsPlan
    BY DEF IInv
  <1> QED BY <1>1, AlwaysIInv, PTL

\* A configuration succeeds by being executed at most once in a session.
THEOREM SuiteExecutedOnce == Spec => []ExecutedOnceASession
  <1>1. IInv => ExecutedOnceASession
    BY DEF IInv
  <1> QED BY <1>1, AlwaysIInv, PTL

\* save_run writes over no stored run, neither an executed one nor, whatever
\* random byte it draws, a reused one: no step takes one away or changes it.
THEOREM SuiteStoredRunsKept == Spec => StoredRunsKept
  <1>1. IInv /\ [Next]_vars => [runs \subseteq runs']_runs
    BY StepStores DEF IInv, Stores
  <1> QED BY <1>1, AlwaysIInv, PTL DEF Spec, StoredRunsKept
=============================================================================
