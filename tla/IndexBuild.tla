----------------------------- MODULE IndexBuild -----------------------------
(***************************************************************************)
(* The FAISS index of one (mode, embedding alias, corpus) of build_indexes *)
(* (optima_kaggle/retrieval_eval.py) over embed_corpus and                 *)
(* create_vector_index (optima/rag/embedding_simple.py): the embedding     *)
(* view, the source fingerprint that decides between building and reusing, *)
(* the index's two files and its metadata, all written in place, and the   *)
(* assertions before the index is used.                                    *)
(*                                                                         *)
(* A corpus's contents are numbered: materialize stamps every artifact it  *)
(* writes with the time, so that a content never comes back.  The kernel   *)
(* can be interrupted or killed between any two steps and in the middle of *)
(* a write.                                                                *)
(***************************************************************************)
EXTENDS Integers

CONSTANTS
  MaxVersion,    \* bound: contents the corpus takes
  Absent, Torn   \* a file that is not there; one that is cut short

ASSUME MaxVersionAssumption == MaxVersion \in Nat \ {0}
ASSUME SentinelsAssumption ==
  /\ Absent # Torn
  /\ \A s \in {Absent, Torn} :
        s \notin 0..MaxVersion \cup [version: 1..MaxVersion, mock: BOOLEAN] \cup [mock: BOOLEAN]

VARIABLES
  \* on disk
  source,        \* enhanced_<slug>.json
  view,          \* rag_inputs/enhanced_<slug>.json, or 0
  fingerprint,   \* source_fingerprint.json
  faiss, pkl,    \* index.faiss and index.pkl
  metadata,      \* the index's metadata
  \* in build_indexes
  place,            \* its place
  changed,       \* _fingerprint_changed
  mock,          \* embed_corpus's embedder is the mock one
  accepted,      \* it has returned, and the index is used
  faissFailed    \* observer: FAISS has raised, for any build of this index

disk == <<source, view, fingerprint, faiss, pkl, metadata, faissFailed>>
indexVars == <<source, view, fingerprint, faiss, pkl, metadata, place, changed, mock,
          accepted, faissFailed>>

Versions == 1..MaxVersion
Index(v, m) == [version |-> v, mock |-> m]
Indexes == [version: Versions, mock: BOOLEAN]

IndexTypeOK ==
  /\ source \in Versions
  /\ view \in 0..MaxVersion
  /\ fingerprint \in Versions \cup {Absent, Torn}
  /\ faiss \in Indexes \cup {Absent, Torn}
  /\ pkl \in Indexes \cup {Absent, Torn}
  /\ metadata \in [mock: BOOLEAN] \cup {Absent, Torn}
  /\ place \in {"idle", "embedding", "saving", "saved", "asserting", "recording"}
  /\ changed \in BOOLEAN
  /\ mock \in BOOLEAN
  /\ accepted \in BOOLEAN
  /\ faissFailed \in BOOLEAN

IndexInit ==
  /\ source = 1
  /\ view = 0
  /\ fingerprint = Absent
  /\ faiss = Absent
  /\ pkl = Absent
  /\ metadata = Absent
  /\ place = "idle"
  /\ changed = FALSE
  /\ mock = FALSE
  /\ accepted = FALSE
  /\ faissFailed = FALSE

\* Another full run has materialized the corpus.
Materialize ==
  /\ place = "idle"
  /\ source < MaxVersion
  /\ source' = source + 1
  /\ UNCHANGED <<view, fingerprint, faiss, pkl, metadata, place, changed, mock,
                 accepted, faissFailed>>

-----------------------------------------------------------------------------
(***************************************************************************)
(* build_indexes up to embed_corpus.                                       *)
(***************************************************************************)

\* build_indexes's own embedder is the mock one: it raises.
RefuseMockEmbedder ==
  /\ place = "idle"
  /\ accepted
  /\ accepted' = FALSE
  /\ UNCHANGED <<disk, place, changed, mock>>

\* Mutant: an index without a fingerprint counts as current.
BeginTrustingUnrecorded ==
  /\ place = "idle"
  /\ view' = source
  /\ changed' = (fingerprint \notin {source, Absent})
  /\ accepted' = FALSE
  /\ place' = "embedding"
  /\ UNCHANGED <<source, fingerprint, faiss, pkl, metadata, mock, faissFailed>>

\* make_embedding_view, then _fingerprint_changed: an absent or unreadable
\* fingerprint counts as changed.
Begin ==
  /\ place = "idle"
  /\ view' = source
  /\ changed' = (fingerprint # source)
  /\ accepted' = FALSE
  /\ place' = "embedding"
  /\ UNCHANGED <<source, fingerprint, faiss, pkl, metadata, mock, faissFailed>>

Raises == place' = "idle"

-----------------------------------------------------------------------------
(***************************************************************************)
(* embed_corpus, with force = changed.                                     *)
(***************************************************************************)

PersistentIndex == faiss # Absent /\ pkl # Absent

\* The index on disk is reused, its metadata read.
Skip ==
  /\ place = "embedding"
  /\ PersistentIndex
  /\ ~changed
  /\ place' = "asserting"
  /\ UNCHANGED <<disk, changed, mock, accepted>>

Builds == place = "embedding" /\ (changed \/ ~PersistentIndex)

\* No documents, or an embedder that raises, before anything is written.
EmbedRaises ==
  /\ Builds
  /\ Raises
  /\ UNCHANGED <<disk, changed, mock, accepted>>

\* save_local: index.faiss, then index.pkl.  get_embeddings hands out the mock
\* embedder when the real one does not load.
SaveFaiss(m) ==
  /\ Builds
  /\ mock' = m
  /\ faiss' = Index(view, m)
  /\ place' = "saving"
  /\ UNCHANGED <<source, view, fingerprint, pkl, metadata, changed, accepted,
                 faissFailed>>

SavePkl ==
  /\ place = "saving"
  /\ pkl' = Index(view, mock)
  /\ place' = "saved"
  /\ UNCHANGED <<source, view, fingerprint, faiss, metadata, changed, mock,
                 accepted, faissFailed>>

\* create_vector_index catches what FAISS raises and returns an in-memory
\* store, whatever is on disk by then; embedding for it can raise as well.
FaissFails(m) ==
  /\ faissFailed' = TRUE
  /\ \/ Builds /\ mock' = m /\ faiss' \in {faiss, Torn} /\ UNCHANGED pkl
     \/ place = "saving" /\ pkl' \in {pkl, Torn} /\ UNCHANGED <<mock, faiss>>
  /\ place' \in {"saved", "idle"}
  /\ UNCHANGED <<source, view, fingerprint, metadata, changed, accepted>>

\* Mutant: the metadata do not say that the embedder was the mock one.
WriteMetadataAsReal ==
  /\ place = "saved"
  /\ metadata' = [mock |-> FALSE]
  /\ place' = "asserting"
  /\ UNCHANGED <<source, view, fingerprint, faiss, pkl, changed, mock,
                 accepted, faissFailed>>

WriteMetadata ==
  /\ place = "saved"
  /\ metadata' = [mock |-> mock]
  /\ place' = "asserting"
  /\ UNCHANGED <<source, view, fingerprint, faiss, pkl, changed, mock,
                 accepted, faissFailed>>

-----------------------------------------------------------------------------
(***************************************************************************)
(* build_indexes after embed_corpus.                                       *)
(***************************************************************************)

\* _assert_index_ok: unreadable metadata lack the representation mode.  Its
\* comparison of num_documents is left out: every content of the corpus has one
\* document for each function of base.json.
IndexOk == metadata \notin {Absent, Torn} /\ ~metadata.mock /\ PersistentIndex

AssertFails ==
  /\ place = "asserting"
  /\ ~IndexOk
  /\ Raises
  /\ UNCHANGED <<disk, changed, mock, accepted>>

AssertHolds ==
  /\ place = "asserting"
  /\ IndexOk
  /\ IF changed
     THEN place' = "recording" /\ UNCHANGED accepted
     ELSE place' = "idle" /\ accepted' = TRUE
  /\ UNCHANGED <<disk, changed, mock>>

WriteFingerprint ==
  /\ place = "recording"
  /\ fingerprint' = view
  /\ place' = "idle"
  /\ accepted' = TRUE
  /\ UNCHANGED <<source, view, faiss, pkl, metadata, changed, mock, faissFailed>>

-----------------------------------------------------------------------------
(***************************************************************************)
(* An interrupt or a kill: build_indexes is gone, and so is the use of any *)
(* index; the file being written is cut short, or not yet touched.         *)
(***************************************************************************)

Gone == place' = "idle" /\ accepted' = FALSE /\ UNCHANGED <<source, view, changed,
                                                         mock, faissFailed>>

KillBuild ==
  /\ place # "idle"
  /\ Gone
  /\ UNCHANGED <<fingerprint, faiss, pkl, metadata>>

KillInWrite ==
  /\ Gone
  /\ \/ Builds /\ faiss' = Torn /\ UNCHANGED <<fingerprint, pkl, metadata>>
     \/ place = "saving" /\ pkl' = Torn /\ UNCHANGED <<fingerprint, faiss, metadata>>
     \/ place = "saved" /\ metadata' = Torn /\ UNCHANGED <<fingerprint, faiss, pkl>>
     \/ place = "recording" /\ fingerprint' = Torn /\ UNCHANGED <<faiss, pkl,
                                                               metadata>>

Build ==
  \/ Begin
  \/ Skip
  \/ EmbedRaises
  \/ \E m \in BOOLEAN : SaveFaiss(m) \/ FaissFails(m)
  \/ SavePkl
  \/ WriteMetadata
  \/ AssertFails
  \/ AssertHolds
  \/ WriteFingerprint

IndexNext ==
  \/ Materialize
  \/ RefuseMockEmbedder
  \/ Build
  \/ KillBuild
  \/ KillInWrite

IndexSpec == IndexInit /\ [][IndexNext]_indexVars

-----------------------------------------------------------------------------
(***************************************************************************)
(* Properties.                                                             *)
(***************************************************************************)

Whole == faiss = Index(view, FALSE) /\ pkl = Index(view, FALSE)

\* "No mock-embedding fallback, no stale index reuse": the index that
\* build_indexes returns holds, in both its files, the corpus as the embedding
\* view has it, embedded by the real model, whatever builds were refused, cut
\* short or killed before, as long as no exception of FAISS has been swallowed.
StaleOnlyAfterFaissFailed == ~faissFailed /\ accepted => Whole

\* Why it may be reused: a fingerprint of the present view vouches for both
\* files and for readable metadata, at every moment of every build.
FingerprintVouches ==
  ~faissFailed /\ fingerprint = view => Whole /\ metadata = [mock |-> FALSE]

\* A refused build blocks nothing: an index that was not accepted is built
\* again, not skipped, when the corpus is next asked for.
RefusedIsRebuilt ==
  [][~faissFailed /\ place = "embedding" /\ place' = "asserting"
       => Whole /\ fingerprint = view]_indexVars
=============================================================================
