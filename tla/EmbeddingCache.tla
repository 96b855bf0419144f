--------------------------- MODULE EmbeddingCache ---------------------------
(***************************************************************************)
(* EmbeddingCache and DenseIndex.build (optima/rag/research/dense.py),     *)
(* used by several processes that share one cache directory: two suites    *)
(* with the same embedding_cache, or a suite and a single run.             *)
(*                                                                         *)
(* For one corpus of texts an entry is known by the part of the encoder's  *)
(* description that key() hashes.  store() writes <key>.tmp.npz, a name    *)
(* that all writers of a key share, and renames it to <key>.npz; a writer  *)
(* whose open file was renamed by another goes on writing to what has been *)
(* published.  Files are therefore kept apart from their names.  A .npz    *)
(* file is an archive: its vectors come first, its directory last, and it  *)
(* can be read only when both are there and of one writing.                *)
(*                                                                         *)
(* A process may be killed at any point, and run again; an encoder that    *)
(* fails on the texts ends a run as a kill does.                           *)
(***************************************************************************)
EXTENDS Integers, FiniteSets

CONSTANTS
  Procs,       \* processes
  Encoders,    \* encoders a run can ask for: model and document prefix
  Unlabelled,  \* the encoders whose info does not name their prefix
  MaxFiles,    \* bound: files that exist at a time
  MaxRuns,     \* bound: runs started
  None         \* no file, nobody, nothing

ASSUME CacheAssumption ==
  /\ \A e \in Encoders : e = [model |-> e.model, prefix |-> e.prefix]
  /\ Unlabelled \subseteq Encoders
  /\ MaxFiles \in Nat /\ MaxRuns \in Nat
  /\ None \notin Encoders \cup Procs

\* Which encoder describes itself without its prefix depends on the model.
ASSUME UnlabelledAssumption ==
  \A e, f \in Encoders : e.model = f.model => (e \in Unlabelled <=> f \in Unlabelled)

Files == 1..MaxFiles
ASSUME FilesAssumption == None \notin Files

\* Mutant: the model is not part of the key.
KeyOfPrefix(e) == [model |-> "", prefix |-> IF e \in Unlabelled THEN "" ELSE e.prefix]

\* EmbeddingCache.key of the texts.  DenseIndex.build puts "" for a document
\* prefix that the encoder's info lacks.
Key(e) == [model |-> e.model, prefix |-> IF e \in Unlabelled THEN "" ELSE e.prefix]
Keys   == {Key(e) : e \in Encoders}

VARIABLES
  runs,      \* runs started
  files,     \* the parts of each file, and whose vectors they are of
  tmp,       \* the file under each key's temporary name
  entry,     \* the file under each key's name
  pc,        \* where each process stands in DenseIndex.build
  encoder,   \* the encoder of its run
  open,      \* the file it has open
  vectors,   \* the encoder whose vectors its index has
  shared,    \* observer: keys that two processes have stored at the same time
  cut        \* observer: keys whose storing has been cut short

vars == <<runs, files, tmp, entry, pc, encoder, open, vectors, shared, cut>>

-----------------------------------------------------------------------------
NoParts  == [body |-> None, dir |-> None]
Whole(f) == files[f].body # None /\ files[f].body = files[f].dir

\* A file exists while it has a name or is open.
Exists(f) == (\E k \in Keys : f \in {tmp[k], entry[k]}) \/ (\E p \in Procs : f = open[p])

\* The file a writer of key k opens: the one under the temporary name, or the
\* first that does not exist.
Opened(k) ==
  LET fresh == {f \in Files : ~Exists(f)}
  IN IF tmp[k] # None THEN {tmp[k]} ELSE {f \in fresh : \A g \in fresh : f <= g}

TypeOK ==
  /\ runs \in 0..MaxRuns
  /\ files \in [Files -> [body: Encoders \cup {None}, dir: Encoders \cup {None}]]
  /\ tmp \in [Keys -> Files \cup {None}]
  /\ entry \in [Keys -> Files \cup {None}]
  /\ pc \in [Procs -> {"idle", "load", "open", "body", "dir", "rename", "built",
                       "failed"}]
  /\ encoder \in [Procs -> Encoders \cup {None}]
  /\ open \in [Procs -> Files \cup {None}]
  /\ vectors \in [Procs -> Encoders \cup {None}]
  /\ shared \subseteq Keys
  /\ cut \subseteq Keys

Init ==
  /\ runs = 0
  /\ files = [f \in Files |-> NoParts]
  /\ tmp = [k \in Keys |-> None]
  /\ entry = [k \in Keys |-> None]
  /\ pc = [p \in Procs |-> "idle"]
  /\ encoder = [p \in Procs |-> None]
  /\ open = [p \in Procs |-> None]
  /\ vectors = [p \in Procs |-> None]
  /\ shared = {}
  /\ cut = {}

KeyOf(p) == Key(encoder[p])
Storing(p) == pc[p] \in {"body", "dir", "rename"}

At(p, here, there) == pc[p] = here /\ pc' = [pc EXCEPT ![p] = there]

-----------------------------------------------------------------------------
(***************************************************************************)
(* DenseIndex.build by process p.                                          *)
(***************************************************************************)

\* A run with encoder e gets to DenseIndex.build; what the process did before
\* is over.
Start(p, e) ==
  /\ runs < MaxRuns
  /\ runs' = runs + 1
  /\ pc[p] \in {"idle", "built", "failed"}
  /\ pc' = [pc EXCEPT ![p] = "load"]
  /\ encoder' = [encoder EXCEPT ![p] = e]
  /\ vectors' = [vectors EXCEPT ![p] = None]
  /\ UNCHANGED <<files, tmp, entry, open, shared, cut>>

\* There is no entry: the texts are embedded.
Miss(p) ==
  /\ At(p, "load", "open")
  /\ entry[KeyOf(p)] = None
  /\ vectors' = [vectors EXCEPT ![p] = encoder[p]]
  /\ UNCHANGED <<runs, files, tmp, entry, encoder, open, shared, cut>>

Hit(p) ==
  /\ At(p, "load", "built")
  /\ entry[KeyOf(p)] # None
  /\ Whole(entry[KeyOf(p)])
  /\ vectors' = [vectors EXCEPT ![p] = files[entry[KeyOf(p)]].body]
  /\ UNCHANGED <<runs, files, tmp, entry, encoder, open, shared, cut>>

\* OSError, ValueError or KeyError: the entry is ignored and will be replaced.
ReadFails(p) ==
  /\ At(p, "load", "open")
  /\ entry[KeyOf(p)] # None
  /\ vectors' = [vectors EXCEPT ![p] = encoder[p]]
  /\ UNCHANGED <<runs, files, tmp, entry, encoder, open, shared, cut>>

\* A truncated archive raises BadZipFile, an empty one EOFError: neither is
\* caught, and the run fails.
HitUnreadable(p) ==
  /\ At(p, "load", "failed")
  /\ entry[KeyOf(p)] # None
  /\ ~Whole(entry[KeyOf(p)])
  /\ UNCHANGED <<runs, files, tmp, entry, encoder, open, vectors, shared, cut>>

-----------------------------------------------------------------------------
(***************************************************************************)
(* EmbeddingCache.store.                                                   *)
(***************************************************************************)

NotesSharing(p) ==
  shared' = IF \E q \in Procs \ {p} : Storing(q) /\ KeyOf(q) = KeyOf(p)
              THEN shared \cup {KeyOf(p)} ELSE shared

\* Mutant: the entry itself is opened.
OpenEntry(p) ==
  /\ At(p, "open", "body")
  /\ \E f \in IF entry[KeyOf(p)] # None THEN {entry[KeyOf(p)]} ELSE Opened(KeyOf(p)) :
        /\ files' = [files EXCEPT ![f] = NoParts]
        /\ entry' = [entry EXCEPT ![KeyOf(p)] = f]
        /\ open' = [open EXCEPT ![p] = f]
  /\ NotesSharing(p)
  /\ UNCHANGED <<runs, tmp, encoder, vectors, cut>>

\* The file under the temporary name is emptied, or a new one is created.
Open(p) ==
  /\ At(p, "open", "body")
  /\ \E f \in Opened(KeyOf(p)) :
        /\ files' = [files EXCEPT ![f] = NoParts]
        /\ tmp' = [tmp EXCEPT ![KeyOf(p)] = f]
        /\ open' = [open EXCEPT ![p] = f]
  /\ NotesSharing(p)
  /\ UNCHANGED <<runs, entry, encoder, vectors, cut>>

WriteBody(p) ==
  /\ At(p, "body", "dir")
  /\ files' = [files EXCEPT ![open[p]].body = encoder[p]]
  /\ UNCHANGED <<runs, tmp, entry, encoder, open, vectors, shared, cut>>

\* Mutant: a writer whose temporary file has gone gives up.
WriteDirUnlessGone(p) ==
  /\ At(p, "dir", "rename")
  /\ files' = IF tmp[KeyOf(p)] = open[p] THEN [files EXCEPT ![open[p]].dir = encoder[p]]
                                         ELSE files
  /\ UNCHANGED <<runs, tmp, entry, encoder, open, vectors, shared, cut>>

WriteDir(p) ==
  /\ At(p, "dir", "rename")
  /\ files' = [files EXCEPT ![open[p]].dir = encoder[p]]
  /\ UNCHANGED <<runs, tmp, entry, encoder, open, vectors, shared, cut>>

\* p closes its file; a file with neither name nor user is gone.
Closes(p) ==
  /\ open' = [open EXCEPT ![p] = None]
  /\ files' = [f \in Files |->
                 IF (\E k \in Keys : f \in {tmp'[k], entry'[k]}) \/ (\E q \in Procs : f = open'[q])
                   THEN files[f] ELSE NoParts]

\* os.replace moves whatever file has the temporary name by now; when there is
\* none, FileNotFoundError is an OSError, and logged.
Rename(p) ==
  /\ At(p, "rename", "built")
  /\ IF tmp[KeyOf(p)] # None
       THEN /\ entry' = [entry EXCEPT ![KeyOf(p)] = tmp[KeyOf(p)]]
            /\ tmp' = [tmp EXCEPT ![KeyOf(p)] = None]
       ELSE UNCHANGED <<entry, tmp>>
  /\ Closes(p)
  /\ UNCHANGED <<runs, encoder, vectors, shared, cut>>

\* OSError, a full disk for one: the index is used all the same.
StoreFails(p) ==
  /\ pc[p] \in {"open", "body", "dir"}
  /\ pc' = [pc EXCEPT ![p] = "built"]
  /\ UNCHANGED <<tmp, entry>>
  /\ Closes(p)
  /\ cut' = cut \cup {KeyOf(p)}
  /\ UNCHANGED <<runs, encoder, vectors, shared>>

Kill(p) ==
  /\ pc[p] \notin {"idle", "built", "failed"}
  /\ pc' = [pc EXCEPT ![p] = "idle"]
  /\ encoder' = [encoder EXCEPT ![p] = None]
  /\ UNCHANGED <<tmp, entry>>
  /\ Closes(p)
  /\ vectors' = [vectors EXCEPT ![p] = None]
  /\ cut' = IF Storing(p) THEN cut \cup {KeyOf(p)} ELSE cut
  /\ UNCHANGED <<runs, shared>>

-----------------------------------------------------------------------------
Store(p) == Open(p) \/ WriteBody(p) \/ WriteDir(p) \/ Rename(p)
Build(p) == Miss(p) \/ Hit(p) \/ HitUnreadable(p) \/ Store(p)
Fault(p) == ReadFails(p) \/ StoreFails(p) \/ Kill(p)

Next == \E p \in Procs : Build(p) \/ Fault(p) \/ \E e \in Encoders : Start(p, e)

\* A process that is not killed goes on.
Fairness == \A p \in Procs : WF_vars(Build(p))

Spec == Init /\ [][Next]_vars /\ Fairness

-----------------------------------------------------------------------------
(***************************************************************************)
(* Properties.                                                             *)
(***************************************************************************)

Unreadable(k) == entry[k] # None /\ ~Whole(entry[k])

\* An entry that cannot be read comes only of two processes storing its key at
\* the same time: wherever a single one is killed or runs out of disk, it
\* leaves no entry or a whole one.
UnreadableOnlyWhenShared == \A k \in Keys : Unreadable(k) => k \in shared

\* The vectors of an index are those of the encoder its run asked for, however
\* the entry came to be, unless the encoder does not name its prefix.
VectorsAreOfEncoder ==
  \A p \in Procs :
    pc[p] = "built" => vectors[p] = encoder[p] \/ encoder[p] \in Unlabelled

Ambiguous(k) == \E e, f \in Encoders : e # f /\ Key(e) = k /\ Key(f) = k

\* An entry that cannot be read becomes readable, because the writer that has
\* it open finishes it, unless the storing of its key is ever cut short, or
\* its writers have different vectors.
HealsUnlessCut ==
  \A k \in Keys : Unreadable(k) ~> (~Unreadable(k) \/ k \in cut \/ Ambiguous(k))
=============================================================================
