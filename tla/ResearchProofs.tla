--------------------------- MODULE ResearchProofs ---------------------------
(***************************************************************************)
(* Proofs about the research pipeline, in two parts.                       *)
(*                                                                         *)
(* EmbeddingCache, for any number of processes, encoders, files and runs:  *)
(* types, an index has the vectors of its encoder, and an unreadable entry *)
(* is the work of two writers.                                             *)
(*                                                                         *)
(* Retrieval, for any corpus, lists and limits: types, hops are distances, *)
(* evidence is support, better seeds come first, and the graph only lifts. *)
(* A sum, a sort and the reference of a traversal are recursive functions; *)
(* that they exist, and what they return, are the lemmas of its start.     *)
(***************************************************************************)
EXTENDS EmbeddingCache, Retrieval, FiniteSetTheorems, TLAPS

\* The file f is reached through key k: by one of its names, or by a writer.
Holds(k, f) ==
  \/ tmp[k] = f
  \/ entry[k] = f
  \/ \E p \in Procs : open[p] = f /\ KeyOf(p) = k

\* A writer has a file open while it stores, and an encoder while it builds.
Writing ==
  \A p \in Procs :
    /\ open[p] # None <=> Storing(p)
    /\ pc[p] # "idle" => encoder[p] \in Encoders

\* A file never comes under two keys.
OneKey ==
  \A f \in Files, k, l \in Keys : Holds(k, f) /\ Holds(l, f) => k = l

\* What is in a file was written under its key.
PartsOf(k) == {e \in Encoders : Key(e) = k} \cup {None}

KeptParts ==
  \A f \in Files, k \in Keys :
    Holds(k, f) => files[f].body \in PartsOf(k) /\ files[f].dir \in PartsOf(k)

\* An index has vectors of its key.
IndexOfKey ==
  \A p \in Procs :
    pc[p] \in {"open", "body", "dir", "rename", "built"}
      => vectors[p] \in Encoders /\ Key(vectors[p]) = KeyOf(p)

\* Renaming leaves nothing under the temporary name.
NamesDiffer == \A k \in Keys : tmp[k] # None => tmp[k] # entry[k]

\* Two writers of a key that meet are noted.
MeetingsNoted ==
  \A p, q \in Procs :
    p # q /\ Storing(p) /\ Storing(q) /\ KeyOf(p) = KeyOf(q) => KeyOf(p) \in shared

\* A writer that never met another has the temporary file, in the state it
\* put it in.
AloneAt(p) ==
  /\ tmp[KeyOf(p)] = open[p]
  /\ pc[p] = "dir" => files[open[p]].body = encoder[p]
  /\ pc[p] = "rename" => Whole(open[p])

Alone == \A p \in Procs : Storing(p) /\ KeyOf(p) \notin shared => AloneAt(p)

IInv ==
  /\ TypeOK
  /\ Writing
  /\ OneKey
  /\ KeptParts
  /\ IndexOfKey
  /\ NamesDiffer
  /\ MeetingsNoted
  /\ Alone
  /\ UnreadableOnlyWhenShared

-----------------------------------------------------------------------------
(***************************************************************************)
(* Types, and who writes.                                                  *)
(***************************************************************************)

Parts == [body: Encoders \cup {None}, dir: Encoders \cup {None}]

LEMMA WriterKnown ==
  ASSUME TypeOK, Writing, NEW p \in Procs
  PROVE  /\ pc[p] # "idle" => KeyOf(p) \in Keys /\ encoder[p] \in Encoders
         /\ Storing(p) => open[p] \in Files /\ pc[p] # "idle"
         /\ open[p] \in Files => Storing(p)
  <1>1. pc[p] # "idle" => KeyOf(p) \in Keys /\ encoder[p] \in Encoders
    BY DEF Writing, KeyOf, Keys
  <1>2. open[p] \in Files \cup {None}
    BY DEF TypeOK
  <1> QED BY <1>1, <1>2, FilesAssumption DEF Writing, Storing

LEMMA OpenedIsFile ==
  ASSUME TypeOK, NEW k \in Keys, NEW f \in Opened(k)
  PROVE  f \in Files /\ (tmp[k] = f \/ ~Exists(f))
  <1>1. tmp[k] \in Files \cup {None}
    BY DEF TypeOK
  <1> QED BY <1>1 DEF Opened

LEMMA ClosesTypes ==
  ASSUME TypeOK, NEW p \in Procs, Closes(p)
  PROVE  /\ open' \in [Procs -> Files \cup {None}]
         /\ files' \in [Files -> Parts]
  <1>1. open' \in [Procs -> Files \cup {None}]
    BY DEF Closes, TypeOK
  <1>2. \A f \in Files : files[f] \in Parts /\ NoParts \in Parts
    BY DEF TypeOK, Parts, NoParts
  <1> QED BY <1>1, <1>2 DEF Closes

LEMMA TypesStay ==
  ASSUME TypeOK, Writing, [Next]_vars
  PROVE  TypeOK'
  <1>1. ASSUME NEW p \in Procs, NEW e \in Encoders, Start(p, e) PROVE TypeOK'
    <2>1. runs' \in 0..MaxRuns
      <3>1. runs \in 0..MaxRuns /\ runs < MaxRuns /\ runs' = runs + 1
        BY <1>1 DEF Start, TypeOK
      <3> QED BY <3>1, CacheAssumption
    <2> QED BY <1>1, <2>1 DEF Start, TypeOK
  <1>2. ASSUME NEW p \in Procs, Miss(p) PROVE TypeOK'
    BY <1>2 DEF Miss, At, TypeOK
  <1>3. ASSUME NEW p \in Procs, Hit(p) PROVE TypeOK'
    <2>1. entry[KeyOf(p)] \in Files
      <3>1. KeyOf(p) \in Keys
        BY <1>3, WriterKnown DEF Hit, At
      <3> QED BY <1>3, <3>1 DEF Hit, TypeOK
    <2>2. files[entry[KeyOf(p)]].body \in Encoders \cup {None}
      BY <2>1 DEF TypeOK
    <2> HIDE DEF KeyOf
    <2> QED BY <1>3, <2>2 DEF Hit, At, TypeOK
  <1>4. ASSUME NEW p \in Procs, ReadFails(p) PROVE TypeOK'
    BY <1>4 DEF ReadFails, At, TypeOK
  <1>5. ASSUME NEW p \in Procs, HitUnreadable(p) PROVE TypeOK'
    BY <1>5 DEF HitUnreadable, At, TypeOK
  <1>6. ASSUME NEW p \in Procs, Open(p) PROVE TypeOK'
    <2>1. KeyOf(p) \in Keys
      BY <1>6, WriterKnown DEF Open, At
    <2>2. PICK f \in Opened(KeyOf(p)) :
            /\ files' = [files EXCEPT ![f] = NoParts]
            /\ tmp' = [tmp EXCEPT ![KeyOf(p)] = f]
            /\ open' = [open EXCEPT ![p] = f]
      BY <1>6 DEF Open
    <2>3. f \in Files
      BY <2>1, OpenedIsFile
    <2>4. files' \in [Files -> Parts]
      BY <2>2, <2>3 DEF TypeOK, Parts, NoParts
    <2>5. tmp' \in [Keys -> Files \cup {None}] /\ open' \in [Procs -> Files \cup {None}]
      BY <2>1, <2>2, <2>3 DEF TypeOK
    <2>6. shared' \subseteq Keys
      BY <1>6, <2>1 DEF Open, NotesSharing, TypeOK
    <2>7. pc' \in [Procs -> {"idle", "load", "open", "body", "dir", "rename", "built", "failed"}]
      BY <1>6 DEF Open, At, TypeOK
    <2>8. UNCHANGED <<runs, entry, encoder, vectors, cut>>
      BY <1>6 DEF Open
    <2> QED BY <2>4, <2>5, <2>6, <2>7, <2>8 DEF TypeOK, Parts
  <1>7. ASSUME NEW p \in Procs, WriteBody(p) \/ WriteDir(p) PROVE TypeOK'
    <2>1. encoder[p] \in Encoders \cup {None}
      BY DEF TypeOK
    <2>2. files' \in [Files -> Parts]
      BY <1>7, <2>1 DEF WriteBody, WriteDir, TypeOK, Parts
    <2>3. pc' \in [Procs -> {"idle", "load", "open", "body", "dir", "rename", "built", "failed"}]
      BY <1>7 DEF WriteBody, WriteDir, At, TypeOK
    <2>4. UNCHANGED <<runs, tmp, entry, encoder, open, vectors, shared, cut>>
      BY <1>7 DEF WriteBody, WriteDir
    <2> QED BY <2>2, <2>3, <2>4 DEF TypeOK, Parts
  <1>8. ASSUME NEW p \in Procs, Rename(p) PROVE TypeOK'
    <2>1. KeyOf(p) \in Keys
      BY <1>8, WriterKnown DEF Rename, At
    <2>2. tmp[KeyOf(p)] \in Files \cup {None}
      BY <2>1 DEF TypeOK
    <2>3. tmp' \in [Keys -> Files \cup {None}] /\ entry' \in [Keys -> Files \cup {None}]
      BY <1>8, <2>1, <2>2 DEF Rename, TypeOK
    <2>4. open' \in [Procs -> Files \cup {None}] /\ files' \in [Files -> Parts]
      BY <1>8, ClosesTypes DEF Rename
    <2>5. pc' \in [Procs -> {"idle", "load", "open", "body", "dir", "rename", "built", "failed"}]
      BY <1>8 DEF Rename, At, TypeOK
    <2>6. UNCHANGED <<runs, encoder, vectors, shared, cut>>
      BY <1>8 DEF Rename
    <2> QED BY <2>3, <2>4, <2>5, <2>6 DEF TypeOK, Parts
  <1>9. ASSUME NEW p \in Procs, StoreFails(p) \/ Kill(p) PROVE TypeOK'
    <2>1. KeyOf(p) \in Keys
      BY <1>9, WriterKnown DEF StoreFails, Kill
    <2>2. open' \in [Procs -> Files \cup {None}] /\ files' \in [Files -> Parts]
      BY <1>9, ClosesTypes DEF StoreFails, Kill
    <2>3. pc' \in [Procs -> {"idle", "load", "open", "body", "dir", "rename", "built", "failed"}]
      BY <1>9 DEF StoreFails, Kill, TypeOK
    <2>4. encoder' \in [Procs -> Encoders \cup {None}] /\ vectors' \in [Procs -> Encoders \cup {None}]
      BY <1>9 DEF StoreFails, Kill, TypeOK
    <2>5. cut' \subseteq Keys
      BY <1>9, <2>1 DEF StoreFails, Kill, TypeOK
    <2>6. UNCHANGED <<runs, tmp, entry, shared>>
      BY <1>9 DEF StoreFails, Kill
    <2> QED BY <2>2, <2>3, <2>4, <2>5, <2>6 DEF TypeOK, Parts
  <1>10. CASE UNCHANGED vars
    BY <1>10 DEF vars, TypeOK
  <1> QED BY <1>1, <1>2, <1>3, <1>4, <1>5, <1>6, <1>7, <1>8, <1>9, <1>10
          DEF Next, Build, Store, Fault

LEMMA WritingStays ==
  ASSUME TypeOK, Writing, [Next]_vars
  PROVE  Writing'
  <1>1. ASSUME NEW p \in Procs, NEW e \in Encoders, Start(p, e) PROVE Writing'
    BY <1>1 DEF Start, TypeOK, Writing, Storing
  <1>2. ASSUME NEW p \in Procs, Miss(p) \/ Hit(p) \/ ReadFails(p) \/ HitUnreadable(p)
        PROVE  Writing'
    <2>1. /\ pc' = [pc EXCEPT ![p] = "open"] \/ pc' = [pc EXCEPT ![p] = "built"]
             \/ pc' = [pc EXCEPT ![p] = "failed"]
          /\ pc[p] = "load" /\ open' = open /\ encoder' = encoder
      BY <1>2 DEF Miss, Hit, ReadFails, HitUnreadable, At
    <2> QED BY <2>1 DEF TypeOK, Writing, Storing
  <1>3. ASSUME NEW p \in Procs, Open(p) PROVE Writing'
    <2>1. KeyOf(p) \in Keys
      BY <1>3, WriterKnown DEF Open, At
    <2>2. PICK f \in Opened(KeyOf(p)) : open' = [open EXCEPT ![p] = f]
      BY <1>3 DEF Open
    <2>3. f # None
      BY <2>1, OpenedIsFile, FilesAssumption
    <2>4. pc[p] = "open" /\ pc' = [pc EXCEPT ![p] = "body"] /\ encoder' = encoder
      BY <1>3 DEF Open, At
    <2> QED BY <2>2, <2>3, <2>4 DEF TypeOK, Writing, Storing
  <1>4. ASSUME NEW p \in Procs, WriteBody(p) \/ WriteDir(p) PROVE Writing'
    <2>1. /\ \/ pc[p] = "body" /\ pc' = [pc EXCEPT ![p] = "dir"]
             \/ pc[p] = "dir" /\ pc' = [pc EXCEPT ![p] = "rename"]
          /\ open' = open /\ encoder' = encoder
      BY <1>4 DEF WriteBody, WriteDir, At
    <2> QED BY <2>1 DEF TypeOK, Writing, Storing
  <1>5. ASSUME NEW p \in Procs, Rename(p) \/ StoreFails(p) \/ Kill(p) PROVE Writing'
    <2>1. /\ open' = [open EXCEPT ![p] = None]
          /\ \/ pc' = [pc EXCEPT ![p] = "built"] /\ encoder' = encoder
             \/ pc' = [pc EXCEPT ![p] = "idle"] /\ encoder' = [encoder EXCEPT ![p] = None]
          /\ pc[p] # "idle"
      BY <1>5 DEF Rename, StoreFails, Kill, Closes, At
    <2> QED BY <2>1 DEF TypeOK, Writing, Storing
  <1>6. CASE UNCHANGED vars
    BY <1>6 DEF vars, Writing, Storing
  <1> QED BY <1>1, <1>2, <1>3, <1>4, <1>5, <1>6 DEF Next, Build, Store, Fault

-----------------------------------------------------------------------------
(***************************************************************************)
(* The shapes of a step.                                                   *)
(***************************************************************************)

\* Nothing a writer relies on changes.
Quiet ==
  /\ UNCHANGED <<files, tmp, entry, open, shared>>
  /\ \A q \in Procs : /\ Storing(q)' = Storing(q)
                      /\ Storing(q) => encoder'[q] = encoder[q] /\ pc'[q] = pc[q]

Drops(p) == StoreFails(p) \/ Kill(p)

LEMMA Shapes ==
  ASSUME TypeOK, Writing, [Next]_vars
  PROVE  Quiet \/ \E p \in Procs : Open(p) \/ WriteBody(p) \/ WriteDir(p) \/ Rename(p) \/ Drops(p)
  <1>1. ASSUME NEW p \in Procs, NEW e \in Encoders, Start(p, e) PROVE Quiet
    BY <1>1 DEF Start, Quiet, TypeOK, Storing
  <1>2. ASSUME NEW p \in Procs, Miss(p) PROVE Quiet
    BY <1>2 DEF Miss, At, Quiet, TypeOK, Storing
  <1>3. ASSUME NEW p \in Procs, Hit(p) PROVE Quiet
    BY <1>3 DEF Hit, At, Quiet, TypeOK, Storing
  <1>4. ASSUME NEW p \in Procs, ReadFails(p) PROVE Quiet
    BY <1>4 DEF ReadFails, At, Quiet, TypeOK, Storing
  <1>5. ASSUME NEW p \in Procs, HitUnreadable(p) PROVE Quiet
    BY <1>5 DEF HitUnreadable, At, Quiet, TypeOK, Storing
  <1>6. CASE UNCHANGED vars
    BY <1>6 DEF vars, Quiet, Storing
  <1> QED BY <1>1, <1>2, <1>3, <1>4, <1>5, <1>6 DEF Next, Build, Store, Fault, Drops

\* A writer holds its file under its key.
LEMMA WriterHolds ==
  ASSUME TypeOK, Writing, NEW p \in Procs, Storing(p)
  PROVE  open[p] \in Files /\ KeyOf(p) \in Keys /\ Holds(KeyOf(p), open[p])
  BY WriterKnown DEF Holds

\* Opening a file takes one that is held under no other key.
LEMMA OpenFacts ==
  ASSUME TypeOK, Writing, OneKey, NEW p \in Procs, Open(p)
  PROVE  /\ KeyOf(p) \in Keys
         /\ encoder' = encoder
         /\ \E f \in Files :
              /\ files' = [files EXCEPT ![f] = NoParts]
              /\ tmp' = [tmp EXCEPT ![KeyOf(p)] = f]
              /\ open' = [open EXCEPT ![p] = f]
              /\ tmp[KeyOf(p)] = f \/ ~Exists(f)
              /\ \A k \in Keys : Holds(k, f) => k = KeyOf(p)
  <1>1. KeyOf(p) \in Keys
    BY WriterKnown DEF Open, At
  <1>2. PICK f \in Opened(KeyOf(p)) :
          /\ files' = [files EXCEPT ![f] = NoParts]
          /\ tmp' = [tmp EXCEPT ![KeyOf(p)] = f]
          /\ open' = [open EXCEPT ![p] = f]
    BY DEF Open
  <1>3. f \in Files /\ (tmp[KeyOf(p)] = f \/ ~Exists(f))
    BY <1>1, OpenedIsFile
  <1>4. \A k \in Keys : Holds(k, f) => k = KeyOf(p)
    <2>1. CASE tmp[KeyOf(p)] = f
      BY <1>1, <1>3, <2>1 DEF OneKey, Holds
    <2>2. CASE ~Exists(f)
      BY <2>2 DEF Exists, Holds
    <2> QED BY <1>3, <2>1, <2>2
  <1> QED BY <1>1, <1>2, <1>3, <1>4 DEF Open

\* Closing keeps what is still held.
LEMMA ClosesKeeps ==
  ASSUME TypeOK, NEW p \in Procs, Closes(p), NEW k \in Keys, NEW f \in Files, Holds(k, f)'
  PROVE  files'[f] = files[f]
  BY DEF Closes, Holds

\* Ending the storing of a key creates no holder.
LEMMA EndFacts ==
  ASSUME TypeOK, Writing, NEW p \in Procs, Rename(p) \/ Drops(p)
  PROVE  /\ \A k \in Keys, f \in Files : Holds(k, f)' => Holds(k, f) /\ files'[f] = files[f]
         /\ \A q \in Procs : Storing(q)' =>
              q # p /\ Storing(q) /\ encoder'[q] = encoder[q] /\ open'[q] = open[q] /\ pc'[q] = pc[q]
         /\ shared' = shared
         /\ KeyOf(p) \in Keys
  <1>0. Closes(p) /\ shared' = shared /\ pc[p] # "idle"
    BY DEF Rename, Drops, StoreFails, Kill, At
  <1>1. KeyOf(p) \in Keys
    BY <1>0, WriterKnown
  <1>2. \A q \in Procs : Storing(q)' =>
          q # p /\ Storing(q) /\ encoder'[q] = encoder[q] /\ open'[q] = open[q] /\ pc'[q] = pc[q]
    <2>1. open' = [open EXCEPT ![p] = None]
      BY <1>0 DEF Closes
    <2>2. /\ pc' = [pc EXCEPT ![p] = "built"] \/ pc' = [pc EXCEPT ![p] = "idle"]
          /\ encoder' = encoder \/ encoder' = [encoder EXCEPT ![p] = None]
      BY DEF Rename, Drops, StoreFails, Kill, At
    <2> QED BY <2>1, <2>2 DEF TypeOK, Storing
  <1>3. ASSUME NEW k \in Keys, NEW f \in Files, Holds(k, f)' PROVE Holds(k, f)
    <2>1. CASE tmp'[k] = f
      <3>1. tmp[k] = f
        BY <1>1, <2>1, FilesAssumption DEF Rename, Drops, StoreFails, Kill, TypeOK
      <3> QED BY <3>1 DEF Holds
    <2>2. CASE entry'[k] = f
      <3>1. entry[k] = f \/ tmp[k] = f
        BY <1>1, <2>2 DEF Rename, Drops, StoreFails, Kill, TypeOK
      <3> QED BY <3>1 DEF Holds
    <2>3. ASSUME NEW q \in Procs, open'[q] = f, KeyOf(q)' = k PROVE Holds(k, f)
      <3>1. q # p /\ open[q] = f
        BY <1>0, <2>3, FilesAssumption DEF Closes, TypeOK
      <3>2. encoder'[q] = encoder[q]
        BY <3>1 DEF Rename, Drops, StoreFails, Kill, TypeOK
      <3> QED BY <2>3, <3>1, <3>2 DEF Holds, KeyOf
    <2> QED BY <1>3, <2>1, <2>2, <2>3 DEF Holds
  <1> QED BY <1>0, <1>1, <1>2, <1>3, ClosesKeeps

-----------------------------------------------------------------------------
(***************************************************************************)
(* Files and keys.                                                         *)
(***************************************************************************)

LEMMA QuietHolds ==
  ASSUME TypeOK, Writing, Writing', Quiet, NEW k \in Keys, NEW f \in Files, Holds(k, f)'
  PROVE  Holds(k, f)
  <1>1. ASSUME NEW q \in Procs, open[q] = f, KeyOf(q)' = k PROVE Holds(k, f)
    <2>1. Storing(q)
      BY <1>1, WriterKnown
    <2>2. encoder'[q] = encoder[q]
      BY <2>1 DEF Quiet
    <2> QED BY <1>1, <2>2 DEF Holds, KeyOf
  <1> QED BY <1>1 DEF Holds, Quiet

LEMMA OneKeyStays ==
  ASSUME TypeOK, Writing, Writing', OneKey, [Next]_vars
  PROVE  OneKey'
  <1>1. CASE Quiet
    BY <1>1, QuietHolds DEF OneKey
  <1>2. ASSUME NEW p \in Procs, Open(p) PROVE OneKey'
    <2>1. PICK f \in Files :
            /\ tmp' = [tmp EXCEPT ![KeyOf(p)] = f]
            /\ open' = [open EXCEPT ![p] = f]
            /\ \A k \in Keys : Holds(k, f) => k = KeyOf(p)
      BY <1>2, OpenFacts
    <2>2. encoder' = encoder /\ entry' = entry /\ KeyOf(p) \in Keys
      BY <1>2, OpenFacts DEF Open
    <2>3. ASSUME NEW k \in Keys, NEW g \in Files, Holds(k, g)'
          PROVE  Holds(k, g) \/ (g = f /\ k = KeyOf(p))
      BY <2>1, <2>2, <2>3 DEF Holds, KeyOf, TypeOK
    <2> QED BY <2>1, <2>3 DEF OneKey
  <1>3. ASSUME NEW p \in Procs, WriteBody(p) \/ WriteDir(p) PROVE OneKey'
    BY <1>3 DEF WriteBody, WriteDir, OneKey, Holds, KeyOf
  <1>4. ASSUME NEW p \in Procs, Rename(p) \/ Drops(p) PROVE OneKey'
    BY <1>4, EndFacts DEF OneKey
  <1> QED BY <1>1, <1>2, <1>3, <1>4, Shapes

LEMMA PartsStay ==
  ASSUME TypeOK, Writing, Writing', OneKey, KeptParts, [Next]_vars
  PROVE  KeptParts'
  <1>1. CASE Quiet
    BY <1>1, QuietHolds DEF KeptParts, Quiet
  <1>2. ASSUME NEW p \in Procs, Open(p) PROVE KeptParts'
    <2>1. PICK f \in Files :
            /\ files' = [files EXCEPT ![f] = NoParts]
            /\ tmp' = [tmp EXCEPT ![KeyOf(p)] = f]
            /\ open' = [open EXCEPT ![p] = f]
      BY <1>2, OpenFacts
    <2>2. encoder' = encoder /\ entry' = entry /\ KeyOf(p) \in Keys
      BY <1>2, OpenFacts DEF Open
    <2> SUFFICES ASSUME NEW g \in Files, NEW k \in Keys, Holds(k, g)'
                 PROVE  files'[g].body \in PartsOf(k) /\ files'[g].dir \in PartsOf(k)
      BY DEF KeptParts
    <2>3. CASE g = f
      <3>1. files'[g] = NoParts
        BY <2>1, <2>3 DEF TypeOK
      <3> QED BY <3>1 DEF NoParts, PartsOf
    <2>4. CASE g # f
      <3>1. Holds(k, g)
        BY <2>1, <2>2, <2>4 DEF Holds, KeyOf, TypeOK
      <3>2. files'[g] = files[g]
        BY <2>1, <2>4 DEF TypeOK
      <3> QED BY <3>1, <3>2 DEF KeptParts
    <2> QED BY <2>3, <2>4
  <1>3. ASSUME NEW p \in Procs, WriteBody(p) \/ WriteDir(p) PROVE KeptParts'
    <2>1. Storing(p) /\ UNCHANGED <<tmp, entry, open, encoder>>
      BY <1>3 DEF WriteBody, WriteDir, At, Storing
    <2>2. open[p] \in Files /\ KeyOf(p) \in Keys /\ Holds(KeyOf(p), open[p]) /\ encoder[p] \in Encoders
      BY <2>1, WriterHolds, WriterKnown
    <2> SUFFICES ASSUME NEW g \in Files, NEW k \in Keys, Holds(k, g)'
                 PROVE  files'[g].body \in PartsOf(k) /\ files'[g].dir \in PartsOf(k)
      BY DEF KeptParts
    <2>3. Holds(k, g)
      BY <2>1 DEF Holds, KeyOf
    <2>4. files[g].body \in PartsOf(k) /\ files[g].dir \in PartsOf(k)
      BY <2>3 DEF KeptParts
    <2>5. CASE g = open[p]
      <3>1. k = KeyOf(p)
        BY <2>2, <2>3, <2>5 DEF OneKey
      <3>2. encoder[p] \in PartsOf(k)
        BY <2>2, <3>1 DEF PartsOf, KeyOf
      <3> QED BY <1>3, <2>4, <2>5, <3>2 DEF WriteBody, WriteDir, TypeOK
    <2>6. CASE g # open[p]
      <3>1. files'[g] = files[g]
        BY <1>3, <2>6 DEF WriteBody, WriteDir, TypeOK
      <3> QED BY <2>4, <3>1
    <2> QED BY <2>5, <2>6
  <1>4. ASSUME NEW p \in Procs, Rename(p) \/ Drops(p) PROVE KeptParts'
    BY <1>4, EndFacts DEF KeptParts
  <1> QED BY <1>1, <1>2, <1>3, <1>4, Shapes

LEMMA IndexStays ==
  ASSUME TypeOK, Writing, KeptParts, IndexOfKey, [Next]_vars
  PROVE  IndexOfKey'
  <1>1. ASSUME NEW p \in Procs, NEW e \in Encoders, Start(p, e) PROVE IndexOfKey'
    BY <1>1 DEF Start, IndexOfKey, KeyOf, TypeOK
  <1>2. ASSUME NEW p \in Procs, Miss(p) \/ ReadFails(p) PROVE IndexOfKey'
    <2>1. encoder[p] \in Encoders
      BY <1>2, WriterKnown DEF Miss, ReadFails, At
    <2> QED BY <1>2, <2>1 DEF Miss, ReadFails, At, IndexOfKey, KeyOf, TypeOK
  <1>3. ASSUME NEW p \in Procs, Hit(p) PROVE IndexOfKey'
    <2>1. KeyOf(p) \in Keys
      BY <1>3, WriterKnown DEF Hit, At
    <2> DEFINE v == files[entry[KeyOf(p)]].body
    <2>2. entry[KeyOf(p)] \in Files /\ Holds(KeyOf(p), entry[KeyOf(p)]) /\ v # None
      BY <1>3, <2>1 DEF Hit, TypeOK, Holds, Whole
    <2>3. v \in Encoders /\ Key(v) = KeyOf(p)
      BY <2>1, <2>2 DEF KeptParts, PartsOf
    <2>4. vectors' = [vectors EXCEPT ![p] = v] /\ encoder' = encoder
          /\ pc' = [pc EXCEPT ![p] = "built"]
      BY <1>3 DEF Hit, At
    <2> HIDE DEF v
    <2> QED BY <2>3, <2>4 DEF IndexOfKey, KeyOf, TypeOK
  <1>4. ASSUME NEW p \in Procs, HitUnreadable(p) PROVE IndexOfKey'
    BY <1>4 DEF HitUnreadable, At, IndexOfKey, KeyOf, TypeOK
  <1>5. ASSUME NEW p \in Procs, Open(p) \/ WriteBody(p) \/ WriteDir(p) \/ Rename(p) \/ StoreFails(p)
        PROVE  IndexOfKey'
    <2>1. /\ pc[p] \in {"open", "body", "dir", "rename"}
          /\ \E s \in {"body", "dir", "rename", "built"} : pc' = [pc EXCEPT ![p] = s]
          /\ encoder' = encoder /\ vectors' = vectors
      BY <1>5 DEF Open, WriteBody, WriteDir, Rename, StoreFails, At
    <2> QED BY <2>1 DEF IndexOfKey, KeyOf, TypeOK
  <1>6. ASSUME NEW p \in Procs, Kill(p) PROVE IndexOfKey'
    BY <1>6 DEF Kill, IndexOfKey, KeyOf, TypeOK
  <1>7. CASE UNCHANGED vars
    BY <1>7 DEF vars, IndexOfKey, KeyOf
  <1> QED BY <1>1, <1>2, <1>3, <1>4, <1>5, <1>6, <1>7 DEF Next, Build, Store, Fault

LEMMA NamesStay ==
  ASSUME TypeOK, Writing, OneKey, NamesDiffer, [Next]_vars
  PROVE  NamesDiffer'
  <1>1. CASE Quiet
    BY <1>1 DEF Quiet, NamesDiffer
  <1>2. ASSUME NEW p \in Procs, Open(p) PROVE NamesDiffer'
    <2>1. PICK f \in Files :
            /\ tmp' = [tmp EXCEPT ![KeyOf(p)] = f]
            /\ tmp[KeyOf(p)] = f \/ ~Exists(f)
      BY <1>2, OpenFacts
    <2>2. KeyOf(p) \in Keys /\ entry' = entry
      BY <1>2, OpenFacts DEF Open
    <2>3. f # entry[KeyOf(p)]
      BY <2>1, <2>2, FilesAssumption DEF NamesDiffer, Exists
    <2> QED BY <2>1, <2>2, <2>3 DEF NamesDiffer, TypeOK
  <1>3. ASSUME NEW p \in Procs, WriteBody(p) \/ WriteDir(p) \/ Drops(p) PROVE NamesDiffer'
    BY <1>3 DEF WriteBody, WriteDir, Drops, StoreFails, Kill, NamesDiffer
  <1>4. ASSUME NEW p \in Procs, Rename(p) PROVE NamesDiffer'
    BY <1>4 DEF Rename, NamesDiffer, TypeOK
  <1> QED BY <1>1, <1>2, <1>3, <1>4, Shapes

-----------------------------------------------------------------------------
(***************************************************************************)
(* Writers that never met.                                                 *)
(***************************************************************************)

LEMMA MeetingsStay ==
  ASSUME TypeOK, Writing, OneKey, MeetingsNoted, [Next]_vars
  PROVE  MeetingsNoted' /\ shared \subseteq shared'
  <1>1. CASE Quiet
    BY <1>1 DEF Quiet, MeetingsNoted, KeyOf
  <1>2. ASSUME NEW p \in Procs, Open(p) PROVE MeetingsNoted' /\ shared \subseteq shared'
    <2>1. /\ encoder' = encoder /\ pc' = [pc EXCEPT ![p] = "body"]
          /\ NotesSharing(p)
      BY <1>2 DEF Open, At
    <2>2. \A q \in Procs : KeyOf(q)' = KeyOf(q) /\ (q # p => Storing(q)' = Storing(q))
      BY <2>1 DEF KeyOf, Storing, TypeOK
    <2>3. shared \subseteq shared'
      BY <2>1 DEF NotesSharing
    <2>4. \A q \in Procs : q # p /\ Storing(q) /\ KeyOf(q) = KeyOf(p) => KeyOf(p) \in shared'
      BY <2>1 DEF NotesSharing
    <2> QED BY <2>2, <2>3, <2>4 DEF MeetingsNoted
  <1>3. ASSUME NEW p \in Procs, WriteBody(p) \/ WriteDir(p)
        PROVE  MeetingsNoted' /\ shared \subseteq shared'
    <2>1. /\ pc[p] \in {"body", "dir"} /\ \E s \in {"dir", "rename"} : pc' = [pc EXCEPT ![p] = s]
          /\ encoder' = encoder /\ shared' = shared
      BY <1>3 DEF WriteBody, WriteDir, At
    <2>2. \A q \in Procs : KeyOf(q)' = KeyOf(q) /\ Storing(q)' = Storing(q)
      BY <2>1 DEF KeyOf, Storing, TypeOK
    <2> QED BY <2>1, <2>2 DEF MeetingsNoted
  <1>4. ASSUME NEW p \in Procs, Rename(p) \/ Drops(p)
        PROVE  MeetingsNoted' /\ shared \subseteq shared'
    BY <1>4, EndFacts DEF MeetingsNoted, KeyOf
  <1> QED BY <1>1, <1>2, <1>3, <1>4, Shapes

LEMMA AloneStays ==
  ASSUME TypeOK, Writing, OneKey, MeetingsNoted, Alone, [Next]_vars
  PROVE  Alone'
  <1>1. CASE Quiet
    BY <1>1 DEF Quiet, Alone, AloneAt, KeyOf, Whole
  <1>2. ASSUME NEW p \in Procs, Open(p) PROVE Alone'
    <2>1. PICK f \in Files :
            /\ files' = [files EXCEPT ![f] = NoParts]
            /\ tmp' = [tmp EXCEPT ![KeyOf(p)] = f]
            /\ open' = [open EXCEPT ![p] = f]
            /\ \A k \in Keys : Holds(k, f) => k = KeyOf(p)
      BY <1>2, OpenFacts
    <2>2. encoder' = encoder /\ KeyOf(p) \in Keys /\ pc' = [pc EXCEPT ![p] = "body"]
          /\ NotesSharing(p)
      BY <1>2, OpenFacts DEF Open, At
    <2> SUFFICES ASSUME NEW q \in Procs, Storing(q)', KeyOf(q) \notin shared'
                 PROVE  AloneAt(q)'
      BY <2>2 DEF Alone, KeyOf
    <2>3. CASE q = p
      <3>1. tmp'[KeyOf(p)] = open'[p] /\ pc'[p] = "body"
        BY <2>1, <2>2 DEF TypeOK
      <3> QED BY <2>2, <2>3, <3>1 DEF AloneAt, KeyOf
    <2>4. CASE q # p
      <3>1. Storing(q) /\ pc'[q] = pc[q] /\ open'[q] = open[q]
        BY <2>1, <2>2, <2>4 DEF Storing, TypeOK
      <3>2. KeyOf(q) # KeyOf(p) /\ KeyOf(q) \notin shared
        BY <2>2, <2>4, <3>1 DEF NotesSharing
      <3>3. open[q] \in Files /\ KeyOf(q) \in Keys /\ Holds(KeyOf(q), open[q])
        BY <3>1, WriterHolds
      <3>4. open[q] # f
        BY <2>1, <3>2, <3>3
      <3>5. files'[open[q]] = files[open[q]] /\ tmp'[KeyOf(q)] = tmp[KeyOf(q)]
        BY <2>1, <3>2, <3>3, <3>4 DEF TypeOK
      <3>6. AloneAt(q)
        BY <3>1, <3>2 DEF Alone
      <3> QED BY <2>2, <3>1, <3>5, <3>6 DEF AloneAt, KeyOf, Whole
    <2> QED BY <2>3, <2>4
  <1>3. ASSUME NEW p \in Procs, WriteBody(p) \/ WriteDir(p) PROVE Alone'
    <2>1. /\ UNCHANGED <<tmp, open, encoder, shared>>
          /\ Storing(p)
          /\ \/ pc[p] = "body" /\ pc' = [pc EXCEPT ![p] = "dir"]
                /\ files' = [files EXCEPT ![open[p]].body = encoder[p]]
             \/ pc[p] = "dir" /\ pc' = [pc EXCEPT ![p] = "rename"]
                /\ files' = [files EXCEPT ![open[p]].dir = encoder[p]]
      BY <1>3 DEF WriteBody, WriteDir, At, Storing
    <2>2. open[p] \in Files /\ KeyOf(p) \in Keys /\ Holds(KeyOf(p), open[p]) /\ encoder[p] \in Encoders
      BY <2>1, WriterHolds, WriterKnown
    <2>3. files[open[p]] \in [body: Encoders \cup {None}, dir: Encoders \cup {None}]
      BY <2>2 DEF TypeOK
    <2> SUFFICES ASSUME NEW q \in Procs, Storing(q)', KeyOf(q) \notin shared
                 PROVE  AloneAt(q)'
      BY <2>1 DEF Alone, KeyOf
    <2>4. CASE q = p
      <3>1. AloneAt(p)
        BY <2>1, <2>4 DEF Alone
      <3>2. CASE pc[p] = "body"
        <4>1. pc'[p] = "dir" /\ files'[open[p]].body = encoder[p]
          BY <2>1, <2>2, <2>3, <3>2 DEF TypeOK
        <4> QED BY <2>1, <2>4, <3>1, <4>1 DEF AloneAt, KeyOf
      <3>3. CASE pc[p] = "dir"
        <4>1. pc'[p] = "rename" /\ files'[open[p]].dir = encoder[p]
              /\ files'[open[p]].body = encoder[p]
          BY <2>1, <2>2, <2>3, <3>1, <3>3 DEF TypeOK, AloneAt
        <4>2. encoder[p] # None
          BY <2>2, CacheAssumption
        <4> QED BY <2>1, <2>4, <3>1, <4>1, <4>2 DEF AloneAt, KeyOf, Whole
      <3> QED BY <2>1, <3>2, <3>3
    <2>5. CASE q # p
      <3>1. Storing(q) /\ pc'[q] = pc[q]
        BY <2>1, <2>5 DEF Storing, TypeOK
      <3>2. open[q] \in Files /\ KeyOf(q) \in Keys /\ Holds(KeyOf(q), open[q])
        BY <3>1, WriterHolds
      <3>3. open[q] # open[p]
        <4>1. KeyOf(q) # KeyOf(p)
          BY <2>1, <2>5, <3>1 DEF MeetingsNoted
        <4> QED BY <2>2, <3>2, <4>1 DEF OneKey
      <3>4. files'[open[q]] = files[open[q]]
        BY <2>1, <3>2, <3>3 DEF TypeOK
      <3>5. AloneAt(q)
        BY <3>1 DEF Alone
      <3> QED BY <2>1, <3>1, <3>4, <3>5 DEF AloneAt, KeyOf, Whole
    <2> QED BY <2>4, <2>5
  <1>4. ASSUME NEW p \in Procs, Rename(p) \/ Drops(p) PROVE Alone'
    <2> SUFFICES ASSUME NEW q \in Procs, Storing(q)', KeyOf(q)' \notin shared'
                 PROVE  AloneAt(q)'
      BY DEF Alone
    <2>1. /\ q # p /\ Storing(q) /\ encoder'[q] = encoder[q] /\ open'[q] = open[q]
          /\ pc'[q] = pc[q] /\ shared' = shared /\ KeyOf(p) \in Keys
      BY <1>4, EndFacts
    <2>2. KeyOf(q)' = KeyOf(q)
      BY <2>1 DEF KeyOf
    <2>3. open[q] \in Files /\ KeyOf(q) \in Keys
      BY <2>1, WriterHolds
    <2>4. files'[open[q]] = files[open[q]]
      <3>1. \A k \in Keys, f \in Files : k = KeyOf(q) /\ f = open[q] => Holds(k, f)'
        BY <2>1, <2>2 DEF Holds
      <3> QED BY <1>4, <2>3, <3>1, EndFacts
    <2>5. tmp'[KeyOf(q)] = tmp[KeyOf(q)]
      <3>1. CASE Rename(p)
        <4>1. Storing(p)
          BY <3>1 DEF Rename, At, Storing
        <4>2. KeyOf(q) # KeyOf(p)
          BY <2>1, <2>2, <4>1 DEF MeetingsNoted
        <4> QED BY <3>1, <2>1, <2>3, <4>2 DEF Rename, TypeOK
      <3>2. CASE Drops(p)
        BY <3>2 DEF Drops, StoreFails, Kill
      <3> QED BY <1>4, <3>1, <3>2
    <2>6. AloneAt(q)
      BY <2>1, <2>2 DEF Alone
    <2> QED BY <2>1, <2>2, <2>4, <2>5, <2>6 DEF AloneAt, Whole
  <1> QED BY <1>1, <1>2, <1>3, <1>4, Shapes

\* An entry of a key whose writers never met stays whole: a writer has its
\* hands on the temporary file, which becomes the entry once it is whole.
LEMMA EntriesStay ==
  ASSUME TypeOK, Writing, OneKey, NamesDiffer, MeetingsNoted, Alone,
         UnreadableOnlyWhenShared, [Next]_vars
  PROVE  UnreadableOnlyWhenShared'
  <1> SUFFICES ASSUME NEW k \in Keys, k \notin shared', entry'[k] # None
               PROVE  Whole(entry[k])'
    BY DEF UnreadableOnlyWhenShared, Unreadable
  <1>1. k \notin shared
    BY MeetingsStay
  <1>2. entry[k] # None => Whole(entry[k]) /\ entry[k] \in Files
    BY <1>1 DEF UnreadableOnlyWhenShared, Unreadable, TypeOK
  <1>3. ASSUME entry'[k] = entry[k], files'[entry[k]] = files[entry[k]]
        PROVE  Whole(entry[k])'
    BY <1>2, <1>3 DEF Whole
  <1>4. CASE Quiet
    BY <1>3, <1>4 DEF Quiet
  <1>5. ASSUME NEW p \in Procs, Open(p) PROVE Whole(entry[k])'
    <2>1. PICK f \in Files :
            /\ files' = [files EXCEPT ![f] = NoParts]
            /\ tmp[KeyOf(p)] = f \/ ~Exists(f)
            /\ \A l \in Keys : Holds(l, f) => l = KeyOf(p)
      BY <1>5, OpenFacts
    <2>2. entry' = entry
      BY <1>5 DEF Open
    <2>3. entry[k] # f
      <3>1. CASE ~Exists(f)
        BY <3>1 DEF Exists
      <3>2. CASE tmp[KeyOf(p)] = f
        <4>1. ASSUME entry[k] = f PROVE FALSE
          <5>1. k = KeyOf(p)
            BY <2>1, <4>1 DEF Holds
          <5> QED BY <3>2, <4>1, <5>1, FilesAssumption DEF NamesDiffer
        <4> QED BY <4>1
      <3> QED BY <2>1, <3>1, <3>2
    <2>4. files'[entry[k]] = files[entry[k]]
      BY <1>2, <2>1, <2>2, <2>3 DEF TypeOK
    <2> QED BY <1>3, <2>2, <2>4
  <1>6. ASSUME NEW p \in Procs, WriteBody(p) \/ WriteDir(p) PROVE Whole(entry[k])'
    <2>1. Storing(p) /\ entry' = entry
      BY <1>6 DEF WriteBody, WriteDir, At, Storing
    <2>2. open[p] \in Files /\ KeyOf(p) \in Keys /\ Holds(KeyOf(p), open[p])
      BY <2>1, WriterHolds
    <2>3. entry[k] # open[p]
      <3>1. ASSUME entry[k] = open[p] PROVE FALSE
        <4>1. Holds(k, open[p])
          BY <3>1 DEF Holds
        <4>2. k = KeyOf(p)
          BY <2>2, <4>1 DEF OneKey
        <4>3. tmp[k] = open[p]
          BY <1>1, <2>1, <4>2 DEF Alone, AloneAt
        <4> QED BY <2>2, <3>1, <4>3, FilesAssumption DEF NamesDiffer
      <3> QED BY <3>1
    <2>4. files'[entry[k]] = files[entry[k]]
      BY <1>2, <1>6, <2>1, <2>3 DEF WriteBody, WriteDir, TypeOK
    <2> QED BY <1>3, <2>1, <2>4
  <1>7. ASSUME NEW p \in Procs, Rename(p) \/ Drops(p) PROVE Whole(entry[k])'
    <2>1. entry'[k] \in Files
      BY TypesStay DEF TypeOK
    <2>2. files'[entry'[k]] = files[entry'[k]]
      <3>1. \A f \in Files : f = entry'[k] => Holds(k, f)'
        BY DEF Holds
      <3> QED BY <1>7, <2>1, <3>1, EndFacts
    <2>3. CASE entry'[k] = entry[k]
      BY <1>3, <2>2, <2>3
    <2>4. CASE entry'[k] # entry[k]
      <3>1. Rename(p) /\ Storing(p) /\ pc[p] = "rename" /\ KeyOf(p) \in Keys
        BY <1>7, <2>4, EndFacts DEF Rename, Drops, StoreFails, Kill, At, Storing
      <3>2. k = KeyOf(p) /\ entry'[k] = tmp[k]
        BY <2>4, <3>1 DEF Rename, TypeOK
      <3>3. tmp[k] = open[p] /\ Whole(open[p])
        BY <1>1, <3>1, <3>2 DEF Alone, AloneAt
      <3> QED BY <2>2, <3>2, <3>3 DEF Whole
    <2> QED BY <2>3, <2>4
  <1> QED BY <1>4, <1>5, <1>6, <1>7, Shapes

-----------------------------------------------------------------------------
(***************************************************************************)
(* The theorems.                                                           *)
(***************************************************************************)

LEMMA InitIInv == Init => IInv
  <1> SUFFICES ASSUME Init PROVE IInv
    OBVIOUS
  <1>1. TypeOK
    BY CacheAssumption DEF Init, TypeOK, NoParts
  <1>2. Writing /\ IndexOfKey /\ MeetingsNoted /\ Alone
    BY DEF Init, Writing, IndexOfKey, MeetingsNoted, Alone, Storing
  <1>3. NamesDiffer /\ UnreadableOnlyWhenShared
    BY DEF Init, NamesDiffer, UnreadableOnlyWhenShared, Unreadable
  <1>4. \A k \in Keys, f \in Files : ~Holds(k, f)
    BY FilesAssumption DEF Init, Holds
  <1>5. OneKey /\ KeptParts
    BY <1>4 DEF OneKey, KeptParts
  <1> QED BY <1>1, <1>2, <1>3, <1>5 DEF IInv

LEMMA StepIInv == IInv /\ [Next]_vars => IInv'
  <1> SUFFICES ASSUME IInv, [Next]_vars PROVE IInv'
    OBVIOUS
  <1> USE DEF IInv
  <1>1. TypeOK' /\ Writing'
    BY TypesStay, WritingStays
  <1>2. OneKey' /\ KeptParts' /\ IndexOfKey' /\ NamesDiffer'
    BY <1>1, OneKeyStays, PartsStay, IndexStays, NamesStay
  <1>3. MeetingsNoted' /\ Alone' /\ UnreadableOnlyWhenShared'
    BY MeetingsStay, AloneStays, EntriesStay
  <1> QED BY <1>1, <1>2, <1>3

LEMMA AlwaysIInv == Spec => []IInv
  BY InitIInv, StepIInv, PTL DEF Spec

\* The variables keep their types.
THEOREM CacheTypeOK == Spec => []TypeOK
  <1>1. IInv => TypeOK
    BY DEF IInv
  <1> QED BY <1>1, AlwaysIInv, PTL

\* EmbeddingCache.store: an entry load cannot read comes only of two processes
\* that stored its key at the same time, never of one that was killed.
THEOREM CacheUnreadableOnlyWhenShared == Spec => []UnreadableOnlyWhenShared
  <1>1. IInv => UnreadableOnlyWhenShared
    BY DEF IInv
  <1> QED BY <1>1, AlwaysIInv, PTL

\* DenseIndex.build: an index has the vectors of the encoder its run asked
\* for, wherever the encoder describes itself completely.
THEOREM CacheVectorsAreOfEncoder == Spec => []VectorsAreOfEncoder
  <1>1. ASSUME IInv, NEW p \in Procs, pc[p] = "built", encoder[p] \notin Unlabelled
        PROVE  vectors[p] = encoder[p]
    <2>1. encoder[p] \in Encoders /\ vectors[p] \in Encoders /\ Key(vectors[p]) = Key(encoder[p])
      BY <1>1 DEF IInv, Writing, IndexOfKey, KeyOf
    <2>2. vectors[p].model = encoder[p].model
      BY <2>1 DEF Key
    <2>3. vectors[p] \notin Unlabelled
      BY <1>1, <2>1, <2>2, UnlabelledAssumption
    <2>4. vectors[p].prefix = encoder[p].prefix
      BY <1>1, <2>1, <2>3 DEF Key
    <2>5. /\ vectors[p] = [model |-> vectors[p].model, prefix |-> vectors[p].prefix]
          /\ encoder[p] = [model |-> encoder[p].model, prefix |-> encoder[p].prefix]
      BY <2>1, CacheAssumption
    <2> QED BY <2>2, <2>4, <2>5
  <1>2. IInv => VectorsAreOfEncoder
    BY <1>1 DEF VectorsAreOfEncoder
  <1> QED BY <1>2, AlwaysIInv, PTL

-----------------------------------------------------------------------------
(* Retrieval: numbers, recursive functions and sorted lists. *)

(* A nonempty set of numbers up to n has a least element, and Min is it. *)
LEMMA MinIsLeast ==
  ASSUME NEW n \in Nat, NEW S \in SUBSET (0..n), S # {}
  PROVE  Min(S) \in S /\ \A j \in S : Min(S) <= j
<1> DEFINE Heads == {0..i : i \in S}
<1>1. /\ Heads \subseteq FiniteSubsetsOf(0..n)
      /\ Heads # {}
  <2>1. IsFiniteSet(0..n)
    BY FS_Interval
  <2>2. FiniteSubsetsOf(0..n) = SUBSET (0..n)
    BY <2>1, FS_FiniteSubsetsOfFinite
  <2>3. Heads \subseteq SUBSET (0..n)
    <3> SUFFICES ASSUME NEW i \in S PROVE 0..i \subseteq 0..n
      BY Zenon
    <3> QED OBVIOUS
  <2>4. Heads # {}
    BY Zenon
  <2> QED
    BY <2>2, <2>3, <2>4, Zenon
<1>2. IsWellFoundedOn(StrictSubsetOrdering(0..n), FiniteSubsetsOf(0..n))
  BY FS_StrictSubsetOrderingWellFounded
<1>3. PICK t \in Heads : \A u \in Heads : ~(<<u, t>> \in StrictSubsetOrdering(0..n))
  <2> HIDE DEF Heads
  <2> QED BY <1>1, <1>2, WFMin, Zenon
<1>4. PICK i \in S : t = 0..i
  OBVIOUS
<1>5. \A j \in S : i <= j
  <2> SUFFICES ASSUME NEW j \in S, ~(i <= j) PROVE FALSE
    OBVIOUS
  <2>1. 0..j \in Heads
    OBVIOUS
  <2>2. 0..j \subseteq 0..i /\ 0..j # 0..i
    OBVIOUS
  <2>3. <<0..j, 0..i>> \in StrictSubsetOrdering(0..n)
    BY <2>2 DEF StrictSubsetOrdering
  <2> QED
    BY <2>1, <2>3, <1>3, <1>4
<1> QED
  BY <1>5 DEF Min

(* A set of numbers up to n that has 0, and with each number the next, has *)
(* them all: induction without an operator. *)
LEMMA ClimbsToAll ==
  ASSUME NEW n \in Nat, NEW S \in SUBSET (0..n), 0 \in S,
         \A i \in 0..(n - 1) : i \in S => i + 1 \in S
  PROVE  S = 0..n
<1> DEFINE Missing == (0..n) \ S
<1> SUFFICES ASSUME Missing # {} PROVE FALSE
  OBVIOUS
<1>1. Min(Missing) \in Missing /\ \A j \in Missing : Min(Missing) <= j
  BY MinIsLeast
<1> HIDE DEF Missing
<1>2. PICK m \in Missing : \A j \in Missing : m <= j
  BY <1>1
<1>3. m \in 1..n /\ m \notin S
  BY <1>2 DEF Missing
<1>4. m - 1 \in S
  BY <1>2, <1>3 DEF Missing
<1> QED
  BY <1>3, <1>4

(* A function can be defined by its first value and a step. *)
IsRecursion(f, n, T, a, g) ==
  f \in [0..n -> T] /\ f[0] = a /\ \A i \in 1..n : f[i] = g[<<i, f[i - 1]>>]

LEMMA RecursionExists ==
  ASSUME NEW n \in Nat, NEW T, NEW a \in T, NEW g \in [(1..n) \X T -> T]
  PROVE  \E f : IsRecursion(f, n, T, a, g)
<1> DEFINE Up(k) == \E f : IsRecursion(f, k, T, a, g)
           S == {k \in 0..n : Up(k)}
<1>1. 0 \in S
  <2>1. [i \in 0..0 |-> a] \in [0..0 -> T]
    OBVIOUS
  <2>2. IsRecursion([i \in 0..0 |-> a], 0, T, a, g)
    BY <2>1 DEF IsRecursion
  <2>3. Up(0)
    BY <2>2
  <2> QED
    BY <2>3
<1>2. ASSUME NEW k \in 0..(n - 1), k \in S
      PROVE  k + 1 \in S
  <2>1. PICK f : IsRecursion(f, k, T, a, g)
    BY <1>2
  <2> DEFINE h == [i \in 0..(k + 1) |-> IF i = k + 1 THEN g[<<k + 1, f[k]>>] ELSE f[i]]
  <2>2. f[k] \in T /\ g[<<k + 1, f[k]>>] \in T
    BY <2>1 DEF IsRecursion
  <2>3. h \in [0..(k + 1) -> T]
    BY <2>1, <2>2 DEF IsRecursion
  <2>4. h[0] = a
    BY <2>1 DEF IsRecursion
  <2>5. ASSUME NEW i \in 1..(k + 1) PROVE h[i] = g[<<i, h[i - 1]>>]
    <3>1. h[i - 1] = f[i - 1]
      OBVIOUS
    <3>2. CASE i = k + 1
      <4>1. i - 1 = k /\ h[i] = g[<<k + 1, f[k]>>]
        BY <3>2
      <4> QED
        BY <4>1, <3>1, <3>2
    <3>3. CASE i \in 1..k
      <4>1. h[i] = f[i]
        BY <3>3
      <4> QED
        BY <4>1, <3>1, <3>3, <2>1 DEF IsRecursion
    <3> QED
      BY <3>2, <3>3
  <2>6. Up(k + 1)
    <3> HIDE DEF h
    <3> QED BY <2>3, <2>4, <2>5 DEF IsRecursion
  <2> QED
    BY <2>6
<1> HIDE DEF Up
<1>3. S = 0..n
  BY <1>1, <1>2, ClimbsToAll
<1>4. Up(n)
  BY <1>3
<1> QED
  BY <1>4 DEF Up

LEMMA WithinUnfolds ==
  ASSUME MaxDepth \in Nat, Seeds \in SUBSET Nodes,
         \A S \in SUBSET Nodes : Step(S) \in SUBSET Nodes
  PROVE  /\ Within \in [0..MaxDepth -> SUBSET Nodes]
         /\ Within[0] = Seeds
         /\ \A d \in 1..MaxDepth : Within[d] = Within[d - 1] \cup Step(Within[d - 1])
<1> DEFINE g == [p \in (1..MaxDepth) \X SUBSET Nodes |-> p[2] \cup Step(p[2])]
<1>1. g \in [(1..MaxDepth) \X SUBSET Nodes -> SUBSET Nodes]
  OBVIOUS
<1>2. PICK w : IsRecursion(w, MaxDepth, SUBSET Nodes, Seeds, g)
  <2> HIDE DEF g
  <2> QED BY <1>1, RecursionExists
<1>3. w \in [0..MaxDepth -> SUBSET Nodes] /\ w[0] = Seeds
  BY <1>2 DEF IsRecursion
<1>4. ASSUME NEW i \in 1..MaxDepth PROVE w[i] = w[i - 1] \cup Step(w[i - 1])
  <2>1. w[i - 1] \in SUBSET Nodes
    BY <1>3
  <2>2. w[i] = g[<<i, w[i - 1]>>]
    BY <1>2 DEF IsRecursion
  <2>3. g[<<i, w[i - 1]>>] = w[i - 1] \cup Step(w[i - 1])
    BY <2>1
  <2> QED
    BY <2>2, <2>3
<1> HIDE DEF g
<1>5. w = [d \in 0..MaxDepth |-> IF d = 0 THEN Seeds ELSE w[d - 1] \cup Step(w[d - 1])]
  BY <1>3, <1>4
<1>6. Within = [d \in 0..MaxDepth |-> IF d = 0 THEN Seeds ELSE Within[d - 1] \cup Step(Within[d - 1])]
  BY <1>5 DEF Within
<1> DEFINE F == [d \in 0..MaxDepth |-> IF d = 0 THEN Seeds ELSE Within[d - 1] \cup Step(Within[d - 1])]
<1>7. DOMAIN Within = 0..MaxDepth /\ Within[0] = Seeds
  BY <1>6
<1>8. ASSUME NEW d \in 1..MaxDepth PROVE Within[d] = Within[d - 1] \cup Step(Within[d - 1])
  <2>1. F[d] = Within[d - 1] \cup Step(Within[d - 1])
    OBVIOUS
  <2> HIDE DEF F
  <2>2. Within = F
    BY <1>6 DEF F
  <2> QED
    BY <2>1, <2>2
<1> DEFINE Good == {d \in 0..MaxDepth : Within[d] \in SUBSET Nodes}
<1>9. Good = 0..MaxDepth
  <2>1. 0 \in Good
    BY <1>7
  <2>2. ASSUME NEW d \in 0..(MaxDepth - 1), d \in Good PROVE d + 1 \in Good
    <3>1. Within[d + 1] = Within[d] \cup Step(Within[d])
      BY <1>8
    <3> QED
      BY <2>2, <3>1
  <2>3. Good \in SUBSET (0..MaxDepth) /\ MaxDepth \in Nat
    OBVIOUS
  <2> HIDE DEF Good
  <2> QED
    BY <2>1, <2>2, <2>3, ClimbsToAll
<1>10. Within \in [0..MaxDepth -> SUBSET Nodes]
  BY <1>6, <1>9
<1> QED
  BY <1>7, <1>8, <1>10

(* A strict total order, as a set of pairs. *)
IsOrder(R, S) ==
  /\ \A x \in S : <<x, x>> \notin R
  /\ \A x, y \in S : x # y => <<x, y>> \in R \/ <<y, x>> \in R
  /\ \A x, y, z \in S : <<x, y>> \in R /\ <<y, z>> \in R => <<x, z>> \in R

(* Sorted lists each element once, in the order. *)
LEMMA SortedLists ==
  ASSUME NEW S, IsFiniteSet(S), NEW R, IsOrder(R, S)
  PROVE  /\ Sorted(S, R) \in [1..Cardinality(S) -> S]
         /\ IsInjective(Sorted(S, R))
         /\ Range(Sorted(S, R)) = S
         /\ \A i, j \in 1..Cardinality(S) : i < j <=> <<Sorted(S, R)[i], Sorted(S, R)[j]>> \in R
<1> DEFINE n == Cardinality(S)
           Below(x) == {y \in S : <<y, x>> \in R}
           place == [x \in S |-> Cardinality(Below(x))]
           s == Sorted(S, R)
<1>1. n \in Nat
  BY FS_CardinalityType
<1>2. ASSUME NEW x \in S PROVE IsFiniteSet(Below(x)) /\ place[x] \in 0..(n - 1)
  <2>1. Below(x) \in SUBSET S /\ Below(x) # S
    BY DEF IsOrder
  <2> HIDE DEF Below
  <2>2. IsFiniteSet(Below(x)) /\ Cardinality(Below(x)) <= n /\ Cardinality(Below(x)) # n
    BY <2>1, FS_Subset
  <2>3. Cardinality(Below(x)) \in Nat
    BY <2>2, FS_CardinalityType
  <2> QED
    BY <1>1, <2>2, <2>3
<1>3. ASSUME NEW x \in S, NEW y \in S, <<x, y>> \in R PROVE place[x] < place[y]
  <2>1. Below(x) \in SUBSET Below(y)
    BY <1>3 DEF IsOrder
  <2>2. x \in Below(y) /\ x \notin Below(x)
    BY <1>3 DEF IsOrder
  <2>3. IsFiniteSet(Below(y)) /\ place[x] \in Int /\ place[y] \in Int
    <3>1. IsFiniteSet(Below(y)) /\ place[x] \in 0..(n - 1) /\ place[y] \in 0..(n - 1)
      BY <1>2, Zenon
    <3> HIDE DEF n, place, Below
    <3> QED
      BY <3>1, <1>1
  <2>4. place[x] = Cardinality(Below(x)) /\ place[y] = Cardinality(Below(y))
    OBVIOUS
  <2> HIDE DEF Below, place
  <2>5. Cardinality(Below(x)) <= Cardinality(Below(y)) /\ Cardinality(Below(y)) # Cardinality(Below(x))
    BY <2>1, <2>2, <2>3, FS_Subset
  <2> QED
    BY <2>3, <2>4, <2>5
<1> HIDE DEF place, Below
<1>4. ASSUME NEW x \in S, NEW y \in S, place[x] = place[y] PROVE x = y
  <2>1. place[x] \in Int /\ place[y] \in Int
    BY <1>1, <1>2
  <2>2. <<x, y>> \notin R /\ <<y, x>> \notin R
    BY <1>3, <1>4, <2>1
  <2> QED
    BY <2>2 DEF IsOrder
<1>5. DOMAIN place = S /\ place \in [S -> 0..(n - 1)]
  BY <1>2 DEF place
<1>6. place \in Injection(S, 0..(n - 1))
  BY <1>4, <1>5 DEF Injection, IsInjective
<1>7. IsFiniteSet(0..(n - 1)) /\ Cardinality(0..(n - 1)) = n
  BY <1>1, FS_Interval
<1>8. place \in Surjection(S, 0..(n - 1))
  BY <1>6, <1>7, FS_Injection
<1>9. \A r \in 1..n : \E x \in S : place[x] = r - 1
  <2> SUFFICES ASSUME NEW r \in 1..n PROVE \E x \in S : place[x] = r - 1
    OBVIOUS
  <2>1. r - 1 \in 0..(n - 1)
    BY <1>1
  <2> QED
    BY <2>1, <1>8 DEF Surjection
<1>10. ASSUME NEW r \in 1..n PROVE s[r] \in S /\ place[s[r]] = r - 1
  <2>1. s[r] = CHOOSE x \in S : Cardinality({y \in S : <<y, x>> \in R}) = r - 1
    BY DEF Sorted
  <2>2. \E x \in S : Cardinality({y \in S : <<y, x>> \in R}) = r - 1
    BY <1>9 DEF place, Below
  <2> QED
    BY <2>1, <2>2 DEF place, Below
<1>11. DOMAIN s = 1..n
  BY DEF Sorted
<1>12. s \in [1..n -> S]
  BY <1>10 DEF Sorted
<1> HIDE DEF s
<1>13. ASSUME NEW i \in 1..n, NEW j \in 1..n, s[i] = s[j] PROVE i = j
  BY <1>10, <1>13
<1>14. ASSUME NEW x \in S PROVE \E i \in 1..n : s[i] = x
  <2>1. place[x] \in 0..(n - 1)
    BY <1>5
  <2>2. place[x] + 1 \in 1..n
    BY <1>1, <2>1
  <2>3. s[place[x] + 1] \in S /\ place[s[place[x] + 1]] = place[x]
    BY <1>10, <2>1, <2>2
  <2> QED
    BY <1>4, <2>2, <2>3
<1>15. ASSUME NEW i \in 1..n, NEW j \in 1..n PROVE i < j <=> <<s[i], s[j]>> \in R
  <2>1. s[i] \in S /\ s[j] \in S /\ place[s[i]] = i - 1 /\ place[s[j]] = j - 1
    BY <1>10
  <2>2. ASSUME i < j PROVE <<s[i], s[j]>> \in R
    <3>1. s[i] # s[j]
      BY <1>13, <2>2
    <3>2. CASE <<s[j], s[i]>> \in R
      BY <1>3, <2>1, <2>2, <3>2
    <3> QED
      BY <2>1, <3>1, <3>2 DEF IsOrder
  <2>3. ASSUME <<s[i], s[j]>> \in R PROVE i < j
    BY <1>3, <2>1, <2>3
  <2> QED
    BY <2>2, <2>3
<1>16. IsInjective(s) /\ Range(s) = S
  BY <1>11, <1>12, <1>13, <1>14 DEF IsInjective, Range
<1> QED
  BY <1>12, <1>15, <1>16 DEF s

(* Lexicographic order of keys of four numbers. *)
Quads == Int \X Int \X Int \X Int

Ahead(k, m) ==
  \/ k[1] < m[1]
  \/ k[1] = m[1] /\ k[2] < m[2]
  \/ k[1] = m[1] /\ k[2] = m[2] /\ k[3] < m[3]
  \/ k[1] = m[1] /\ k[2] = m[2] /\ k[3] = m[3] /\ k[4] < m[4]

LEMMA PrecedesIsAhead ==
  ASSUME NEW k \in Quads, NEW m \in Quads
  PROVE  Precedes(k, m) <=> Ahead(k, m)
<1>1. DOMAIN k = {1, 2, 3, 4}
  BY DEF Quads
<1>2. /\ 1..(1 - 1) = {} /\ 1..(2 - 1) = {1} /\ 1..(3 - 1) = {1, 2} /\ 1..(4 - 1) = {1, 2, 3}
  OBVIOUS
<1> DEFINE FirstAt(i) == k[i] < m[i] /\ \A j \in 1..(i - 1) : k[j] = m[j]
<1>3. Precedes(k, m) <=> FirstAt(1) \/ FirstAt(2) \/ FirstAt(3) \/ FirstAt(4)
  <2> HIDE DEF FirstAt
  <2>1. Precedes(k, m) <=> \E i \in {1, 2, 3, 4} : FirstAt(i)
    BY <1>1 DEF Precedes, FirstAt
  <2> QED
    BY <2>1
<1>4. /\ FirstAt(1) <=> k[1] < m[1]
      /\ FirstAt(2) <=> k[2] < m[2] /\ k[1] = m[1]
      /\ FirstAt(3) <=> k[3] < m[3] /\ k[1] = m[1] /\ k[2] = m[2]
      /\ FirstAt(4) <=> k[4] < m[4] /\ k[1] = m[1] /\ k[2] = m[2] /\ k[3] = m[3]
  BY <1>2
<1> HIDE DEF FirstAt
<1> QED
  BY <1>3, <1>4 DEF Ahead

(* Keys whose last number is the element itself order the elements. *)
LEMMA KeysOrder ==
  ASSUME NEW S \in SUBSET Int, NEW key \in [S -> Quads], \A x \in S : key[x][4] = x
  PROVE  IsOrder(ByKey(S, key), S)
<1> DEFINE R == ByKey(S, key)
<1>1. ASSUME NEW x \in S, NEW y \in S PROVE <<x, y>> \in R <=> Ahead(key[x], key[y])
  <2>1. <<x, y>> \in R <=> Precedes(key[x], key[y])
    BY DEF ByKey
  <2> QED
    BY <2>1, PrecedesIsAhead
<1>2. ASSUME NEW x \in S PROVE key[x][1] \in Int /\ key[x][2] \in Int /\ key[x][3] \in Int /\ key[x][4] = x
  BY DEF Quads
<1> HIDE DEF R
<1>3. \A x \in S : <<x, x>> \notin R
  BY <1>1, <1>2 DEF Ahead
<1>4. ASSUME NEW x \in S, NEW y \in S, x # y PROVE <<x, y>> \in R \/ <<y, x>> \in R
  BY <1>1, <1>2, <1>4 DEF Ahead
<1>5. ASSUME NEW x \in S, NEW y \in S, NEW z \in S, <<x, y>> \in R, <<y, z>> \in R
      PROVE  <<x, z>> \in R
  <2>1. Ahead(key[x], key[y]) /\ Ahead(key[y], key[z])
    BY <1>1, <1>5
  <2>2. Ahead(key[x], key[z])
    BY <2>1, <1>2 DEF Ahead
  <2> QED
    BY <2>2, <1>1
<1> QED
  BY <1>3, <1>4, <1>5 DEF IsOrder, R

(* A set of functions listed by such keys is a ranked list of them. *)
LEMMA SortedByKeyRanks ==
  ASSUME N \in Nat, NEW S \in SUBSET Nodes, NEW key \in [S -> Quads], \A x \in S : key[x][4] = x
  PROVE  /\ Sorted(S, ByKey(S, key)) \in RankedItems
         /\ Range(Sorted(S, ByKey(S, key))) = S
         /\ \A x, y \in S : Before(Sorted(S, ByKey(S, key)), x, y) <=> Ahead(key[x], key[y])
<1> DEFINE R == ByKey(S, key)
           s == Sorted(S, R)
<1>1. IsFiniteSet(S) /\ S \in SUBSET Int
  <2>1. IsFiniteSet(1..N) /\ S \in SUBSET (1..N)
    BY FS_Interval DEF Nodes
  <2>2. IsFiniteSet(S)
    BY <2>1, FS_Subset
  <2> QED
    BY <2>1, <2>2
<1>2. IsOrder(R, S)
  BY <1>1, KeysOrder
<1>3. ASSUME NEW x \in S, NEW y \in S PROVE <<x, y>> \in R <=> Ahead(key[x], key[y])
  <2>1. <<x, y>> \in R <=> Precedes(key[x], key[y])
    BY DEF ByKey
  <2> QED
    BY <2>1, PrecedesIsAhead
<1>4. Cardinality(S) \in Nat
  BY <1>1, FS_CardinalityType
<1> HIDE DEF R
<1>5. /\ s \in [1..Cardinality(S) -> S]
      /\ IsInjective(s)
      /\ Range(s) = S
      /\ \A i, j \in 1..Cardinality(S) : i < j <=> <<s[i], s[j]>> \in R
  BY <1>1, <1>2, SortedLists
<1> HIDE DEF s
<1>6. s \in RankedItems
  <2>1. s \in Seq(Nodes)
    BY <1>4, <1>5
  <2> QED
    BY <2>1, <1>5 DEF RankedItems
<1>7. ASSUME NEW x \in S
      PROVE  RankIn(x, s) \in 1..Cardinality(S) /\ s[RankIn(x, s)] = x
  <2>1. \E r \in DOMAIN s : s[r] = x
    BY <1>5 DEF Range
  <2> QED
    BY <2>1, <1>5 DEF RankIn
<1>8. ASSUME NEW x \in S, NEW y \in S PROVE Before(s, x, y) <=> Ahead(key[x], key[y])
  BY <1>3, <1>5, <1>7 DEF Before
<1> QED
  BY <1>5, <1>6, <1>8 DEF s, R

(* What the assumption says of each constant. *)
LEMMA ConstantsAreNumbers ==
  /\ N \in Nat \ {0} /\ SeedK \in Nat \ {0} /\ MaxDepth \in Nat \ {0} /\ PoolSize \in Nat \ {0}
  /\ RrfK \in Nat \ {0} /\ Scale \in Nat \ {0} /\ MaxAdded \in Nat /\ GraphWeight \in Nat
  BY RetrievalAssumption

LEMMA RankInIsPlace ==
  ASSUME NEW l \in RankedItems, NEW x \in Range(l)
  PROVE  RankIn(x, l) \in 1..Len(l) /\ l[RankIn(x, l)] = x
<1>1. DOMAIN l = 1..Len(l)
  BY DEF RankedItems
<1>2. \E r \in DOMAIN l : l[r] = x
  BY DEF Range
<1> QED
  BY <1>1, <1>2 DEF RankIn

LEMMA RankedItemsAreShort ==
  ASSUME NEW l \in RankedItems
  PROVE  Len(l) \in 0..N
<1>1. Len(l) \in Nat /\ DOMAIN l = 1..Len(l) /\ l \in [1..Len(l) -> 1..N] /\ IsInjective(l)
  <2>1. l \in Seq(Nodes) /\ IsInjective(l)
    BY DEF RankedItems
  <2>2. Len(l) \in Nat /\ DOMAIN l = 1..Len(l) /\ l \in [1..Len(l) -> Nodes]
    BY <2>1
  <2> QED
    BY <2>1, <2>2 DEF Nodes
<1>2. l \in Injection(1..Len(l), 1..N)
  BY <1>1 DEF Injection
<1>3. IsFiniteSet(1..N) /\ Cardinality(1..N) = N /\ Cardinality(1..Len(l)) = Len(l)
  <2>1. N \in Nat /\ Len(l) \in Nat /\ 1 \in Int
    BY <1>1, ConstantsAreNumbers
  <2>2. IsFiniteSet(1..N) /\ Cardinality(1..N) = N
    BY <2>1, FS_Interval
  <2>3. \A k \in Nat : Cardinality(1..k) = k
    BY FS_Interval
  <2>4. Cardinality(1..Len(l)) = Len(l)
    BY <2>1, <2>3
  <2> QED
    BY <2>2, <2>4
<1>4. Cardinality(1..Len(l)) <= Cardinality(1..N)
  BY <1>2, <1>3, FS_Injection
<1> QED
  BY <1>1, <1>3, <1>4

LEMMA ContributionType ==
  ASSUME NEW x \in Nodes, NEW l \in RankedList
  PROVE  Contribution(x, l) \in Nat
<1>1. l.items \in RankedItems /\ l.weight \in Nat
  BY DEF RankedList
<1>2. CASE x \in Range(l.items)
  <2> DEFINE r == RankIn(x, l.items)
             q == Scale \div (RrfK + r)
  <2>1. r \in Nat
    BY <1>1, <1>2, RankInIsPlace, RankedItemsAreShort
  <2> HIDE DEF r
  <2>2. q \in Nat
    BY <2>1, ConstantsAreNumbers
  <2> HIDE DEF q
  <2>3. l.weight * q \in Nat
    BY <1>1, <2>2
  <2> QED
    BY <1>2, <2>3 DEF Contribution, q, r
<1> QED
  BY <1>2 DEF Contribution

Sums(x, ls) ==
  LET sum[i \in 0..Len(ls)] == IF i = 0 THEN 0 ELSE sum[i - 1] + Contribution(x, ls[i])
  IN sum

LEMMA SumsUnfold ==
  ASSUME NEW x \in Nodes, NEW ls \in Seq(RankedList)
  PROVE  /\ Sums(x, ls) \in [0..Len(ls) -> Nat]
         /\ Sums(x, ls)[0] = 0
         /\ \A i \in 1..Len(ls) : Sums(x, ls)[i] = Sums(x, ls)[i - 1] + Contribution(x, ls[i])
<1> DEFINE n == Len(ls)
           s == Sums(x, ls)
           c == [i \in 1..n |-> Contribution(x, ls[i])]
           g == [p \in (1..n) \X Nat |-> p[2] + c[p[1]]]
<1>0. n \in Nat
  OBVIOUS
<1>1. c \in [1..n -> Nat]
  BY ContributionType
<1> HIDE DEF c
<1>2. g \in [(1..n) \X Nat -> Nat]
  BY <1>1
<1>3. PICK w : IsRecursion(w, n, Nat, 0, g)
  <2> HIDE DEF g, n
  <2> QED BY <1>0, <1>2, RecursionExists
<1>4. w \in [0..n -> Nat] /\ w[0] = 0
  BY <1>3 DEF IsRecursion
<1>5. ASSUME NEW i \in 1..n PROVE w[i] = w[i - 1] + Contribution(x, ls[i])
  <2>1. w[i - 1] \in Nat
    BY <1>0, <1>4
  <2>2. w[i] = g[<<i, w[i - 1]>>]
    BY <1>3 DEF IsRecursion
  <2>3. g[<<i, w[i - 1]>>] = w[i - 1] + c[i]
    BY <2>1
  <2> QED
    BY <2>2, <2>3 DEF c
<1> HIDE DEF g
<1>6. w = [i \in 0..n |-> IF i = 0 THEN 0 ELSE w[i - 1] + Contribution(x, ls[i])]
  BY <1>0, <1>4, <1>5
<1> DEFINE F == [i \in 0..n |-> IF i = 0 THEN 0 ELSE s[i - 1] + Contribution(x, ls[i])]
<1>7. s = F
  BY <1>6 DEF Sums
<1>8. DOMAIN s = 0..n /\ s[0] = 0
  <2>1. DOMAIN F = 0..n /\ F[0] = 0
    BY <1>0
  <2> HIDE DEF F, s
  <2> QED
    BY <1>7, <2>1
<1>9. ASSUME NEW i \in 1..n PROVE s[i] = s[i - 1] + Contribution(x, ls[i])
  <2>1. F[i] = s[i - 1] + Contribution(x, ls[i])
    BY <1>0
  <2> HIDE DEF F, s
  <2> QED
    BY <2>1, <1>7
<1> HIDE DEF s
<1> DEFINE Good == {i \in 0..n : s[i] \in Nat}
<1>10. Good = 0..n
  <2>1. 0 \in Good
    BY <1>0, <1>8
  <2>2. ASSUME NEW i \in 0..(n - 1), i \in Good PROVE i + 1 \in Good
    <3>1. s[i + 1] = s[i] + Contribution(x, ls[i + 1])
      BY <1>0, <1>9
    <3>2. Contribution(x, ls[i + 1]) \in Nat
      BY <1>0, ContributionType
    <3> QED
      BY <2>2, <3>1, <3>2
  <2>3. Good \in SUBSET (0..n)
    OBVIOUS
  <2> HIDE DEF Good, n
  <2> QED
    BY <1>0, <2>1, <2>2, <2>3, ClimbsToAll
<1>11. s = [i \in 0..n |-> s[i]]
  BY <1>7, <1>8 DEF s
<1>12. s \in [0..n -> Nat]
  BY <1>10, <1>11
<1> QED
  BY <1>8, <1>9, <1>12 DEF s

(* One more list adds what it contributes, and changes nothing else. *)
LEMMA ScoreAppends ==
  ASSUME NEW x \in Nodes, NEW ls \in Seq(RankedList), NEW l \in RankedList
  PROVE  /\ Score(x, ls) \in Nat
         /\ Score(x, Append(ls, l)) = Score(x, ls) + Contribution(x, l)
<1> DEFINE n == Len(ls)
           more == Append(ls, l)
           s == Sums(x, ls)
           t == Sums(x, more)
<1>1. more \in Seq(RankedList) /\ n \in Nat /\ Len(more) = n + 1 /\ more[n + 1] = l
      /\ \A i \in 1..n : more[i] = ls[i]
  OBVIOUS
<1>2. /\ s \in [0..n -> Nat] /\ s[0] = 0
      /\ \A i \in 1..n : s[i] = s[i - 1] + Contribution(x, ls[i])
  BY SumsUnfold
<1>3. /\ t \in [0..(n + 1) -> Nat] /\ t[0] = 0
      /\ \A i \in 1..(n + 1) : t[i] = t[i - 1] + Contribution(x, more[i])
  <2> HIDE DEF more, n
  <2> QED
    BY <1>1, SumsUnfold
<1>4. Score(x, ls) = s[n] /\ Score(x, more) = t[n + 1]
  <2> HIDE DEF more
  <2> QED
    BY <1>1 DEF Score, Sums
<1> HIDE DEF s, t, more, n
<1> DEFINE Same == {i \in 0..n : s[i] = t[i]}
<1>5. Same = 0..n
  <2>1. 0 \in Same
    BY <1>1, <1>2, <1>3
  <2>2. ASSUME NEW i \in 0..(n - 1), i \in Same PROVE i + 1 \in Same
    <3>1. i + 1 \in 1..n /\ i + 1 \in 1..(n + 1) /\ (i + 1) - 1 = i
      BY <1>1
    <3>2. s[i + 1] = s[i] + Contribution(x, ls[i + 1])
      BY <1>2, <3>1
    <3>3. t[i + 1] = t[i] + Contribution(x, ls[i + 1])
      BY <1>1, <1>3, <3>1
    <3> QED
      BY <2>2, <3>1, <3>2, <3>3
  <2>3. Same \in SUBSET (0..n)
    OBVIOUS
  <2> HIDE DEF Same
  <2> QED
    BY <1>1, <2>1, <2>2, <2>3, ClimbsToAll
<1>6. n \in 0..n /\ n + 1 \in 1..(n + 1)
  BY <1>1
<1>7. s[n] = t[n]
  BY <1>5, <1>6
<1>8. t[n + 1] = t[n] + Contribution(x, l)
  <2>1. t[n + 1] = t[(n + 1) - 1] + Contribution(x, more[n + 1])
    BY <1>3, <1>6
  <2> QED
    BY <1>1, <2>1
<1> QED
  BY <1>2, <1>4, <1>6, <1>7, <1>8 DEF more

(* The other parts of a fusion key. *)
LEMMA PlacesInLists ==
  ASSUME NEW ls \in Seq(RankedList), NEW x \in Items(ls)
  PROVE  /\ BestRank(x, ls) \in 0..N
         /\ BestRank(x, ls) \in {RankIn(x, ls[i].items) : i \in Appearances(x, ls)}
         /\ \A i \in Appearances(x, ls) : BestRank(x, ls) <= RankIn(x, ls[i].items)
         /\ FirstList(x, ls) \in Appearances(x, ls)
         /\ \A i \in Appearances(x, ls) : FirstList(x, ls) <= i
         /\ Appearances(x, ls) \subseteq 1..Len(ls)
<1> DEFINE A == Appearances(x, ls)
           R == {RankIn(x, ls[i].items) : i \in A}
<1>1. Len(ls) \in Nat /\ N \in Nat /\ A \in SUBSET (0..Len(ls)) /\ A \subseteq 1..Len(ls)
  BY ConstantsAreNumbers DEF Appearances
<1>2. A # {}
  BY DEF Appearances, Items
<1>3. ASSUME NEW i \in A PROVE RankIn(x, ls[i].items) \in 0..N
  <2>1. ls[i] \in RankedList /\ x \in Range(ls[i].items)
    BY DEF Appearances
  <2>2. ls[i].items \in RankedItems
    BY <2>1 DEF RankedList
  <2>3. RankIn(x, ls[i].items) \in 1..Len(ls[i].items) /\ Len(ls[i].items) \in 0..N
    BY <2>1, <2>2, RankInIsPlace, RankedItemsAreShort
  <2> QED
    BY <2>3, <1>1
<1> HIDE DEF A
<1>4. Min(A) \in A /\ \A i \in A : Min(A) <= i
  BY <1>1, <1>2, MinIsLeast
<1>5. R \in SUBSET (0..N) /\ R # {}
  BY <1>2, <1>3
<1>6. \A i \in A : RankIn(x, ls[i].items) \in R
  OBVIOUS
<1> HIDE DEF R
<1>7. Min(R) \in R /\ \A r \in R : Min(R) <= r
  BY <1>1, <1>5, MinIsLeast
<1>8. BestRank(x, ls) = Min(R) /\ FirstList(x, ls) = Min(A)
  BY DEF BestRank, FirstList, R, A
<1> QED
  BY <1>1, <1>4, <1>5, <1>6, <1>7, <1>8 DEF R, A

LEMMA ItemsAreNodes ==
  ASSUME NEW ls \in Seq(RankedList)
  PROVE  Items(ls) \in SUBSET Nodes
<1> SUFFICES ASSUME NEW i \in DOMAIN ls, NEW r \in DOMAIN ls[i].items
             PROVE  ls[i].items[r] \in Nodes
  BY DEF Items, Range
<1>1. ls[i] \in RankedList
  OBVIOUS
<1>2. ls[i].items \in Seq(Nodes)
  BY <1>1 DEF RankedList, RankedItems
<1> QED
  BY <1>2

LEMMA FusionKeysType ==
  ASSUME NEW ls \in Seq(RankedList)
  PROVE  /\ FusionKeys(ls) \in [Items(ls) -> Quads]
         /\ \A x \in Items(ls) : FusionKeys(ls)[x][4] = x
<1> SUFFICES ASSUME NEW x \in Items(ls)
             PROVE  FusionKeys(ls)[x] \in Quads /\ FusionKeys(ls)[x][4] = x
  BY DEF FusionKeys
<1>1. x \in Nodes
  BY ItemsAreNodes
<1>2. Score(x, ls) \in Nat
  <2> DEFINE l == [items |-> << >>, weight |-> 0]
  <2>1. l \in RankedList
    BY DEF RankedList, RankedItems, IsInjective
  <2> QED
    BY <1>1, <2>1, ScoreAppends
<1>3. BestRank(x, ls) \in Int /\ FirstList(x, ls) \in Int /\ x \in Int
  <2>1. BestRank(x, ls) \in 0..N /\ FirstList(x, ls) \in 1..Len(ls)
    BY PlacesInLists
  <2> QED
    BY <1>1, <2>1 DEF Nodes
<1>4. FusionKeys(ls)[x] = <<-Score(x, ls), BestRank(x, ls), FirstList(x, ls), x>>
  BY DEF FusionKeys
<1> QED
  BY <1>2, <1>3, <1>4 DEF Quads

(* A fusion ranks what its lists hold, by their keys. *)
LEMMA FusionRanks ==
  ASSUME NEW ls \in Seq(RankedList)
  PROVE  /\ rrf_fuse(ls) \in RankedItems
         /\ Range(rrf_fuse(ls)) = Items(ls)
         /\ \A x, y \in Items(ls) :
              Before(rrf_fuse(ls), x, y) <=> Ahead(FusionKeys(ls)[x], FusionKeys(ls)[y])
<1>1. rrf_fuse(ls) = Sorted(Items(ls), ByKey(Items(ls), FusionKeys(ls)))
  BY DEF rrf_fuse
<1> QED
  <2> DEFINE S == Items(ls)
             key == FusionKeys(ls)
  <2>1. N \in Nat /\ S \in SUBSET Nodes
    BY ConstantsAreNumbers, ItemsAreNodes
  <2>2. key \in [S -> Quads] /\ \A x \in S : key[x][4] = x
    BY FusionKeysType
  <2> HIDE DEF S, key
  <2>3. /\ Sorted(S, ByKey(S, key)) \in RankedItems /\ Range(Sorted(S, ByKey(S, key))) = S
        /\ \A x, y \in S : Before(Sorted(S, ByKey(S, key)), x, y) <=> Ahead(key[x], key[y])
    BY <2>1, <2>2, SortedByKeyRanks
  <2> QED
    BY <1>1, <2>3 DEF S, key

(* One more list never lets a function it does not hold overtake another. *)
LEMMA OneMoreListLifts ==
  ASSUME NEW ls \in Seq(RankedList), NEW l \in RankedList,
         NEW x \in Items(ls), NEW y \in Items(ls),
         y \notin Range(l.items), Before(rrf_fuse(ls), x, y)
  PROVE  Before(rrf_fuse(Append(ls, l)), x, y)
<1> DEFINE more == Append(ls, l)
           n == Len(ls)
<1>1. /\ more \in Seq(RankedList) /\ DOMAIN ls = 1..n /\ DOMAIN more = 1..(n + 1) /\ n \in Nat
      /\ more[n + 1] = l /\ \A i \in 1..n : more[i] = ls[i]
  OBVIOUS
<1> HIDE DEF more, n
<1>2. ASSUME NEW z \in Items(ls)
      PROVE  /\ z \in Nodes /\ z \in Items(more)
             /\ Appearances(z, ls) = Appearances(z, more) \cap (1..n)
             /\ \A i \in Appearances(z, ls) : more[i] = ls[i]
  <2>1. z \in Nodes
    BY ItemsAreNodes
  <2>2. PICK i \in DOMAIN ls : z \in Range(ls[i].items)
    BY DEF Items
  <2>3. i \in DOMAIN more /\ more[i] = ls[i]
    BY <1>1, <2>2
  <2>4. z \in Items(more)
    BY <2>2, <2>3 DEF Items
  <2> QED
    BY <1>1, <2>1, <2>4 DEF Appearances
<1>3. Appearances(y, more) = Appearances(y, ls)
  <2>1. n + 1 \notin Appearances(y, more)
    BY <1>1 DEF Appearances
  <2>2. Appearances(y, more) \subseteq 1..(n + 1)
    BY <1>1 DEF Appearances
  <2>3. \A i \in 1..(n + 1) : i = n + 1 \/ i \in 1..n
    BY <1>1
  <2> QED
    BY <1>2, <2>1, <2>2, <2>3
<1>4. Score(y, more) = Score(y, ls) /\ Score(y, ls) \in Nat
  <2>1. Contribution(y, l) = 0
    BY DEF Contribution
  <2> QED
    BY <1>2, <2>1, ScoreAppends DEF more
<1>5. BestRank(y, more) = BestRank(y, ls)
  BY <1>2, <1>3 DEF BestRank
<1>6. FirstList(y, more) = FirstList(y, ls)
  BY <1>3 DEF FirstList
<1>7. Score(x, more) >= Score(x, ls) /\ Score(x, ls) \in Nat /\ Score(x, more) \in Nat
  <2>1. Contribution(x, l) \in Nat
    BY <1>2, ContributionType
  <2> QED
    BY <1>2, <2>1, ScoreAppends DEF more
<1>8. BestRank(x, more) <= BestRank(x, ls)
  <2>1. PICK i \in Appearances(x, ls) : BestRank(x, ls) = RankIn(x, ls[i].items)
    BY PlacesInLists
  <2>2. i \in Appearances(x, more) /\ more[i] = ls[i]
    BY <1>2
  <2>3. BestRank(x, more) <= RankIn(x, more[i].items)
    BY <1>1, <1>2, <2>2, PlacesInLists
  <2> QED
    BY <2>1, <2>2, <2>3
<1>9. FirstList(x, more) = FirstList(x, ls)
  <2>1. FirstList(x, ls) \in Appearances(x, ls) /\ FirstList(x, ls) \in 1..n
    BY <1>1, PlacesInLists DEF n
  <2>2. /\ FirstList(x, more) \in Appearances(x, more)
        /\ FirstList(x, more) <= FirstList(x, ls)
        /\ FirstList(x, more) \in 1..(n + 1)
    <3>1. Appearances(x, more) \subseteq 1..(n + 1)
      BY <1>1 DEF Appearances
    <3> QED
      BY <1>1, <1>2, <2>1, <3>1, PlacesInLists
  <2>3. FirstList(x, more) \in 1..n
    BY <1>1, <2>1, <2>2
  <2>4. FirstList(x, more) \in Appearances(x, ls)
    BY <1>2, <2>2, <2>3
  <2>5. FirstList(x, ls) <= FirstList(x, more)
    BY <2>4, PlacesInLists
  <2> QED
    BY <1>1, <2>1, <2>2, <2>5
<1> DEFINE k(z) == FusionKeys(ls)[z]
           m(z) == FusionKeys(more)[z]
<1>10. Ahead(k(x), k(y))
  BY FusionRanks
<1>11. \A z \in Items(ls) : k(z) = <<-Score(z, ls), BestRank(z, ls), FirstList(z, ls), z>>
  BY DEF FusionKeys
<1>12. \A z \in Items(ls) : m(z) = <<-Score(z, more), BestRank(z, more), FirstList(z, more), z>>
  BY <1>2 DEF FusionKeys
<1>13. /\ BestRank(x, ls) \in Int /\ BestRank(x, more) \in Int /\ BestRank(y, ls) \in Int
       /\ FirstList(x, ls) \in Int /\ FirstList(y, ls) \in Int /\ x \in Int /\ y \in Int
  <2>1. /\ BestRank(x, ls) \in 0..N /\ BestRank(x, more) \in 0..N /\ BestRank(y, ls) \in 0..N
        /\ FirstList(x, ls) \in 1..Len(ls) /\ FirstList(y, ls) \in 1..Len(ls)
    BY <1>1, <1>2, PlacesInLists
  <2> QED
    BY <2>1, <1>2 DEF Nodes
<1> HIDE DEF k, m
<1>14. Ahead(m(x), m(y))
  BY <1>4, <1>5, <1>6, <1>7, <1>8, <1>9, <1>10, <1>11, <1>12, <1>13 DEF Ahead
<1>15. Before(rrf_fuse(more), x, y)
  BY <1>1, <1>2, <1>14, FusionRanks DEF m
<1> QED
  BY <1>15 DEF more

(* Ranked lists. *)
LEMMA RankedItemsAre ==
  ASSUME NEW l \in RankedItems
  PROVE  /\ Len(l) \in Nat /\ DOMAIN l = 1..Len(l) /\ l \in Seq(Nodes)
         /\ \A i \in 1..Len(l) : l[i] \in Nodes
         /\ \A i, j \in 1..Len(l) : l[i] = l[j] => i = j
         /\ Range(l) = {l[i] : i \in 1..Len(l)} /\ Range(l) \subseteq Nodes
<1>1. l \in Seq(Nodes) /\ IsInjective(l)
  BY DEF RankedItems
<1>2. Len(l) \in Nat /\ DOMAIN l = 1..Len(l) /\ \A i \in 1..Len(l) : l[i] \in Nodes
  BY <1>1
<1> QED
  BY <1>1, <1>2 DEF IsInjective, Range

LEMMA EmptyRanked == << >> \in RankedItems /\ Range(<< >>) = {}
  BY DEF RankedItems, IsInjective, Range

LEMMA AppendRanked ==
  ASSUME NEW l \in RankedItems, NEW m \in Nodes \ Range(l)
  PROVE  /\ Append(l, m) \in RankedItems
         /\ Range(Append(l, m)) = Range(l) \cup {m}
<1> DEFINE n == Len(l)
           t == Append(l, m)
<1>1. /\ n \in Nat /\ l \in Seq(Nodes)
      /\ \A i \in 1..n : l[i] \in Range(l)
      /\ \A i, j \in 1..n : l[i] = l[j] => i = j
      /\ Range(l) = {l[i] : i \in 1..n}
  BY RankedItemsAre
<1>2. /\ t \in Seq(Nodes) /\ DOMAIN t = 1..(n + 1) /\ t[n + 1] = m
      /\ \A i \in 1..n : t[i] = l[i]
  BY <1>1
<1> HIDE DEF t, n
<1>3. \A i \in 1..(n + 1) : i \in 1..n \/ i = n + 1
  BY <1>1
<1>4. n + 1 \in 1..(n + 1) /\ \A i \in 1..n : i \in 1..(n + 1)
  BY <1>1
<1>5. Range(t) = Range(l) \cup {m}
  <2>1. Range(t) = {t[i] : i \in 1..(n + 1)}
    BY <1>2 DEF Range
  <2>2. m \in Range(t) /\ \A i \in 1..n : l[i] \in Range(t)
    BY <1>2, <1>4, <2>1
  <2>3. \A i \in 1..(n + 1) : t[i] \in Range(l) \cup {m}
    BY <1>1, <1>2, <1>3
  <2>4. Range(t) \subseteq Range(l) \cup {m}
    BY <2>1, <2>3
  <2>5. Range(l) \subseteq Range(t)
    BY <1>1, <2>2
  <2> QED
    BY <2>2, <2>4, <2>5
<1>6. IsInjective(t)
  BY <1>1, <1>2, <1>3 DEF IsInjective
<1> QED
  BY <1>2, <1>5, <1>6 DEF RankedItems, t

LEMMA TailRanked ==
  ASSUME NEW l \in RankedItems, l # << >>
  PROVE  /\ Tail(l) \in RankedItems
         /\ Head(l) \in Nodes
         /\ Range(l) = Range(Tail(l)) \cup {Head(l)}
         /\ Len(l) \in Nat \ {0} /\ Head(l) = l[1] /\ DOMAIN Tail(l) = 1..(Len(l) - 1)
         /\ \A i \in 1..(Len(l) - 1) : Tail(l)[i] = l[i + 1]
<1> DEFINE n == Len(l)
           t == Tail(l)
<1>1. /\ n \in Nat /\ l \in Seq(Nodes)
      /\ \A i \in 1..n : l[i] \in Nodes
      /\ \A i, j \in 1..n : l[i] = l[j] => i = j
      /\ Range(l) = {l[i] : i \in 1..n}
  BY RankedItemsAre
<1>2. n \in Nat \ {0} /\ Head(l) = l[1]
  BY <1>1
<1>3. /\ t \in Seq(Nodes) /\ DOMAIN t = 1..(n - 1)
      /\ \A i \in 1..(n - 1) : t[i] = l[i + 1]
  BY <1>1, <1>2
<1> HIDE DEF t, n
<1>4. 1 \in 1..n /\ \A i \in 1..(n - 1) : i + 1 \in 1..n
  BY <1>2
<1>5. \A i \in 1..n : i = 1 \/ (i - 1 \in 1..(n - 1) /\ (i - 1) + 1 = i)
  BY <1>2
<1>6. IsInjective(t)
  <2> SUFFICES ASSUME NEW i \in 1..(n - 1), NEW j \in 1..(n - 1), t[i] = t[j]
               PROVE  i = j
    BY <1>3 DEF IsInjective
  <2>1. i + 1 = j + 1
    BY <1>1, <1>3, <1>4
  <2> QED
    BY <2>1, <1>2
<1>7. Range(t) = {l[i + 1] : i \in 1..(n - 1)}
  BY <1>3 DEF Range
<1>8. Range(l) = Range(t) \cup {Head(l)}
  <2>1. ASSUME NEW i \in 1..n PROVE l[i] \in Range(t) \cup {Head(l)}
    <3>1. CASE i = 1
      BY <3>1, <1>2
    <3>2. CASE i - 1 \in 1..(n - 1) /\ (i - 1) + 1 = i
      BY <3>2, <1>7
    <3> QED
      BY <1>5, <3>1, <3>2
  <2>2. Range(t) \cup {Head(l)} \subseteq Range(l)
    BY <1>1, <1>2, <1>4, <1>7
  <2> QED
    BY <1>1, <2>1, <2>2
<1> QED
  BY <1>1, <1>2, <1>3, <1>4, <1>6, <1>8 DEF RankedItems, t, n

LEMMA SubSeqRanked ==
  ASSUME NEW l \in RankedItems, NEW k \in 0..Len(l)
  PROVE  /\ SubSeq(l, 1, k) \in RankedItems
         /\ Range(SubSeq(l, 1, k)) = {l[r] : r \in 1..k}
         /\ DOMAIN SubSeq(l, 1, k) = 1..k
         /\ \A i \in 1..k : SubSeq(l, 1, k)[i] = l[i]
<1> DEFINE n == Len(l)
           t == SubSeq(l, 1, k)
<1>1. /\ n \in Nat /\ l \in Seq(Nodes) /\ k \in 0..n
      /\ \A i, j \in 1..n : l[i] = l[j] => i = j
  BY RankedItemsAre
<1>2. /\ t \in Seq(Nodes) /\ DOMAIN t = 1..k
      /\ \A i \in 1..k : t[i] = l[i]
  BY <1>1
<1>3. \A i \in 1..k : i \in 1..n
  BY <1>1
<1> HIDE DEF t, n
<1>4. IsInjective(t)
  BY <1>1, <1>2, <1>3 DEF IsInjective
<1>5. Range(t) = {l[r] : r \in 1..k}
  BY <1>2 DEF Range
<1> QED
  BY <1>2, <1>4, <1>5 DEF RankedItems, t

-----------------------------------------------------------------------------
(* The state: which lists a traversal has, and what is in them. *)

SeedsAtZero == \A n \in Nodes : hop[n] = 0 <=> n \in Seeds

\* Before the first fusion, and without results, there is nothing.
Nothing ==
  /\ phase \in {"fuse", "failed"} => fused = << >>
  /\ fused = << >> => \A n \in Nodes : hop[n] = Unknown /\ evidence[n] = {}
  /\ phase \notin {"fuse", "failed"} => fused = rrf_fuse(lists)
  /\ phase = "fuse" => found = << >> /\ next = << >> /\ pending = {}
                       /\ nextOrigins = [n \in Nodes |-> {}]

\* The frontier is of the last depth, the next frontier is all of this one.
Layers ==
  phase = "expand" =>
    /\ fused # << >> /\ depth \in 1..MaxDepth
    /\ \A n \in Nodes : hop[n] <= depth
    /\ \A n \in Range(frontier) : hop[n] = depth - 1
    /\ pending # {} => hop[node] = depth - 1
    /\ pending \subseteq Links(node)
    /\ Range(next) = {n \in Nodes : hop[n] = depth}

\* The candidates are the functions with evidence: all that were added, and
\* seeds that were met.
Candidates ==
  /\ \A n \in Nodes : hop[n] > 0 => n \in Range(found)
  /\ \A n \in Range(found) : evidence[n] # {} /\ hop[n] # Unknown
  /\ \A n \in Nodes : evidence[n] # {} => n \in Range(found)

\* Every path started somewhere.
Started ==
  phase = "expand" =>
    \A n \in Nodes : /\ hop[n] = depth - 1 => origins[n] # {}
                     /\ hop[n] = depth => nextOrigins[n] # {}

StateInv == SearchTypeOK /\ SeedsAtZero /\ Nothing /\ Layers /\ Candidates /\ Started

LEMMA ListsAreRanked == \A ls \in FirstStage : ls \in Seq(RankedList)
  BY RetrievalAssumption

LEMMA InitState == SearchInit => StateInv
<1> SUFFICES ASSUME SearchInit PROVE StateInv
  OBVIOUS
<1>1. Seeds = {}
  BY ConstantsAreNumbers DEF SearchInit, Seeds, SeedCount, Smaller
<1>2. SearchTypeOK
  <2>1. calls \subseteq Nodes \X Nodes /\ lists \in Seq(RankedList)
    BY RetrievalAssumption DEF SearchInit
  <2>2. depth \in 0..MaxDepth /\ node \in Nodes /\ hop \in [Nodes -> Unknown..MaxDepth]
    BY ConstantsAreNumbers DEF SearchInit, Nodes, Unknown
  <2> QED
    BY <2>1, <2>2, EmptyRanked DEF SearchInit, SearchTypeOK
<1>3. SeedsAtZero /\ Nothing /\ Layers /\ Candidates /\ Started
  BY <1>1, EmptyRanked DEF SearchInit, SeedsAtZero, Nothing, Layers, Candidates, Started, Unknown
<1> QED
  BY <1>2, <1>3 DEF StateInv

(* What the steps of an expansion leave alone. *)
LEMMA SameGraph ==
  ASSUME calls' = calls, fused' = fused
  PROVE  /\ Seeds' = Seeds /\ Within' = Within /\ Evidence' = Evidence
         /\ \A n : Links(n)' = Links(n) /\ Neighbours(n)' = Neighbours(n)
         /\ \A o : SeedRank(o)' = SeedRank(o)
         /\ \A S : Step(S)' = Step(S)
<1>1. Seeds' = Seeds
  BY DEF Seeds, SeedCount
<1>2. \A n : Links(n)' = Links(n)
  BY DEF Links, Callees, Callers, Cut
<1>3. \A n : Neighbours(n)' = Neighbours(n)
  BY <1>2 DEF Neighbours
<1>4. \A S : Step(S)' = Step(S)
  BY <1>3 DEF Step
<1>5. Within' = Within
  BY <1>1, <1>4 DEF Within
<1>6. \A o : SeedRank(o)' = SeedRank(o)
  BY DEF SeedRank
<1>7. Evidence' = Evidence
  BY <1>1 DEF Evidence
<1> QED
  BY <1>1, <1>2, <1>3, <1>4, <1>5, <1>6, <1>7

LEMMA SameFusion ==
  ASSUME lists' = lists
  PROVE  rrf_fuse(lists)' = rrf_fuse(lists)
  BY DEF rrf_fuse, Items, FusionKeys, Score, Contribution, RankIn, BestRank, FirstList, Appearances

LEMMA FuseState == StateInv /\ Fuse => StateInv'
<1> SUFFICES ASSUME StateInv, Fuse PROVE StateInv'
  OBVIOUS
<1>1. /\ calls \subseteq Nodes \X Nodes /\ lists \in Seq(RankedList)
      /\ ranking \in RankedItems /\ results \in RankedItems
      /\ hop = [n \in Nodes |-> Unknown] /\ evidence = [n \in Nodes |-> {}]
      /\ found = << >> /\ next = << >> /\ pending = {} /\ nextOrigins = [n \in Nodes |-> {}]
      /\ fused = << >> /\ phase = "fuse" /\ node \in Nodes
  <2>1. phase = "fuse" /\ fused = << >>
    BY DEF Fuse, StateInv, Nothing
  <2>2. hop = [n \in Nodes |-> Unknown] /\ evidence = [n \in Nodes |-> {}]
    BY <2>1 DEF StateInv, SearchTypeOK, Nothing
  <2> QED
    BY <2>1, <2>2 DEF StateInv, SearchTypeOK, Nothing
<1>2. fused' = rrf_fuse(lists) /\ fused' \in RankedItems
  BY <1>1, FusionRanks DEF Fuse
<1>3. /\ calls' = calls /\ lists' = lists /\ node' = node /\ pending' = pending /\ found' = found
      /\ evidence' = evidence /\ next' = next /\ nextOrigins' = nextOrigins /\ ranking' = ranking
      /\ results' = results
  BY DEF Fuse
<1>4. nextOrigins' \in [Nodes -> SUBSET Seeds'] /\ evidence' \in [Nodes -> SUBSET Evidence']
  BY <1>1, <1>3
<1>5. rrf_fuse(lists)' = rrf_fuse(lists)
  BY <1>3, SameFusion
<1>6. CASE fused' = << >>
  <2>1. /\ phase' = "rerank"
        /\ depth' = depth /\ frontier' = frontier /\ origins' = origins /\ hop' = hop
    BY <1>6 DEF Fuse
  <2>2. Seeds' = {} /\ Seeds = {}
    BY <1>1, <1>6, ConstantsAreNumbers DEF Seeds, SeedCount, Smaller
  <2>3. SearchTypeOK'
    BY <1>1, <1>2, <1>3, <1>4, <2>1, <2>2 DEF StateInv, SearchTypeOK
  <2>4. (SeedsAtZero /\ Nothing /\ Layers /\ Candidates /\ Started)'
    BY <1>1, <1>2, <1>3, <1>5, <1>6, <2>1, <2>2, EmptyRanked
       DEF SeedsAtZero, Nothing, Layers, Candidates, Started, Unknown
  <2> QED
    BY <2>3, <2>4 DEF StateInv
<1>7. CASE fused' # << >>
  <2>1. /\ phase' = "expand" /\ depth' = 1
        /\ frontier' = SubSeq(fused', 1, SeedCount')
        /\ origins' = [n \in Nodes |-> IF n \in Seeds' THEN {n} ELSE {}]
        /\ hop' = [n \in Nodes |-> IF n \in Seeds' THEN 0 ELSE Unknown]
    BY <1>7 DEF Fuse
  <2>2. SeedCount' \in 1..Len(fused')
    <3>1. Len(fused') \in Nat \ {0}
      BY <1>2, <1>7, TailRanked
    <3> QED
      BY <3>1, ConstantsAreNumbers DEF SeedCount, Smaller
  <2>3. Seeds' = {fused'[r] : r \in 1..SeedCount'}
    BY DEF Seeds
  <2>4. frontier' \in RankedItems /\ Range(frontier') = Seeds'
    <3>1. SeedCount' \in 0..Len(fused')
      BY <2>2
    <3> QED
      BY <1>2, <2>1, <2>3, <3>1, SubSeqRanked
  <2>5. Seeds' \subseteq Nodes
    BY <2>4, RankedItemsAre
  <2>6. depth' \in 1..MaxDepth /\ depth' \in 0..MaxDepth
    BY <2>1, ConstantsAreNumbers
  <2>7. hop' \in [Nodes -> Unknown..MaxDepth] /\ origins' \in [Nodes -> SUBSET Seeds']
    BY <2>1, ConstantsAreNumbers DEF Unknown
  <2>8. SearchTypeOK'
    BY <1>1, <1>2, <1>3, <1>4, <2>1, <2>4, <2>6, <2>7, EmptyRanked DEF SearchTypeOK
  <2>9. (SeedsAtZero /\ Nothing /\ Candidates /\ Started)'
    BY <1>1, <1>2, <1>3, <1>5, <1>7, <2>1, <2>5, EmptyRanked
       DEF SeedsAtZero, Nothing, Candidates, Started, Unknown
  <2>10. Layers'
    BY <1>1, <1>3, <1>7, <2>1, <2>4, <2>5, <2>6, EmptyRanked DEF Layers, Unknown
  <2> QED
    BY <2>8, <2>9, <2>10 DEF StateInv
<1> QED
  BY <1>6, <1>7

LEMMA LinksLead ==
  ASSUME NEW n \in Nodes
  PROVE  Links(n) \subseteq {1, 2} \X Nodes /\ Neighbours(n) \subseteq Nodes
  BY DEF Links, Neighbours, Cut, Callees, Callers

(* A link of the node that is followed. *)
LEMMA VisitingIsOfNode ==
  ASSUME StateInv, NEW m \in Nodes, Visiting(m)
  PROVE  /\ phase = "expand" /\ fused # << >> /\ depth \in 1..MaxDepth
         /\ node \in Nodes /\ hop[node] = depth - 1 /\ m \in Neighbours(node)
         /\ \E r \in {1, 2} : <<r, m>> \in pending /\ pending' = pending \ {<<r, m>>}
         /\ Seeds' = Seeds
<1>1. PICK link \in pending : link[2] = m /\ pending' = pending \ {link}
  BY DEF Visiting
<1>2. phase = "expand" /\ calls' = calls /\ fused' = fused
  BY DEF Visiting
<1>3. /\ fused # << >> /\ depth \in 1..MaxDepth /\ hop[node] = depth - 1
      /\ pending \subseteq Links(node) /\ node \in Nodes
  BY <1>1, <1>2 DEF StateInv, SearchTypeOK, Layers
<1>4. m \in Neighbours(node)
  BY <1>1, <1>3 DEF Neighbours
<1>5. \E r \in {1, 2} : link = <<r, m>>
  BY <1>1, <1>3, LinksLead
<1>6. Seeds' = Seeds
  BY <1>2, SameGraph
<1> QED
  BY <1>1, <1>2, <1>3, <1>4, <1>5, <1>6

LEMMA SeedsAreNodes == StateInv => Seeds \subseteq Nodes
<1> SUFFICES ASSUME StateInv PROVE Seeds \subseteq Nodes
  OBVIOUS
<1>1. fused \in RankedItems
  BY DEF StateInv, SearchTypeOK
<1>2. SeedCount \in 0..Len(fused)
  BY <1>1, RankedItemsAre, ConstantsAreNumbers DEF SeedCount, Smaller
<1> QED
  BY <1>1, <1>2, RankedItemsAre DEF Seeds

\* What a neighbour gets when its path from the node counts.
Entries(m) == {[seed |-> o, via |-> node, hop |-> depth] : o \in origins[node] \ {m}}

LEMMA SupportAdds ==
  ASSUME StateInv, NEW m \in Nodes, Visiting(m), Support(m)
  PROVE  /\ evidence' \in [Nodes -> SUBSET Evidence]
         /\ evidence'[m] = evidence[m] \cup Entries(m)
         /\ \A n \in Nodes \ {m} : evidence'[n] = evidence[n]
<1>1. evidence \in [Nodes -> SUBSET Evidence] /\ origins \in [Nodes -> SUBSET Seeds]
  BY DEF StateInv, SearchTypeOK
<1>2. node \in Nodes /\ depth \in 1..MaxDepth /\ Seeds \subseteq Nodes
  BY VisitingIsOfNode, SeedsAreNodes
<1>3. Entries(m) \subseteq Evidence
  BY <1>1, <1>2 DEF Entries, Evidence
<1>4. evidence' = [evidence EXCEPT ![m] = evidence[m] \cup Entries(m)]
  BY DEF Support, Entries
<1> HIDE DEF Support
<1> QED
  BY <1>1, <1>3, <1>4

LEMMA HandedOnAdds ==
  ASSUME StateInv, NEW m \in Nodes, Visiting(m), HandedOn(m)
  PROVE  /\ nextOrigins' \in [Nodes -> SUBSET Seeds]
         /\ nextOrigins'[m] = nextOrigins[m] \cup origins[node]
         /\ \A n \in Nodes \ {m} : nextOrigins'[n] = nextOrigins[n]
<1>1. nextOrigins \in [Nodes -> SUBSET Seeds] /\ origins \in [Nodes -> SUBSET Seeds]
  BY DEF StateInv, SearchTypeOK
<1>2. node \in Nodes
  BY VisitingIsOfNode
<1> QED
  BY <1>1, <1>2 DEF HandedOn

LEMMA PassOverState == ASSUME StateInv, NEW m \in Nodes, PassOver(m) PROVE StateInv'
<1>1. Visiting(m)
  BY DEF PassOver
<1>2. /\ calls' = calls /\ lists' = lists /\ phase' = phase /\ fused' = fused /\ depth' = depth
      /\ frontier' = frontier /\ origins' = origins /\ node' = node /\ ranking' = ranking
      /\ results' = results /\ hop' = hop /\ found' = found /\ evidence' = evidence
      /\ next' = next /\ nextOrigins' = nextOrigins /\ pending' \subseteq pending
      /\ phase = "expand" /\ fused # << >>
  BY <1>1, VisitingIsOfNode DEF PassOver, Visiting
<1>3. Seeds' = Seeds /\ Evidence' = Evidence /\ \A n : Links(n)' = Links(n)
  BY <1>2, SameGraph
<1>4. SearchTypeOK'
  BY <1>2, <1>3 DEF StateInv, SearchTypeOK
<1>5. SeedsAtZero' /\ Nothing' /\ Candidates' /\ Started'
  <2>1. rrf_fuse(lists)' = rrf_fuse(lists)
    BY <1>2, SameFusion
  <2> QED
    BY <1>2, <1>3, <2>1 DEF StateInv, SeedsAtZero, Nothing, Candidates, Started
<1>6. Layers'
  BY <1>2, <1>3 DEF StateInv, Layers
<1> QED
  BY <1>4, <1>5, <1>6 DEF StateInv

LEMMA FindNewState == ASSUME StateInv, NEW m \in Nodes, FindNew(m) PROVE StateInv'
<1>1. Visiting(m) /\ Support(m) /\ HandedOn(m) /\ hop[m] = Unknown
  BY DEF FindNew
<1>2. /\ calls' = calls /\ lists' = lists /\ phase' = phase /\ fused' = fused /\ depth' = depth
      /\ frontier' = frontier /\ origins' = origins /\ node' = node /\ ranking' = ranking
      /\ results' = results /\ pending' \subseteq pending
      /\ phase = "expand" /\ fused # << >> /\ depth \in 1..MaxDepth /\ hop[node] = depth - 1
      /\ node \in Nodes
  BY <1>1, VisitingIsOfNode DEF Visiting
<1>3. Seeds' = Seeds /\ Evidence' = Evidence /\ \A n : Links(n)' = Links(n)
  BY <1>2, SameGraph
<1>4. /\ hop \in [Nodes -> Unknown..MaxDepth] /\ found \in RankedItems /\ next \in RankedItems
      /\ origins \in [Nodes -> SUBSET Seeds] /\ frontier \in RankedItems
  BY DEF StateInv, SearchTypeOK
<1>5. /\ hop' \in [Nodes -> Unknown..MaxDepth] /\ hop'[m] = depth
      /\ \A n \in Nodes \ {m} : hop'[n] = hop[n]
  BY <1>2, <1>4 DEF FindNew, Unknown
<1>6. m \notin Range(found) /\ m \notin Range(next)
  BY <1>1, <1>2 DEF StateInv, Candidates, Layers, Unknown
<1>7. /\ found' \in RankedItems /\ Range(found') = Range(found) \cup {m}
      /\ next' \in RankedItems /\ Range(next') = Range(next) \cup {m}
  BY <1>4, <1>6, AppendRanked DEF FindNew
<1>8. SearchTypeOK'
  BY <1>1, <1>2, <1>3, <1>5, <1>7, SupportAdds, HandedOnAdds DEF StateInv, SearchTypeOK
<1>9. m \notin Seeds
  BY <1>1 DEF StateInv, SeedsAtZero, Unknown
<1>10. origins[node] # {} /\ origins[node] \subseteq Seeds
  BY <1>2, <1>4 DEF StateInv, Started
<1>11. Entries(m) # {}
  BY <1>9, <1>10 DEF Entries
<1>12. SeedsAtZero' /\ Nothing'
  <2>1. rrf_fuse(lists)' = rrf_fuse(lists)
    BY <1>2, SameFusion
  <2> QED
    BY <1>2, <1>3, <1>5, <1>9, <2>1 DEF StateInv, SeedsAtZero, Nothing
<1>13. Candidates'
  <2>1. /\ \A n \in Nodes \ {m} : evidence'[n] = evidence[n]
        /\ evidence'[m] # {}
    BY <1>1, <1>11, SupportAdds
  <2>2. Range(found) \subseteq Nodes
    BY <1>4, RankedItemsAre
  <2>3. depth # Unknown
    BY <1>2 DEF Unknown
  <2>4. ASSUME NEW n \in Nodes PROVE n \in Range(found') <=> n \in Range(found) \/ n = m
    BY <1>7
  <2>5. \A n \in Range(found') : n \in Nodes
    BY <1>7, <2>2
  <2> QED
    BY <1>5, <2>1, <2>3, <2>4, <2>5 DEF StateInv, Candidates
<1>14. Layers'
  <2>1. \A n \in Range(frontier) : n # m
    BY <1>1, <1>2 DEF StateInv, Layers, Unknown
  <2>2. node # m
    BY <1>1, <1>2 DEF Unknown
  <2>3. Range(frontier) \subseteq Nodes
    BY <1>4, RankedItemsAre
  <2> QED
    BY <1>1, <1>2, <1>3, <1>5, <1>7, <2>1, <2>2, <2>3 DEF StateInv, Layers, Unknown
<1>15. Started'
  BY <1>1, <1>2, <1>5, <1>10, HandedOnAdds DEF StateInv, Started
<1> QED
  BY <1>8, <1>12, <1>13, <1>14, <1>15 DEF StateInv

LEMMA MeetSeedState == ASSUME StateInv, NEW m \in Nodes, MeetSeed(m) PROVE StateInv'
<1>1. Visiting(m) /\ Support(m) /\ hop[m] = 0 /\ ~IsSkipped(m)
  BY DEF MeetSeed
<1>2. /\ calls' = calls /\ lists' = lists /\ phase' = phase /\ fused' = fused /\ depth' = depth
      /\ frontier' = frontier /\ origins' = origins /\ node' = node /\ ranking' = ranking
      /\ results' = results /\ pending' \subseteq pending
      /\ hop' = hop /\ next' = next /\ nextOrigins' = nextOrigins
      /\ phase = "expand" /\ fused # << >>
  BY <1>1, VisitingIsOfNode DEF Visiting, MeetSeed
<1>3. Seeds' = Seeds /\ Evidence' = Evidence /\ \A n : Links(n)' = Links(n)
  BY <1>2, SameGraph
<1>4. found \in RankedItems
  BY DEF StateInv, SearchTypeOK
<1>5. found' \in RankedItems /\ Range(found') = Range(found) \cup {m}
  BY <1>4, AppendRanked DEF MeetSeed
<1>6. Entries(m) # {}
  <2>1. ~(origins[node] \subseteq {m})
    BY <1>1 DEF IsSkipped, Unknown
  <2> QED
    BY <2>1 DEF Entries
<1>7. SearchTypeOK'
  BY <1>1, <1>2, <1>3, <1>5, SupportAdds DEF StateInv, SearchTypeOK
<1>8. SeedsAtZero' /\ Nothing' /\ Started'
  <2>1. rrf_fuse(lists)' = rrf_fuse(lists)
    BY <1>2, SameFusion
  <2> QED
    BY <1>2, <1>3, <2>1 DEF StateInv, SeedsAtZero, Nothing, Started
<1>9. Candidates'
  <2>1. /\ \A n \in Nodes \ {m} : evidence'[n] = evidence[n]
        /\ evidence'[m] # {}
    BY <1>1, <1>6, SupportAdds
  <2>2. Range(found) \subseteq Nodes
    BY <1>4, RankedItemsAre
  <2>3. ASSUME NEW n \in Nodes PROVE n \in Range(found') <=> n \in Range(found) \/ n = m
    BY <1>5
  <2>4. \A n \in Range(found') : n \in Nodes
    BY <1>5, <2>2
  <2>5. hop[m] # Unknown
    BY <1>1 DEF Unknown
  <2> QED
    BY <1>2, <2>1, <2>3, <2>4, <2>5 DEF StateInv, Candidates
<1>10. Layers'
  BY <1>2, <1>3 DEF StateInv, Layers
<1> QED
  BY <1>7, <1>8, <1>9, <1>10 DEF StateInv

LEMMA MeetAgainState == ASSUME StateInv, NEW m \in Nodes, MeetAgain(m) PROVE StateInv'
<1>1. Visiting(m) /\ Support(m) /\ HandedOn(m) /\ hop[m] = depth
  BY DEF MeetAgain
<1>2. /\ calls' = calls /\ lists' = lists /\ phase' = phase /\ fused' = fused /\ depth' = depth
      /\ frontier' = frontier /\ origins' = origins /\ node' = node /\ ranking' = ranking
      /\ results' = results /\ pending' \subseteq pending
      /\ hop' = hop /\ found' = found /\ next' = next
      /\ phase = "expand" /\ fused # << >> /\ depth \in 1..MaxDepth /\ hop[node] = depth - 1
      /\ node \in Nodes
  BY <1>1, VisitingIsOfNode DEF Visiting, MeetAgain
<1>3. Seeds' = Seeds /\ Evidence' = Evidence /\ \A n : Links(n)' = Links(n)
  BY <1>2, SameGraph
<1>4. m \notin Seeds /\ m \in Range(found)
  BY <1>1, <1>2 DEF StateInv, SeedsAtZero, Candidates
<1>5. origins[node] # {} /\ origins[node] \subseteq Seeds
  BY <1>2 DEF StateInv, SearchTypeOK, Started
<1>6. Entries(m) # {}
  BY <1>4, <1>5 DEF Entries
<1>7. SearchTypeOK'
  BY <1>1, <1>2, <1>3, SupportAdds, HandedOnAdds DEF StateInv, SearchTypeOK
<1>8. SeedsAtZero' /\ Nothing'
  <2>1. rrf_fuse(lists)' = rrf_fuse(lists)
    BY <1>2, SameFusion
  <2> QED
    BY <1>2, <1>3, <2>1 DEF StateInv, SeedsAtZero, Nothing
<1>9. Candidates'
  <2>1. \A n \in Nodes : evidence[n] \subseteq evidence'[n] /\ (n # m => evidence'[n] = evidence[n])
    BY <1>1, SupportAdds
  <2>2. Range(found) \subseteq Nodes
    BY RankedItemsAre DEF StateInv, SearchTypeOK
  <2> QED
    BY <1>2, <1>4, <2>1, <2>2 DEF StateInv, Candidates
<1>10. Layers'
  BY <1>2, <1>3 DEF StateInv, Layers
<1>11. Started'
  BY <1>1, <1>2, <1>5, HandedOnAdds DEF StateInv, Started
<1> QED
  BY <1>7, <1>8, <1>9, <1>10, <1>11 DEF StateInv

LEMMA FollowState == StateInv /\ Follow => StateInv'
<1> SUFFICES ASSUME StateInv, Follow PROVE StateInv'
  OBVIOUS
<1>1. /\ calls' = calls /\ lists' = lists /\ phase' = phase /\ fused' = fused /\ depth' = depth
      /\ origins' = origins /\ ranking' = ranking /\ results' = results /\ hop' = hop
      /\ found' = found /\ evidence' = evidence /\ next' = next /\ nextOrigins' = nextOrigins
      /\ phase = "expand" /\ frontier # << >> /\ frontier \in RankedItems
      /\ node' = Head(frontier) /\ frontier' = Tail(frontier) /\ pending' = Links(node')
      /\ fused # << >>
  BY DEF Follow, StateInv, SearchTypeOK, Layers
<1>2. Seeds' = Seeds /\ Evidence' = Evidence /\ \A n : Links(n)' = Links(n)
  BY <1>1, SameGraph
<1>3. /\ frontier' \in RankedItems /\ node' \in Nodes /\ node' \in Range(frontier)
      /\ Range(frontier') \subseteq Range(frontier)
  BY <1>1, TailRanked
<1>4. pending' \subseteq {1, 2} \X Nodes
  BY <1>1, <1>3, LinksLead
<1>5. SearchTypeOK'
  BY <1>1, <1>2, <1>3, <1>4 DEF StateInv, SearchTypeOK
<1>6. SeedsAtZero' /\ Nothing' /\ Candidates' /\ Started'
  <2>1. rrf_fuse(lists)' = rrf_fuse(lists)
    BY <1>1, SameFusion
  <2> QED
    BY <1>1, <1>2, <2>1 DEF StateInv, SeedsAtZero, Nothing, Candidates, Started
<1>7. Links(node)' = Links(node')
  BY <1>1 DEF Links, Callees, Callers, Cut
<1>8. Layers'
  BY <1>1, <1>2, <1>3, <1>7 DEF StateInv, Layers
<1> QED
  BY <1>5, <1>6, <1>8 DEF StateInv

LEMMA DeepenState == StateInv /\ Deepen => StateInv'
<1> SUFFICES ASSUME StateInv, Deepen PROVE StateInv'
  OBVIOUS
<1>1. /\ calls' = calls /\ lists' = lists /\ phase' = phase /\ fused' = fused
      /\ ranking' = ranking /\ results' = results /\ hop' = hop
      /\ found' = found /\ evidence' = evidence /\ node' = node /\ pending' = pending
      /\ phase = "expand" /\ pending = {} /\ depth < MaxDepth /\ depth' = depth + 1
      /\ frontier' = next /\ origins' = nextOrigins
      /\ next' = << >> /\ nextOrigins' = [n \in Nodes |-> {}]
      /\ fused # << >> /\ depth \in 1..MaxDepth
  BY DEF Deepen, FrontierDone, StateInv, Layers
<1>2. Seeds' = Seeds /\ Evidence' = Evidence
  BY <1>1, SameGraph
<1>3. depth' \in 1..MaxDepth /\ depth' \in 0..MaxDepth
  BY <1>1, ConstantsAreNumbers
<1>4. nextOrigins' \in [Nodes -> SUBSET Seeds]
  BY <1>1
<1>5. SearchTypeOK'
  BY <1>1, <1>2, <1>3, <1>4, EmptyRanked DEF StateInv, SearchTypeOK
<1>6. SeedsAtZero' /\ Nothing' /\ Candidates'
  <2>1. rrf_fuse(lists)' = rrf_fuse(lists)
    BY <1>1, SameFusion
  <2> QED
    BY <1>1, <1>2, <2>1 DEF StateInv, SeedsAtZero, Nothing, Candidates
<1>7. \A n \in Nodes : hop[n] <= depth /\ hop[n] \in Int
  BY <1>1 DEF StateInv, SearchTypeOK, Layers, Unknown
<1>8. Started'
  BY <1>1, <1>7 DEF StateInv, Started
<1>9. Layers'
  <2>1. \A n \in Nodes : hop[n] <= depth + 1 /\ hop[n] # depth + 1
    BY <1>1, <1>7
  <2>2. \A n \in Range(next) : hop[n] = (depth + 1) - 1
    BY <1>1 DEF StateInv, Layers
  <2> QED
    BY <1>1, <1>3, <2>1, <2>2, EmptyRanked DEF Layers
<1> QED
  BY <1>5, <1>6, <1>8, <1>9 DEF StateInv

(* The graph's list ranks the candidates. *)
LEMMA GraphListRanks ==
  ASSUME StateInv
  PROVE  GraphList \in RankedList /\ Range(order_for_fusion) = Range(found)
<1>1. /\ found \in RankedItems /\ fused \in RankedItems /\ evidence \in [Nodes -> SUBSET Evidence]
  BY DEF StateInv, SearchTypeOK
<1>2. Range(found) \in SUBSET Nodes
  BY <1>1, RankedItemsAre
<1>3. Seeds \subseteq Range(fused) /\ Seeds \subseteq Nodes
  <2>1. SeedCount \in 0..Len(fused)
    BY <1>1, RankedItemsAre, ConstantsAreNumbers DEF SeedCount, Smaller
  <2> QED
    <3>1. \A r \in 1..SeedCount : fused[r] \in Range(fused)
      BY <1>1, <2>1, RankedItemsAre
    <3>2. Seeds \subseteq Range(fused)
      BY <3>1 DEF Seeds
    <3> QED
      BY <3>2, SeedsAreNodes
<1>4. ASSUME NEW c \in Range(found)
      PROVE  HopOf(c) \in Int /\ BestSeedRank(c) \in Int /\ -Cardinality(Supporters(c)) \in Int /\ c \in Int
  <2>1. evidence[c] # {} /\ evidence[c] \subseteq Evidence /\ c \in Nodes
    BY <1>1, <1>2 DEF StateInv, Candidates
  <2>2. HopOf(c) \in Int
    <3> DEFINE H == {e.hop : e \in evidence[c]}
    <3>1. H \in SUBSET (0..MaxDepth) /\ H # {} /\ MaxDepth \in Nat
      BY <2>1, ConstantsAreNumbers DEF Evidence
    <3> HIDE DEF H
    <3>2. Min(H) \in H
      BY <3>1, MinIsLeast
    <3>3. Min(H) \in 0..MaxDepth
      BY <3>1, <3>2
    <3> QED
      BY <3>3 DEF HopOf, H
  <2>3. Supporters(c) \in SUBSET Seeds /\ Supporters(c) # {}
    BY <2>1 DEF Supporters, Evidence
  <2>4. BestSeedRank(c) \in Int
    <3> DEFINE R == {SeedRank(o) : o \in Supporters(c)}
    <3>1. \A o \in Seeds : SeedRank(o) \in 1..Len(fused)
      BY <1>1, <1>3, RankInIsPlace DEF SeedRank
    <3>2. R \in SUBSET (0..Len(fused)) /\ R # {} /\ Len(fused) \in Nat
      BY <2>3, <3>1, <1>1, RankedItemsAre
    <3> HIDE DEF R
    <3>3. Min(R) \in R
      BY <3>2, MinIsLeast
    <3>4. Min(R) \in 0..Len(fused)
      BY <3>2, <3>3
    <3> QED
      BY <3>4 DEF BestSeedRank, R
  <2>5. Cardinality(Supporters(c)) \in Nat
    <3>1. IsFiniteSet(Nodes)
      BY ConstantsAreNumbers, FS_Interval DEF Nodes
    <3>2. Supporters(c) \in SUBSET Nodes
      BY <2>3, <1>3
    <3> QED
      BY <3>1, <3>2, FS_Subset, FS_CardinalityType
  <2>6. c \in Int
    BY <2>1 DEF Nodes
  <2> QED
    BY <2>2, <2>4, <2>5, <2>6
<1>5. GraphKeys \in [Range(found) -> Quads] /\ \A c \in Range(found) : GraphKeys[c][4] = c
  <2> SUFFICES ASSUME NEW c \in Range(found)
               PROVE  GraphKeys[c] \in Quads /\ GraphKeys[c][4] = c
    BY DEF GraphKeys
  <2>1. GraphKeys[c] = <<HopOf(c), BestSeedRank(c), -Cardinality(Supporters(c)), c>>
    BY DEF GraphKeys
  <2> QED
    BY <1>4, <2>1 DEF Quads
<1>6. order_for_fusion = Sorted(Range(found), ByKey(Range(found), GraphKeys))
  BY DEF order_for_fusion
<1>7. order_for_fusion \in RankedItems /\ Range(order_for_fusion) = Range(found)
  BY <1>2, <1>5, <1>6, ConstantsAreNumbers, SortedByKeyRanks
<1> QED
  BY <1>7, ConstantsAreNumbers DEF GraphList, RankedList

LEMMA FuseAgainState == StateInv /\ FuseAgain => StateInv'
<1> SUFFICES ASSUME StateInv, FuseAgain PROVE StateInv'
  OBVIOUS
<1>1. /\ calls' = calls /\ lists' = lists /\ fused' = fused /\ UNCHANGED expandVars
      /\ results' = results /\ phase = "expand" /\ phase' = "rerank" /\ ranking' = FusedAgain
      /\ fused # << >> /\ fused = rrf_fuse(lists)
  BY DEF FuseAgain, FrontierDone, StateInv, Layers, Nothing
<1>2. Seeds' = Seeds /\ Evidence' = Evidence
  BY <1>1, SameGraph
<1>3. Append(lists, GraphList) \in Seq(RankedList)
  BY GraphListRanks DEF StateInv, SearchTypeOK
<1>4. ranking' \in RankedItems
  BY <1>1, <1>3, FusionRanks DEF FusedAgain
<1>5. SearchTypeOK'
  BY <1>1, <1>2, <1>4 DEF StateInv, SearchTypeOK, expandVars
<1>6. rrf_fuse(lists)' = rrf_fuse(lists)
  BY <1>1, SameFusion
<1> QED
  BY <1>1, <1>2, <1>5, <1>6
     DEF StateInv, SeedsAtZero, Nothing, Layers, Candidates, Started, expandVars

LEMMA LastSteps ==
  ASSUME StateInv, Rerank \/ RerankFails \/ FailFirstStage \/ UNCHANGED searchVars
  PROVE  StateInv'
<1>1. /\ calls' = calls /\ lists' = lists /\ fused' = fused /\ UNCHANGED expandVars
      /\ ranking' = ranking
      /\ (phase' = "done" /\ phase = "rerank") \/ (phase' = "failed" /\ phase = "fuse") \/ phase' = phase
      /\ results' = results \/ results' = ranking \/ \E p \in PoolOrders : results' = Reranked(p)
  BY DEF Rerank, RerankFails, FailFirstStage, searchVars
<1>2. Seeds' = Seeds /\ Evidence' = Evidence /\ rrf_fuse(lists)' = rrf_fuse(lists)
      /\ \A n : Links(n)' = Links(n)
  BY <1>1, SameGraph, SameFusion
<1>3. results' \in RankedItems
  <2> SUFFICES ASSUME NEW p \in PoolOrders PROVE Reranked(p) \in RankedItems
    BY <1>1 DEF StateInv, SearchTypeOK
  <2> DEFINE n == Len(ranking)
             t == Reranked(p)
  <2>1. ranking \in RankedItems
    BY DEF StateInv, SearchTypeOK
  <2>2. /\ n \in Nat /\ DOMAIN ranking = 1..n
        /\ \A i \in 1..n : ranking[i] \in Nodes
        /\ \A i, j \in 1..n : ranking[i] = ranking[j] => i = j
    BY <2>1, RankedItemsAre
  <2>3. Pool \in 0..n
    BY <2>2, ConstantsAreNumbers DEF Pool, Smaller
  <2>4. p \in [1..Pool -> 1..Pool] /\ \A i, j \in 1..Pool : p[i] = p[j] => i = j
    BY DEF PoolOrders, Injection, IsInjective
  <2>5. t = [i \in 1..n |-> IF i <= Pool THEN ranking[p[i]] ELSE ranking[i]]
    BY <2>2 DEF Reranked
  <2> DEFINE place == [i \in 1..n |-> IF i <= Pool THEN p[i] ELSE i]
  <2>6. place \in [1..n -> 1..n] /\ \A i, j \in 1..n : place[i] = place[j] => i = j
    <3> HIDE DEF n
    <3>1. \A i \in 1..n : IF i <= Pool THEN i \in 1..Pool /\ place[i] = p[i] /\ place[i] \in 1..Pool
                                       ELSE place[i] = i
      BY <2>2, <2>3, <2>4
    <3> HIDE DEF place
    <3>2. ASSUME NEW i \in 1..n PROVE place[i] \in 1..n
      BY <2>2, <2>3, <3>1
    <3>3. ASSUME NEW i \in 1..n, NEW j \in 1..n, place[i] = place[j] PROVE i = j
      <4>1. CASE i <= Pool /\ j <= Pool
        BY <2>4, <3>1, <3>3, <4>1
      <4>2. CASE ~(i <= Pool) /\ ~(j <= Pool)
        BY <3>1, <3>3, <4>2
      <4>3. CASE i <= Pool /\ ~(j <= Pool)
        BY <2>2, <2>3, <3>1, <3>3, <4>3
      <4>4. CASE ~(i <= Pool) /\ j <= Pool
        BY <2>2, <2>3, <3>1, <3>3, <4>4
      <4> QED
        BY <4>1, <4>2, <4>3, <4>4
    <3>4. place \in [1..n -> 1..n]
      BY <3>2 DEF place
    <3> QED
      BY <3>3, <3>4
  <2>7. \A i \in 1..n : t[i] = ranking[place[i]]
    BY <2>5
  <2>8. DOMAIN t = 1..n
    BY <2>5
  <2> HIDE DEF place
  <2>9. \A i \in 1..n : t[i] \in Nodes
    BY <2>2, <2>6, <2>7
  <2>10. IsInjective(t)
    <3> HIDE DEF t
    <3> QED
      BY <2>2, <2>6, <2>7, <2>8 DEF IsInjective
  <2>11. t \in Seq(Nodes)
    <3>1. t = [i \in 1..n |-> t[i]]
      BY <2>5
    <3> HIDE DEF t, n
    <3>2. t \in [1..n -> Nodes]
      BY <3>1, <2>9
    <3> QED
      BY <3>2, <2>2
  <2> QED
    BY <2>10, <2>11 DEF RankedItems
<1>4. SearchTypeOK'
  BY <1>1, <1>2, <1>3 DEF StateInv, SearchTypeOK, expandVars
<1> QED
  BY <1>1, <1>2, <1>4
     DEF StateInv, SeedsAtZero, Nothing, Layers, Candidates, Started, expandVars

LEMMA NextState == StateInv /\ [SearchNext]_searchVars => StateInv'
  BY FuseState, FollowState, PassOverState, FindNewState, MeetSeedState, MeetAgainState, DeepenState,
     FuseAgainState, LastSteps DEF SearchNext, Visit

LEMMA AlwaysState == SearchSpec => []StateInv
  BY InitState, NextState, PTL DEF SearchSpec

(* Every list of a query ranks functions without repetition, and all that the *)
(* traversal keeps is about functions, seeds and depths that exist. *)
THEOREM SearchTypesHold == SearchSpec => []SearchTypeOK
<1>1. StateInv => SearchTypeOK
  BY DEF StateInv
<1> QED
  BY AlwaysState, <1>1, PTL

-----------------------------------------------------------------------------
(* Distances. *)

DistancesHold == \A n \in Nodes : hop[n] > 0 => n \in Within[hop[n]] /\ n \notin Within[hop[n] - 1]

\* As long as the cap is not reached, all of the last depth is known, and so is
\* what the links followed so far lead to.
Complete ==
  phase = "expand" /\ Added < MaxAdded =>
    /\ \A n \in Within[depth - 1] : hop[n] # Unknown
    /\ \A n \in Nodes, m \in Nodes :
         hop[n] \in 0..(depth - 1) /\ n \notin Range(frontier) /\ m \in Neighbours(n)
           => hop[m] # Unknown \/ (n = node /\ \E r \in {1, 2} : <<r, m>> \in pending)

CompleteAtEnd ==
  phase \in {"rerank", "done"} /\ fused # << >> /\ Added < MaxAdded
    => \A n \in Within[MaxDepth] : hop[n] # Unknown

DistanceInv == Added <= MaxAdded /\ DistancesHold /\ Complete /\ CompleteAtEnd

LEMMA StepType == \A S \in SUBSET Nodes : Step(S) \in SUBSET Nodes
  BY LinksLead DEF Step

LEMMA StepLeads ==
  ASSUME NEW S \in SUBSET Nodes, NEW n \in S, NEW m \in Neighbours(n)
  PROVE  m \in Step(S)
  BY DEF Step

LEMMA WithinIs ==
  ASSUME StateInv
  PROVE  /\ Within \in [0..MaxDepth -> SUBSET Nodes] /\ Within[0] = Seeds
         /\ \A d \in 1..MaxDepth : Within[d] = Within[d - 1] \cup Step(Within[d - 1])
  BY SeedsAreNodes, StepType, ConstantsAreNumbers, WithinUnfolds

LEMMA WithinStarts == StateInv => Within[0] = Seeds /\ Seeds \subseteq Nodes
  BY WithinIs, SeedsAreNodes

LEMMA WithinStartsNext == StateInv' => (Within[0] = Seeds /\ Seeds \subseteq Nodes)'
  BY WithinStarts, PTL

LEMMA WithinGrows ==
  ASSUME StateInv, NEW d \in 0..MaxDepth, NEW e \in d..MaxDepth
  PROVE  Within[d] \subseteq Within[e]
<1> DEFINE S == {k \in 0..(MaxDepth - d) : Within[d] \subseteq Within[d + k]}
<1>1. MaxDepth \in Nat /\ MaxDepth - d \in Nat
  BY ConstantsAreNumbers
<1>2. 0 \in S
  BY <1>1
<1>3. ASSUME NEW k \in 0..((MaxDepth - d) - 1), k \in S PROVE k + 1 \in S
  <2>1. d + (k + 1) \in 1..MaxDepth /\ (d + (k + 1)) - 1 = d + k
    BY <1>1
  <2>2. Within[d + k] \subseteq Within[d + (k + 1)]
    BY <2>1, WithinIs
  <2> QED
    BY <1>1, <1>3, <2>2
<1>4. S \in SUBSET (0..(MaxDepth - d))
  OBVIOUS
<1> HIDE DEF S
<1>5. S = 0..(MaxDepth - d)
  BY <1>1, <1>2, <1>3, <1>4, ClimbsToAll
<1>6. e - d \in S /\ d + (e - d) = e
  BY <1>1, <1>5
<1> QED
  BY <1>6 DEF S

(* A set that has the seeds and all its neighbours has everything in reach. *)
LEMMA ClosedHasAll ==
  ASSUME StateInv, NEW K \in SUBSET Nodes, Seeds \subseteq K, Step(K) \subseteq K,
         NEW d \in 0..MaxDepth
  PROVE  Within[d] \subseteq K
<1> DEFINE S == {e \in 0..MaxDepth : Within[e] \subseteq K}
<1>1. MaxDepth \in Nat
  BY ConstantsAreNumbers
<1>2. 0 \in S
  BY <1>1, WithinIs
<1>3. ASSUME NEW e \in 0..(MaxDepth - 1), e \in S PROVE e + 1 \in S
  <2>1. e + 1 \in 1..MaxDepth /\ (e + 1) - 1 = e /\ e + 1 \in 0..MaxDepth
    BY <1>1
  <2>2. Within[e + 1] = Within[e] \cup Step(Within[e])
    BY <2>1, WithinIs
  <2>3. Step(Within[e]) \subseteq Step(K)
    BY <1>3 DEF Step
  <2> QED
    BY <1>3, <2>1, <2>2, <2>3
<1>4. S \in SUBSET (0..MaxDepth)
  OBVIOUS
<1> HIDE DEF S
<1>5. S = 0..MaxDepth
  BY <1>1, <1>2, <1>3, <1>4, ClimbsToAll
<1> QED
  BY <1>5 DEF S

(* The distance of a function that is known. *)
LEMMA HopBounds ==
  ASSUME StateInv, NEW n \in Nodes
  PROVE  /\ hop[n] \in Int /\ hop[n] <= MaxDepth
         /\ hop[n] # Unknown => hop[n] \in 0..MaxDepth
         /\ hop[n] > 0 => hop[n] - 1 \in 0..MaxDepth
         /\ phase = "expand" /\ hop[n] # Unknown => hop[n] \in 0..depth
<1>1. hop[n] \in Unknown..MaxDepth /\ MaxDepth \in Nat
  BY ConstantsAreNumbers DEF StateInv, SearchTypeOK
<1>2. phase = "expand" => depth \in 1..MaxDepth /\ hop[n] <= depth
  BY DEF StateInv, Layers
<1> QED
  BY <1>1, <1>2 DEF Unknown

LEMMA KnownIsWithin ==
  ASSUME StateInv, DistancesHold, NEW n \in Nodes, hop[n] # Unknown, NEW d \in hop[n]..MaxDepth
  PROVE  n \in Within[d]
<1>1. hop[n] \in 0..MaxDepth
  BY HopBounds
<1>2. n \in Within[hop[n]]
  <2>1. CASE hop[n] = 0
    BY <2>1, WithinIs DEF StateInv, SeedsAtZero
  <2>2. CASE hop[n] > 0
    BY <2>2 DEF DistancesHold
  <2> QED
    BY <1>1, <2>1, <2>2
<1> QED
  BY <1>1, <1>2, WithinGrows

(* What is within a depth and known was found by then. *)
LEMMA WithinIsEarly ==
  ASSUME StateInv, DistancesHold, NEW d \in 0..MaxDepth, NEW n \in Within[d], hop[n] # Unknown
  PROVE  hop[n] \in 0..d
<1>1. n \in Nodes
  BY WithinIs
<1>2. hop[n] \in 0..MaxDepth
  BY <1>1, HopBounds
<1>3. ASSUME hop[n] > d PROVE FALSE
  <2>1. hop[n] - 1 \in d..MaxDepth /\ hop[n] > 0
    BY <1>2, <1>3, ConstantsAreNumbers
  <2>2. n \in Within[hop[n] - 1]
    BY <2>1, WithinGrows
  <2> QED
    BY <1>1, <2>1, <2>2 DEF DistancesHold
<1> QED
  BY <1>2, <1>3

LEMMA AddedCounts ==
  ASSUME StateInv
  PROVE  IsFiniteSet({n \in Nodes : hop[n] > 0}) /\ Added \in Nat
<1>1. IsFiniteSet(Nodes)
  BY ConstantsAreNumbers, FS_Interval DEF Nodes
<1>2. {n \in Nodes : hop[n] > 0} \in SUBSET Nodes
  OBVIOUS
<1> HIDE DEF Nodes
<1> QED
  BY <1>1, <1>2, FS_Subset, FS_CardinalityType DEF Added

LEMMA InitDistance == SearchInit => DistanceInv
<1> SUFFICES ASSUME SearchInit PROVE DistanceInv
  OBVIOUS
<1>1. {n \in Nodes : hop[n] > 0} = {}
  BY DEF SearchInit, Unknown
<1>2. Added = 0
  BY <1>1, FS_EmptySet DEF Added
<1> QED
  BY <1>1, <1>2, ConstantsAreNumbers
     DEF SearchInit, DistanceInv, DistancesHold, Complete, CompleteAtEnd

LEMMA FuseDistance == StateInv /\ StateInv' /\ DistanceInv /\ Fuse => DistanceInv'
<1> SUFFICES ASSUME StateInv, StateInv', DistanceInv, Fuse PROVE DistanceInv'
  OBVIOUS
<1>1. \A n \in Nodes : hop[n] = Unknown
  BY DEF Fuse, StateInv, Nothing
<1>2. \A n \in Nodes : ~(hop'[n] > 0)
  BY <1>1 DEF Fuse, Unknown
<1>3. Added' = 0
  <2>1. {n \in Nodes : hop'[n] > 0} = {}
    BY <1>2
  <2> QED
    BY <2>1, FS_EmptySet DEF Added
<1>4. CASE fused' = << >>
  BY <1>2, <1>3, <1>4, ConstantsAreNumbers DEF Fuse, DistanceInv, DistancesHold, Complete, CompleteAtEnd
<1>5. CASE fused' # << >>
  <2>1. /\ phase' = "expand" /\ depth' = 1 /\ frontier' = SubSeq(fused', 1, SeedCount')
        /\ hop' = [n \in Nodes |-> IF n \in Seeds' THEN 0 ELSE Unknown]
    BY <1>5 DEF Fuse
  <2>2. Range(frontier') = Seeds'
    <3>1. fused' \in RankedItems
      BY DEF StateInv, SearchTypeOK
    <3>2. SeedCount' \in 0..Len(fused')
      BY <3>1, RankedItemsAre, ConstantsAreNumbers DEF SeedCount, Smaller
    <3>3. Seeds' = {fused'[r] : r \in 1..SeedCount'}
      BY DEF Seeds
    <3> QED
      BY <2>1, <3>1, <3>2, <3>3, SubSeqRanked
  <2>3. Within'[0] = Seeds' /\ Seeds' \subseteq Nodes
    BY WithinStartsNext
  <2>4. Complete'
    <3>1. \A n \in Within'[depth' - 1] : hop'[n] # Unknown
      BY <2>1, <2>3 DEF Unknown
    <3>2. \A n \in Nodes : hop'[n] \in 0..(depth' - 1) => n \in Range(frontier')
      BY <2>1, <2>2 DEF Unknown
    <3> QED
      BY <3>1, <3>2 DEF Complete
  <2> QED
    BY <1>2, <1>3, <2>1, <2>4, ConstantsAreNumbers DEF DistanceInv, DistancesHold, CompleteAtEnd
<1> QED
  BY <1>4, <1>5

LEMMA SameDistances ==
  ASSUME calls' = calls, fused' = fused, hop' = hop
  PROVE  Added' = Added /\ (DistancesHold => DistancesHold')
<1>1. Added' = Added
  BY DEF Added
<1>2. Within' = Within
  BY SameGraph
<1> QED
  BY <1>1, <1>2 DEF DistancesHold

LEMMA FollowDistance == StateInv /\ DistanceInv /\ Follow => DistanceInv'
<1> SUFFICES ASSUME StateInv, DistanceInv, Follow PROVE DistanceInv'
  OBVIOUS
<1>1. /\ calls' = calls /\ fused' = fused /\ hop' = hop /\ phase' = phase /\ depth' = depth
      /\ phase = "expand" /\ pending = {} /\ node' = Head(frontier) /\ frontier' = Tail(frontier)
      /\ pending' = Links(node') /\ frontier # << >> /\ frontier \in RankedItems
  BY DEF Follow, StateInv, SearchTypeOK
<1>2. Added' = Added /\ DistancesHold'
  BY <1>1, SameDistances DEF DistanceInv
<1>3. Range(frontier) = Range(frontier') \cup {node'} /\ node' \in Nodes
  BY <1>1, TailRanked
<1>4. Within' = Within /\ \A n : Neighbours(n)' = Neighbours(n)
  BY <1>1, SameGraph
<1>5. ASSUME NEW m \in Neighbours(node') PROVE \E r \in {1, 2} : <<r, m>> \in pending'
  <2>1. PICK link \in Links(node') : m = link[2]
    BY DEF Neighbours
  <2>2. Links(node') \subseteq {1, 2} \X Nodes
    BY <1>3, LinksLead
  <2>3. link[1] \in {1, 2} /\ link = <<link[1], m>>
    BY <2>1, <2>2
  <2> QED
    BY <1>1, <2>1, <2>3
<1>6. Complete'
  <2> SUFFICES ASSUME phase' = "expand", Added' < MaxAdded
               PROVE  /\ \A n \in Within'[depth' - 1] : hop'[n] # Unknown
                      /\ \A n \in Nodes, m \in Nodes :
                           hop'[n] \in 0..(depth' - 1) /\ n \notin Range(frontier') /\ m \in Neighbours(n)'
                             => hop'[m] # Unknown \/ (n = node' /\ \E r \in {1, 2} : <<r, m>> \in pending')
    BY DEF Complete
  <2>1. /\ \A n \in Within[depth - 1] : hop[n] # Unknown
        /\ \A n \in Nodes, m \in Nodes :
             hop[n] \in 0..(depth - 1) /\ n \notin Range(frontier) /\ m \in Neighbours(n)
               => hop[m] # Unknown
    BY <1>1, <1>2 DEF DistanceInv, Complete
  <2> QED
    BY <1>1, <1>3, <1>4, <1>5, <2>1
<1> QED
  BY <1>1, <1>2, <1>6 DEF DistanceInv, CompleteAtEnd

(* A visit that adds nothing, because there is nothing to add or no room. *)
LEMMA VisitDistance ==
  ASSUME StateInv, DistanceInv, NEW m \in Nodes, Visiting(m), hop' = hop,
         hop[m] # Unknown \/ ~(Added < MaxAdded)
  PROVE  DistanceInv'
<1>1. /\ calls' = calls /\ fused' = fused /\ phase' = phase /\ depth' = depth
      /\ phase = "expand" /\ node' = node /\ frontier' = frontier
  BY VisitingIsOfNode DEF Visiting
<1>2. Added' = Added /\ DistancesHold'
  BY <1>1, SameDistances DEF DistanceInv
<1>3. Within' = Within /\ \A n : Neighbours(n)' = Neighbours(n)
  BY <1>1, SameGraph
<1>4. PICK r \in {1, 2} : pending' = pending \ {<<r, m>>}
  BY VisitingIsOfNode
<1>5. Complete'
  BY <1>1, <1>2, <1>3, <1>4 DEF DistanceInv, Complete
<1> QED
  BY <1>1, <1>2, <1>5 DEF DistanceInv, CompleteAtEnd

LEMMA FindNewDistance ==
  ASSUME StateInv, DistanceInv, NEW m \in Nodes, FindNew(m)
  PROVE  DistanceInv'
<1>1. /\ Visiting(m) /\ hop[m] = Unknown /\ ~IsSkipped(m) /\ hop' = [hop EXCEPT ![m] = depth]
  BY DEF FindNew
<1>2. /\ calls' = calls /\ fused' = fused /\ phase' = phase /\ depth' = depth
      /\ phase = "expand" /\ node' = node /\ frontier' = frontier
      /\ depth \in 1..MaxDepth /\ node \in Nodes /\ hop[node] = depth - 1 /\ m \in Neighbours(node)
  BY <1>1, VisitingIsOfNode DEF Visiting
<1>3. Within' = Within /\ \A n : Neighbours(n)' = Neighbours(n)
  BY <1>2, SameGraph
<1>4. PICK r \in {1, 2} : pending' = pending \ {<<r, m>>}
  BY <1>1, VisitingIsOfNode
<1>5. /\ hop \in [Nodes -> Unknown..MaxDepth] /\ hop'[m] = depth
      /\ \A n \in Nodes \ {m} : hop'[n] = hop[n]
  BY <1>1 DEF StateInv, SearchTypeOK
<1>6. Added < MaxAdded
  <2>1. ~(Added >= MaxAdded)
    BY <1>1 DEF IsSkipped, Unknown
  <2> QED
    BY <2>1, AddedCounts, ConstantsAreNumbers
<1>7. Added' = Added + 1
  <2> DEFINE H == {n \in Nodes : hop[n] > 0}
  <2>1. {n \in Nodes : hop'[n] > 0} = H \cup {m}
    BY <1>2, <1>5
  <2>2. m \notin H
    BY <1>1 DEF Unknown
  <2>3. IsFiniteSet(H)
    BY AddedCounts
  <2> HIDE DEF H
  <2>4. Cardinality(H \cup {m}) = Cardinality(H) + 1
    BY <2>2, <2>3, FS_AddElement
  <2>5. Added = Cardinality(H) /\ Added' = Cardinality(H \cup {m})
    BY <2>1 DEF Added, H
  <2> QED
    BY <2>4, <2>5
<1>8. Added' <= MaxAdded
  BY <1>6, <1>7, AddedCounts, ConstantsAreNumbers
<1>9. m \notin Within[depth - 1]
  BY <1>1, <1>2, <1>6 DEF DistanceInv, Complete
<1>10. m \in Within[depth]
  <2>1. depth - 1 \in hop[node]..MaxDepth /\ hop[node] # Unknown
    BY <1>2, ConstantsAreNumbers DEF Unknown
  <2>2. node \in Within[depth - 1]
    BY <1>2, <2>1, KnownIsWithin DEF DistanceInv
  <2>3. Within[depth - 1] \in SUBSET Nodes /\ Within[depth] = Within[depth - 1] \cup Step(Within[depth - 1])
    BY <1>2, WithinIs
  <2> QED
    BY <1>2, <2>2, <2>3, StepLeads
<1>11. DistancesHold'
  BY <1>2, <1>3, <1>5, <1>9, <1>10 DEF DistanceInv, DistancesHold
<1>12. Complete'
  <2>1. /\ \A n \in Within[depth - 1] : hop[n] # Unknown
        /\ \A n \in Nodes, k \in Nodes :
             hop[n] \in 0..(depth - 1) /\ n \notin Range(frontier) /\ k \in Neighbours(n)
               => hop[k] # Unknown \/ (n = node /\ \E q \in {1, 2} : <<q, k>> \in pending)
    BY <1>2, <1>6 DEF DistanceInv, Complete
  <2>2. depth # Unknown /\ depth \notin 0..(depth - 1)
    BY <1>2 DEF Unknown
  <2>3. ASSUME NEW n \in Within[depth - 1] PROVE hop'[n] # Unknown
    <3>1. n \in Nodes
      BY <1>2, WithinIs
    <3> QED
      BY <1>5, <2>1, <2>2, <3>1
  <2>4. ASSUME NEW n \in Nodes, NEW k \in Nodes, hop'[n] \in 0..(depth - 1),
               n \notin Range(frontier), k \in Neighbours(n)
        PROVE  hop'[k] # Unknown \/ (n = node /\ \E q \in {1, 2} : <<q, k>> \in pending')
    <3>1. hop[n] \in 0..(depth - 1)
      BY <1>5, <2>2, <2>4
    <3>2. CASE k = m
      BY <1>5, <2>2, <3>2
    <3>3. CASE k # m
      BY <1>4, <1>5, <2>1, <2>4, <3>1, <3>3
    <3> QED
      BY <3>2, <3>3
  <2> QED
    BY <1>2, <1>3, <2>3, <2>4 DEF Complete
<1> QED
  BY <1>2, <1>8, <1>11, <1>12 DEF DistanceInv, CompleteAtEnd

(* When a frontier is done, what is within the depth is known. *)
LEMMA DoneIsComplete ==
  ASSUME StateInv, DistanceInv, FrontierDone, Added < MaxAdded
  PROVE  /\ \A n \in Within[depth] : hop[n] # Unknown
         /\ \A n \in Nodes : hop[n] \in 0..(depth - 1) => \A m \in Neighbours(n) : hop[m] # Unknown
<1>1. phase = "expand" /\ pending = {} /\ frontier = << >> /\ depth \in 1..MaxDepth
  BY DEF FrontierDone, StateInv, Layers
<1>2. /\ \A n \in Within[depth - 1] : hop[n] # Unknown
      /\ \A n \in Nodes : hop[n] \in 0..(depth - 1) => \A m \in Neighbours(n) : hop[m] # Unknown
  BY <1>1, EmptyRanked, LinksLead DEF DistanceInv, Complete
<1>3. ASSUME NEW m \in Within[depth] PROVE hop[m] # Unknown
  <2>0. depth - 1 \in 0..MaxDepth
    BY <1>1, ConstantsAreNumbers
  <2>1. depth - 1 \in 0..MaxDepth /\ Within[depth - 1] \in SUBSET Nodes
        /\ Within[depth] = Within[depth - 1] \cup Step(Within[depth - 1])
    BY <1>1, <2>0, WithinIs
  <2>2. ASSUME NEW n \in Within[depth - 1], m \in Neighbours(n) PROVE hop[m] # Unknown
    <3>1. hop[n] \in 0..(depth - 1)
      BY <1>2, <2>1, WithinIsEarly DEF DistanceInv
    <3> QED
      BY <1>2, <2>1, <2>2, <3>1
  <2> QED
    BY <1>2, <2>1, <2>2 DEF Step
<1> QED
  BY <1>2, <1>3

LEMMA DeepenDistance == StateInv /\ DistanceInv /\ Deepen => DistanceInv'
<1> SUFFICES ASSUME StateInv, DistanceInv, Deepen PROVE DistanceInv'
  OBVIOUS
<1>1. /\ calls' = calls /\ fused' = fused /\ hop' = hop /\ phase' = phase /\ depth' = depth + 1
      /\ phase = "expand" /\ frontier' = next /\ node' = node /\ pending' = pending
      /\ FrontierDone /\ depth \in 1..MaxDepth
      /\ Range(next) = {n \in Nodes : hop[n] = depth}
  BY DEF Deepen, FrontierDone, StateInv, Layers
<1>2. Added' = Added /\ DistancesHold'
  BY <1>1, SameDistances DEF DistanceInv
<1>3. Within' = Within /\ \A n : Neighbours(n)' = Neighbours(n)
  BY <1>1, SameGraph
<1>4. Complete'
  <2> SUFFICES ASSUME Added < MaxAdded
               PROVE  /\ \A n \in Within[depth] : hop[n] # Unknown
                      /\ \A n \in Nodes, m \in Nodes :
                           hop[n] \in 0..depth /\ n \notin Range(next) /\ m \in Neighbours(n)
                             => hop[m] # Unknown
    BY <1>1, <1>2, <1>3 DEF Complete
  <2>1. ASSUME NEW n \in Nodes, hop[n] \in 0..depth, n \notin Range(next)
        PROVE  hop[n] \in 0..(depth - 1)
    BY <1>1, <2>1
  <2> QED
    BY <1>1, <2>1, DoneIsComplete
<1> QED
  BY <1>1, <1>2, <1>4 DEF DistanceInv, CompleteAtEnd

LEMMA FuseAgainDistance == StateInv /\ DistanceInv /\ FuseAgain => DistanceInv'
<1> SUFFICES ASSUME StateInv, DistanceInv, FuseAgain PROVE DistanceInv'
  OBVIOUS
<1>1. /\ calls' = calls /\ fused' = fused /\ hop' = hop /\ phase' = "rerank" /\ phase = "expand"
      /\ FrontierDone /\ depth \in 1..MaxDepth /\ (depth = MaxDepth \/ next = << >>)
      /\ Range(next) = {n \in Nodes : hop[n] = depth}
  BY DEF FuseAgain, FrontierDone, StateInv, Layers, expandVars
<1>2. Added' = Added /\ DistancesHold'
  BY <1>1, SameDistances DEF DistanceInv
<1>3. Within' = Within
  BY <1>1, SameGraph
<1>4. ASSUME Added < MaxAdded, NEW n \in Within[MaxDepth] PROVE hop[n] # Unknown
  <2>1. CASE depth = MaxDepth
    <3>1. \A k \in Within[depth] : hop[k] # Unknown
      BY <1>1, <1>4, DoneIsComplete
    <3> QED
      BY <1>4, <2>1, <3>1
  <2>2. CASE next = << >>
    <3> DEFINE K == {k \in Nodes : hop[k] # Unknown}
    <3>1. ASSUME NEW k \in K PROVE hop[k] \in 0..(depth - 1)
      <4>1. hop[k] # depth
        BY <1>1, <2>2, EmptyRanked
      <4>2. hop[k] \in 0..depth /\ depth \in Nat
        BY <1>1, HopBounds, ConstantsAreNumbers
      <4> QED
        BY <4>1, <4>2
    <3>2. Step(K) \subseteq K
      <4>1. \A k \in Nodes : hop[k] \in 0..(depth - 1) => \A m \in Neighbours(k) : hop[m] # Unknown
        BY <1>1, <1>4, DoneIsComplete
      <4>2. \A k \in K : \A m \in Neighbours(k) : m \in K
        BY <3>1, <4>1, LinksLead
      <4> HIDE DEF K
      <4> QED
        BY <4>2 DEF Step
    <3>3. Seeds \subseteq K
      BY SeedsAreNodes DEF StateInv, SeedsAtZero, Unknown
    <3>4. MaxDepth \in 0..MaxDepth /\ K \in SUBSET Nodes
      BY ConstantsAreNumbers
    <3> HIDE DEF K
    <3>5. Within[MaxDepth] \subseteq K
      BY <3>2, <3>3, <3>4, ClosedHasAll
    <3> QED
      BY <3>5 DEF K
  <2> QED
    BY <1>1, <2>1, <2>2
<1> QED
  BY <1>1, <1>2, <1>3, <1>4 DEF DistanceInv, Complete, CompleteAtEnd

LEMMA LastDistance ==
  ASSUME StateInv, DistanceInv, Rerank \/ RerankFails \/ FailFirstStage \/ UNCHANGED searchVars
  PROVE  DistanceInv'
<1>1. /\ calls' = calls /\ fused' = fused /\ UNCHANGED expandVars
      /\ (phase' = "done" /\ phase = "rerank") \/ phase' = "failed" \/ phase' = phase
  BY DEF Rerank, RerankFails, FailFirstStage, searchVars
<1>2. hop' = hop /\ depth' = depth /\ node' = node /\ pending' = pending /\ frontier' = frontier
  BY <1>1 DEF expandVars
<1>3. Added' = Added /\ DistancesHold'
  BY <1>1, <1>2, SameDistances DEF DistanceInv
<1>4. Within' = Within /\ \A n : Neighbours(n)' = Neighbours(n)
  BY <1>1, SameGraph
<1> QED
  BY <1>1, <1>2, <1>3, <1>4 DEF DistanceInv, Complete, CompleteAtEnd

LEMMA NextDistance == StateInv /\ StateInv' /\ DistanceInv /\ [SearchNext]_searchVars => DistanceInv'
<1> SUFFICES ASSUME StateInv, StateInv', DistanceInv, [SearchNext]_searchVars PROVE DistanceInv'
  OBVIOUS
<1>1. ASSUME NEW m \in Nodes, PassOver(m) PROVE DistanceInv'
  <2>1. ASSUME hop[m] = Unknown PROVE ~(Added < MaxAdded)
    <3>1. Added >= MaxAdded
      BY <1>1, <2>1 DEF PassOver, IsSkipped, Unknown
    <3> QED
      BY <3>1, AddedCounts, ConstantsAreNumbers
  <2> QED
    BY <1>1, <2>1, VisitDistance DEF PassOver
<1>2. ASSUME NEW m \in Nodes, MeetSeed(m) PROVE DistanceInv'
  BY <1>2, VisitDistance DEF MeetSeed, Unknown
<1>3. ASSUME NEW m \in Nodes, MeetAgain(m) PROVE DistanceInv'
  <2>1. depth # Unknown
    BY <1>3 DEF StateInv, SearchTypeOK, MeetAgain, Unknown
  <2> QED
    BY <1>3, <2>1, VisitDistance DEF MeetAgain
<1> QED
  BY <1>1, <1>2, <1>3, FuseDistance, FollowDistance, FindNewDistance, DeepenDistance, FuseAgainDistance,
     LastDistance DEF SearchNext, Visit

LEMMA AlwaysDistance == SearchSpec => [](StateInv /\ DistanceInv)
  BY InitState, NextState, InitDistance, NextDistance, PTL DEF SearchSpec

(* Hops are distances, the cap on added functions holds, and until it is reached *)
(* nothing in reach is missing (graph.py expand). *)
THEOREM SearchHopIsDistance == SearchSpec => []HopIsDistance
<1>1. StateInv /\ DistanceInv => HopIsDistance
  <2> SUFFICES ASSUME StateInv, DistanceInv, NEW n \in Nodes,
                      phase \in {"rerank", "done"}, fused # << >>, Added < MaxAdded, hop[n] # Unknown
               PROVE  n \in Within[MaxDepth]
    BY DEF DistanceInv, DistancesHold, CompleteAtEnd, HopIsDistance
  <2>1. MaxDepth \in hop[n]..MaxDepth
    BY HopBounds, ConstantsAreNumbers
  <2> QED
    BY <2>1, KnownIsWithin DEF DistanceInv
<1> QED
  BY AlwaysDistance, <1>1, PTL

-----------------------------------------------------------------------------
(* Graph evidence only lifts. *)

LEMMA FuseAgainLifts == StateInv /\ FuseAgain => GraphOnlyLifts'
<1> SUFFICES ASSUME StateInv, FuseAgain,
                    NEW x \in Range(fused'), NEW y \in Range(fused'),
                    Before(fused', x, y), y \notin Range(found')
             PROVE  Before(ranking', x, y)
  BY DEF GraphOnlyLifts
<1>1. /\ lists \in Seq(RankedList) /\ fused = rrf_fuse(lists)
      /\ fused' = fused /\ found' = found /\ ranking' = rrf_fuse(Append(lists, GraphList))
  BY DEF FuseAgain, FusedAgain, expandVars, FrontierDone, StateInv, SearchTypeOK, Nothing
<1>2. x \in Items(lists) /\ y \in Items(lists)
  BY <1>1, FusionRanks
<1>3. GraphList \in RankedList /\ y \notin Range(GraphList.items)
  BY <1>1, GraphListRanks DEF GraphList
<1>4. Before(rrf_fuse(Append(lists, GraphList)), x, y)
  BY <1>1, <1>2, <1>3, OneMoreListLifts
<1> QED
  BY <1>1, <1>4

LEMMA NextLifts == StateInv /\ GraphOnlyLifts /\ [SearchNext]_searchVars => GraphOnlyLifts'
<1> SUFFICES ASSUME StateInv, GraphOnlyLifts, [SearchNext]_searchVars PROVE GraphOnlyLifts'
  OBVIOUS
<1>1. CASE Fuse
  BY <1>1, EmptyRanked DEF Fuse, GraphOnlyLifts
<1>2. CASE Follow \/ Deepen \/ \E m \in Nodes : Visit(m)
  <2>1. phase' = "expand"
    BY <1>2 DEF Follow, Deepen, FrontierDone, Visit, PassOver, FindNew, MeetSeed, MeetAgain, Visiting
  <2> QED
    BY <2>1 DEF GraphOnlyLifts
<1>3. CASE Rerank \/ RerankFails \/ FailFirstStage \/ UNCHANGED searchVars
  <2>1. /\ fused' = fused /\ found' = found /\ ranking' = ranking
        /\ phase' \in {"rerank", "done"} => phase \in {"rerank", "done"}
    BY <1>3 DEF Rerank, RerankFails, FailFirstStage, searchVars, expandVars
  <2> QED
    BY <2>1 DEF GraphOnlyLifts, Before, RankIn
<1> QED
  BY <1>1, <1>2, <1>3, FuseAgainLifts DEF SearchNext

(* In the second fusion, what the graph does not support overtakes nobody *)
(* (pipeline.py _expand). *)
THEOREM SearchGraphOnlyLifts == SearchSpec => []GraphOnlyLifts
<1>1. SearchInit => GraphOnlyLifts
  BY DEF SearchInit, GraphOnlyLifts
<1> QED
  BY <1>1, InitState, NextState, NextLifts, PTL DEF SearchSpec

-----------------------------------------------------------------------------
(* Walks, and what supports a candidate. *)

\* The walks of d steps from a seed, by their last step.
WalkLaws ==
  \A o \in Nodes :
    /\ WalksFrom(o) \in [0..MaxDepth -> SUBSET Nodes] /\ WalksFrom(o)[0] = {o}
    /\ \A d \in 1..MaxDepth, n \in Nodes :
         n \in WalksFrom(o)[d] <=>
           \E g \in WalksFrom(o)[d - 1] : n \in Neighbours(g) /\ (d = 1 \/ hop[g] > 0)

LEMMA WalksUnfold ==
  ASSUME NEW o \in Nodes
  PROVE  /\ WalksFrom(o) \in [0..MaxDepth -> SUBSET Nodes] /\ WalksFrom(o)[0] = {o}
         /\ \A d \in 1..MaxDepth :
              WalksFrom(o)[d] = Step(IF d = 1 THEN {o} ELSE Through(WalksFrom(o)[d - 1]))
<1> DEFINE First(d, S) == IF d = 1 THEN {o} ELSE Through(S)
           g == [p \in (1..MaxDepth) \X SUBSET Nodes |-> Step(First(p[1], p[2]))]
<1>1. \A d : \A S \in SUBSET Nodes : Step(First(d, S)) \in SUBSET Nodes
  <2>1. \A d : \A S \in SUBSET Nodes : First(d, S) \in SUBSET Nodes
    BY DEF Through
  <2> QED
    BY <2>1, StepType
<1>2. MaxDepth \in Nat /\ {o} \in SUBSET Nodes
  BY ConstantsAreNumbers
<1>3. g \in [(1..MaxDepth) \X SUBSET Nodes -> SUBSET Nodes]
  <2> HIDE DEF First
  <2> QED
    BY <1>1
<1>4. PICK w : IsRecursion(w, MaxDepth, SUBSET Nodes, {o}, g)
  <2> HIDE DEF g
  <2> QED
    BY <1>2, <1>3, RecursionExists
<1>5. w \in [0..MaxDepth -> SUBSET Nodes] /\ w[0] = {o}
  BY <1>4 DEF IsRecursion
<1>6. ASSUME NEW d \in 1..MaxDepth PROVE w[d] = Step(First(d, w[d - 1]))
  <2>1. w[d - 1] \in SUBSET Nodes
    BY <1>2, <1>5
  <2>2. w[d] = g[<<d, w[d - 1]>>]
    BY <1>4 DEF IsRecursion
  <2>3. g[<<d, w[d - 1]>>] = Step(First(d, w[d - 1]))
    <3> HIDE DEF First
    <3> QED
      BY <2>1
  <2> QED
    BY <2>2, <2>3
<1> HIDE DEF g
<1> DEFINE F(v) == [d \in 0..MaxDepth |->
                      IF d = 0 THEN {o} ELSE Step(IF d = 1 THEN v[0] ELSE Through(v[d - 1]))]
<1>7. w = F(w)
  <2>1. DOMAIN F(w) = 0..MaxDepth /\ w = [d \in 0..MaxDepth |-> w[d]]
    BY <1>5
  <2>2. ASSUME NEW d \in 0..MaxDepth PROVE w[d] = F(w)[d]
    <3>1. CASE d = 0
      BY <1>5, <3>1
    <3>2. CASE d # 0
      <4>1. d \in 1..MaxDepth /\ F(w)[d] = Step(IF d = 1 THEN w[0] ELSE Through(w[d - 1]))
        BY <1>2, <3>2
      <4>2. w[d] = Step(IF d = 1 THEN {o} ELSE Through(w[d - 1]))
        BY <1>6, <4>1
      <4> HIDE DEF F
      <4> QED
        BY <1>5, <4>1, <4>2
    <3> QED
      BY <3>1, <3>2
  <2> HIDE DEF F
  <2>3. F(w) = [d \in 0..MaxDepth |-> F(w)[d]]
    BY DEF F
  <2> QED
    BY <2>1, <2>2, <2>3
<1> DEFINE v == WalksFrom(o)
<1>8. v = F(v)
  BY <1>7 DEF WalksFrom
<1> HIDE DEF v
<1>9. DOMAIN v = 0..MaxDepth /\ v[0] = {o}
  <2>1. DOMAIN F(v) = 0..MaxDepth /\ F(v)[0] = {o}
    BY <1>2
  <2> HIDE DEF F
  <2> QED
    BY <1>8, <2>1
<1>10. ASSUME NEW d \in 1..MaxDepth PROVE v[d] = Step(First(d, v[d - 1]))
  <2>1. F(v)[d] = Step(IF d = 1 THEN v[0] ELSE Through(v[d - 1]))
    BY <1>2
  <2> HIDE DEF F
  <2>2. v[d] = Step(IF d = 1 THEN v[0] ELSE Through(v[d - 1]))
    BY <1>8, <2>1
  <2> QED
    BY <1>9, <2>2
<1> DEFINE Good == {d \in 0..MaxDepth : v[d] \in SUBSET Nodes}
<1>11. Good = 0..MaxDepth
  <2>1. 0 \in Good
    BY <1>2, <1>9
  <2>2. ASSUME NEW d \in 0..(MaxDepth - 1), d \in Good PROVE d + 1 \in Good
    <3>1. v[d + 1] = Step(First(d + 1, v[d])) /\ d + 1 \in 0..MaxDepth
      <4>1. d + 1 \in 1..MaxDepth /\ (d + 1) - 1 = d
        BY <1>2
      <4> HIDE DEF First
      <4> QED
        BY <1>10, <4>1
    <3> HIDE DEF First
    <3> QED
      BY <1>1, <2>2, <3>1
  <2>3. Good \in SUBSET (0..MaxDepth) /\ MaxDepth \in Nat
    BY <1>2
  <2> HIDE DEF Good
  <2> QED
    BY <2>1, <2>2, <2>3, ClimbsToAll
<1>12. v \in [0..MaxDepth -> SUBSET Nodes]
  <2>1. v = [d \in 0..MaxDepth |-> v[d]]
    BY <1>8, <1>9
  <2>2. \A d \in 0..MaxDepth : v[d] \in SUBSET Nodes
    BY <1>11
  <2> QED
    BY <2>1, <2>2
<1> QED
  BY <1>9, <1>10, <1>12 DEF v

LEMMA WalksObey == WalkLaws
<1> SUFFICES ASSUME NEW o \in Nodes, NEW d \in 1..MaxDepth, NEW n \in Nodes
             PROVE  n \in WalksFrom(o)[d] <=>
                      \E g \in WalksFrom(o)[d - 1] : n \in Neighbours(g) /\ (d = 1 \/ hop[g] > 0)
  BY WalksUnfold DEF WalkLaws
<1>1. /\ WalksFrom(o)[d] = Step(IF d = 1 THEN {o} ELSE Through(WalksFrom(o)[d - 1]))
      /\ WalksFrom(o)[0] = {o}
  BY WalksUnfold
<1>2. CASE d = 1
  <2>1. d - 1 = 0
    BY <1>2
  <2>2. WalksFrom(o)[d] = Step({o})
    BY <1>1, <1>2
  <2> QED
    BY <1>1, <1>2, <2>1, <2>2 DEF Step
<1>3. CASE d # 1
  <2>1. WalksFrom(o)[d] = Step(Through(WalksFrom(o)[d - 1]))
    BY <1>1, <1>3
  <2> QED
    BY <1>3, <2>1 DEF Step, Through
<1> QED
  BY <1>2, <1>3

LEMMA WalksObeyNext == WalkLaws'
  BY WalksObey, PTL

(* A walk from a seed stays within its length. *)
LEMMA WalksAreWithin ==
  ASSUME StateInv, NEW o \in Seeds, NEW d \in 0..MaxDepth
  PROVE  WalksFrom(o)[d] \subseteq Within[d]
<1> DEFINE v == WalksFrom(o)
           S == {k \in 0..MaxDepth : v[k] \subseteq Within[k]}
<1>1. MaxDepth \in Nat /\ o \in Nodes
  BY ConstantsAreNumbers, SeedsAreNodes
<1>2. /\ v \in [0..MaxDepth -> SUBSET Nodes] /\ v[0] = {o}
      /\ \A k \in 1..MaxDepth, n \in Nodes :
           n \in v[k] <=> \E g \in v[k - 1] : n \in Neighbours(g) /\ (k = 1 \/ hop[g] > 0)
  BY <1>1, WalksObey DEF WalkLaws
<1> HIDE DEF v
<1>3. 0 \in S
  BY <1>1, <1>2, WithinIs
<1>4. ASSUME NEW k \in 0..(MaxDepth - 1), k \in S PROVE k + 1 \in S
  <2>1. k + 1 \in 1..MaxDepth /\ (k + 1) - 1 = k /\ k + 1 \in 0..MaxDepth
    BY <1>1
  <2>2. Within[k + 1] = Within[k] \cup Step(Within[k]) /\ Within[k] \in SUBSET Nodes
    BY <2>1, WithinIs
  <2>3. v[k + 1] \subseteq Nodes
    BY <1>2, <2>1
  <2>4. ASSUME NEW n \in v[k + 1] PROVE n \in Step(Within[k])
    <3>1. PICK g \in v[k] : n \in Neighbours(g)
      BY <1>2, <2>1, <2>3
    <3>2. g \in Within[k]
      BY <1>4
    <3> QED
      BY <2>2, <3>1, <3>2, StepLeads
  <2> QED
    BY <2>1, <2>2, <2>4
<1>5. S \in SUBSET (0..MaxDepth)
  OBVIOUS
<1> HIDE DEF S
<1>6. S = 0..MaxDepth
  BY <1>1, <1>3, <1>4, <1>5, ClimbsToAll
<1> QED
  BY <1>6 DEF S, v

\* The seeds with a walk of d steps to n.
Reaching(n, d) == {o \in Seeds : n \in WalksFrom(o)[d]}

WalksHold ==
  \A n \in Nodes : \A e \in evidence[n] :
    /\ e.seed # n /\ n \in Neighbours(e.via)
    /\ e.via \in WalksFrom(e.seed)[e.hop - 1] /\ n \in WalksFrom(e.seed)[e.hop]
    /\ hop[n] > 0 => e.hop = hop[n]

\* The depths completed have all their support.
SupportHolds ==
  \A n \in Nodes, d \in 1..MaxDepth :
    hop[n] = d /\ (phase = "expand" => d < depth) => Supporters(n) = Reaching(n, d)

\* The seeds carried along are those that reach the frontier.
OriginsReach ==
  phase = "expand" => \A n \in Nodes :
    /\ \A e \in evidence[n] : e.hop <= depth
    /\ \A d \in 0..MaxDepth : d = depth - 1 /\ hop[n] = d => origins[n] = Reaching(n, d)

\* What the next frontier is given is its support so far,
HandedSupport ==
  phase = "expand" => \A n \in Nodes : hop[n] \in {Unknown, depth} => nextOrigins[n] = Supporters(n)

\* and every link followed so far counts, whenever it was followed.
FollowedCount ==
  phase = "expand" => \A n, f \in Nodes :
    /\ hop[n] = depth /\ hop[f] = depth - 1 /\ f \notin Range(frontier) /\ n \in Neighbours(f)
    /\ ~(f = node /\ \E r \in {1, 2} : <<r, n>> \in pending)
    => origins[f] \subseteq Supporters(n)

EvidenceInv == WalksHold /\ SupportHolds /\ OriginsReach /\ HandedSupport /\ FollowedCount

LEMMA SameWalks ==
  ASSUME calls' = calls, fused' = fused, hop' = hop
  PROVE  /\ \A o : WalksFrom(o)' = WalksFrom(o)
         /\ \A n, d : Reaching(n, d)' = Reaching(n, d)
<1>1. /\ Seeds' = Seeds /\ \A S : Step(S)' = Step(S)
  BY SameGraph
<1>2. \A S : Through(S)' = Through(S)
  BY DEF Through
<1>3. \A o : WalksFrom(o)' = WalksFrom(o)
  BY <1>1, <1>2 DEF WalksFrom
<1> QED
  BY <1>1, <1>3 DEF Reaching

LEMMA SameSupport ==
  ASSUME NEW n, evidence'[n] = evidence[n]
  PROVE  Supporters(n)' = Supporters(n)
  BY DEF Supporters

LEMMA EntryIs ==
  ASSUME StateInv, NEW n \in Nodes, NEW e \in evidence[n]
  PROVE  e.seed \in Seeds /\ e.seed \in Nodes /\ e.via \in Nodes /\ e.hop \in 1..MaxDepth
<1>1. e \in Evidence
  BY DEF StateInv, SearchTypeOK
<1> QED
  BY <1>1, SeedsAreNodes DEF Evidence

LEMMA InitEvidence == SearchInit => EvidenceInv
<1> SUFFICES ASSUME SearchInit PROVE EvidenceInv
  OBVIOUS
<1>1. /\ \A n \in Nodes : evidence[n] = {} /\ ~(hop[n] > 0)
      /\ phase # "expand"
  BY DEF SearchInit, Unknown
<1> QED
  BY <1>1 DEF EvidenceInv, WalksHold, SupportHolds, OriginsReach, HandedSupport, FollowedCount

LEMMA FuseEvidence == StateInv /\ StateInv' /\ Fuse => EvidenceInv'
<1> SUFFICES ASSUME StateInv, StateInv', Fuse PROVE EvidenceInv'
  OBVIOUS
<1>1. /\ \A n \in Nodes : evidence[n] = {} /\ nextOrigins[n] = {} /\ hop[n] = Unknown
      /\ evidence' = evidence /\ nextOrigins' = nextOrigins
  BY DEF Fuse, StateInv, Nothing
<1>2. \A n \in Nodes : Supporters(n)' = {} /\ ~(hop'[n] > 0)
  BY <1>1 DEF Supporters, Fuse, Unknown
<1>3. WalksHold' /\ SupportHolds'
  BY <1>1, <1>2 DEF WalksHold, SupportHolds
<1>4. HandedSupport'
  BY <1>1, <1>2 DEF HandedSupport
<1>5. ASSUME phase' = "expand" PROVE OriginsReach' /\ FollowedCount'
  <2>1. /\ fused' # << >> /\ depth' = 1 /\ origins' = [n \in Nodes |-> IF n \in Seeds' THEN {n} ELSE {}]
        /\ hop' = [n \in Nodes |-> IF n \in Seeds' THEN 0 ELSE Unknown]
    BY <1>5 DEF Fuse
  <2>2. Seeds' \subseteq Nodes
    BY WithinStartsNext
  <2>3. \A o \in Nodes : WalksFrom(o)'[0] = {o}
    BY WalksObeyNext DEF WalkLaws
  <2>4. ASSUME NEW n \in Nodes, hop'[n] = 0 PROVE origins'[n] = Reaching(n, 0)'
    <3>1. n \in Seeds' /\ origins'[n] = {n}
      BY <2>1, <2>4 DEF Unknown
    <3>2. Reaching(n, 0)' = {o \in Seeds' : n \in WalksFrom(o)'[0]}
      BY DEF Reaching
    <3> QED
      BY <2>2, <2>3, <3>1, <3>2
  <2>5. OriginsReach'
    BY <1>1, <2>1, <2>4 DEF OriginsReach
  <2>6. \A n \in Nodes : hop'[n] # depth'
    BY <2>1 DEF Unknown
  <2> QED
    BY <2>5, <2>6 DEF FollowedCount
<1> QED
  BY <1>3, <1>4, <1>5 DEF EvidenceInv, OriginsReach, FollowedCount

\* Nothing of what supports a candidate changes, nor where the traversal is.
LEMMA FollowEvidence == StateInv /\ EvidenceInv /\ Follow => EvidenceInv'
<1> SUFFICES ASSUME StateInv, EvidenceInv, Follow PROVE EvidenceInv'
  OBVIOUS
<1>1. /\ calls' = calls /\ fused' = fused /\ hop' = hop /\ phase' = phase /\ depth' = depth
      /\ evidence' = evidence /\ origins' = origins /\ nextOrigins' = nextOrigins
      /\ phase = "expand" /\ pending = {} /\ node' = Head(frontier) /\ frontier' = Tail(frontier)
      /\ pending' = Links(node') /\ frontier # << >> /\ frontier \in RankedItems
  BY DEF Follow, StateInv, SearchTypeOK
<1>2. /\ \A o : WalksFrom(o)' = WalksFrom(o)
      /\ \A n, d : Reaching(n, d)' = Reaching(n, d)
      /\ \A n : Neighbours(n)' = Neighbours(n)
      /\ \A n : Supporters(n)' = Supporters(n)
  BY <1>1, SameWalks, SameGraph DEF Supporters
<1>3. Range(frontier) = Range(frontier') \cup {node'} /\ node' \in Nodes
  BY <1>1, TailRanked
<1>4. ASSUME NEW n \in Neighbours(node') PROVE \E r \in {1, 2} : <<r, n>> \in pending'
  <2>1. PICK link \in Links(node') : n = link[2]
    BY DEF Neighbours
  <2>2. Links(node') \subseteq {1, 2} \X Nodes
    BY <1>3, LinksLead
  <2>3. link[1] \in {1, 2} /\ link = <<link[1], n>>
    BY <2>1, <2>2
  <2> QED
    BY <1>1, <2>1, <2>3
<1>5. FollowedCount'
  <2> SUFFICES ASSUME NEW n \in Nodes, NEW f \in Nodes, hop[n] = depth, hop[f] = depth - 1,
                      f \notin Range(frontier'), n \in Neighbours(f),
                      ~(f = node' /\ \E r \in {1, 2} : <<r, n>> \in pending')
               PROVE  origins[f] \subseteq Supporters(n)
    BY <1>1, <1>2 DEF FollowedCount
  <2>1. f # node'
    BY <1>4
  <2>2. f \notin Range(frontier)
    BY <1>3, <2>1
  <2> QED
    BY <1>1, <2>2 DEF EvidenceInv, FollowedCount
<1>6. WalksHold' /\ SupportHolds' /\ OriginsReach' /\ HandedSupport'
  BY <1>1, <1>2 DEF EvidenceInv, WalksHold, SupportHolds, OriginsReach, HandedSupport
<1> QED
  BY <1>5, <1>6 DEF EvidenceInv

LEMMA PassOverEvidence ==
  ASSUME StateInv, EvidenceInv, NEW m \in Nodes, PassOver(m)
  PROVE  EvidenceInv'
<1>1. /\ calls' = calls /\ fused' = fused /\ hop' = hop /\ phase' = phase /\ depth' = depth
      /\ evidence' = evidence /\ origins' = origins /\ nextOrigins' = nextOrigins
      /\ frontier' = frontier /\ node' = node /\ Visiting(m) /\ phase = "expand"
  BY DEF PassOver, Visiting
<1>2. /\ \A o : WalksFrom(o)' = WalksFrom(o)
      /\ \A n, d : Reaching(n, d)' = Reaching(n, d)
      /\ \A n : Neighbours(n)' = Neighbours(n)
      /\ \A n : Supporters(n)' = Supporters(n)
  BY <1>1, SameWalks, SameGraph DEF Supporters
<1>3. PICK r \in {1, 2} : pending' = pending \ {<<r, m>>}
  BY <1>1, VisitingIsOfNode
<1>4. hop[m] # depth
  <2>1. depth \in 1..MaxDepth
    BY <1>1, VisitingIsOfNode
  <2>2. depth # 0 /\ depth # Unknown
    BY <2>1 DEF Unknown
  <2>3. ASSUME hop[m] # Unknown, hop[m] # 0 PROVE hop[m] # depth
    BY <2>3 DEF PassOver, IsSkipped
  <2> QED
    BY <2>2, <2>3
<1>5. FollowedCount'
  BY <1>1, <1>2, <1>3, <1>4 DEF EvidenceInv, FollowedCount
<1>6. WalksHold' /\ SupportHolds' /\ OriginsReach' /\ HandedSupport'
  BY <1>1, <1>2 DEF EvidenceInv, WalksHold, SupportHolds, OriginsReach, HandedSupport
<1> QED
  BY <1>5, <1>6 DEF EvidenceInv

\* The seeds carried by the node reach its neighbours one step later.
LEMMA OneStepFurther ==
  ASSUME StateInv, EvidenceInv, NEW m \in Nodes, Visiting(m), NEW o \in origins[node]
  PROVE  /\ o \in Seeds /\ o \in Nodes
         /\ node \in WalksFrom(o)[depth - 1] /\ m \in WalksFrom(o)[depth]
<1>1. /\ phase = "expand" /\ depth \in 1..MaxDepth /\ node \in Nodes /\ hop[node] = depth - 1
      /\ m \in Neighbours(node)
  BY VisitingIsOfNode
<1>2. o \in Seeds /\ o \in Nodes
  BY <1>1, SeedsAreNodes DEF StateInv, SearchTypeOK
<1>3. depth - 1 \in 0..MaxDepth
  BY <1>1, ConstantsAreNumbers
<1>4. origins[node] = Reaching(node, depth - 1)
  BY <1>1, <1>3 DEF EvidenceInv, OriginsReach
<1>5. node \in WalksFrom(o)[depth - 1]
  BY <1>4 DEF Reaching
<1>6. m \in WalksFrom(o)[depth]
  <2>1. depth = 1 \/ hop[node] > 0
    BY <1>1
  <2> QED
    BY <1>1, <1>2, <1>5, <2>1, WalksObey DEF WalkLaws
<1> QED
  BY <1>2, <1>5, <1>6

LEMMA SupportersAdd ==
  ASSUME StateInv, NEW m \in Nodes, Visiting(m), Support(m)
  PROVE  /\ Supporters(m)' = Supporters(m) \cup (origins[node] \ {m})
         /\ \A n \in Nodes \ {m} : Supporters(n)' = Supporters(n)
<1>1. /\ evidence'[m] = evidence[m] \cup Entries(m)
      /\ \A n \in Nodes \ {m} : evidence'[n] = evidence[n]
  BY SupportAdds
<1>2. {e.seed : e \in Entries(m)} = origins[node] \ {m}
  <2>1. \A e \in Entries(m) : e.seed \in origins[node] \ {m}
    BY DEF Entries
  <2>2. ASSUME NEW o \in origins[node] \ {m} PROVE \E e \in Entries(m) : e.seed = o
    <3>1. [seed |-> o, via |-> node, hop |-> depth] \in Entries(m)
      BY DEF Entries
    <3> QED
      BY <3>1
  <2> QED
    BY <2>1, <2>2
<1>3. Supporters(m)' = {e.seed : e \in evidence'[m]}
  BY DEF Supporters
<1>4. Supporters(m) = {e.seed : e \in evidence[m]}
  BY DEF Supporters
<1> QED
  BY <1>1, <1>2, <1>3, <1>4, SameSupport

\* What a meeting keeps and adds, as far as the walks up to this depth are the same.
LEMMA MeetingEvidence ==
  ASSUME StateInv, EvidenceInv, NEW m \in Nodes, Visiting(m), Support(m),
         \A o \in Seeds, d \in 0..depth : WalksFrom(o)'[d] = WalksFrom(o)[d],
         \A n \in Nodes \ {m} : hop'[n] = hop[n],
         \/ hop'[m] = depth /\ \A e \in evidence[m] : e.hop = depth
         \/ hop'[m] = 0 /\ hop[m] = 0
  PROVE  WalksHold' /\ SupportHolds' /\ OriginsReach'
<1>1. /\ phase = "expand" /\ depth \in 1..MaxDepth /\ node \in Nodes /\ hop[node] = depth - 1
      /\ m \in Neighbours(node)
  BY VisitingIsOfNode
<1>2. /\ calls' = calls /\ fused' = fused /\ phase' = phase /\ depth' = depth /\ origins' = origins
  BY DEF Visiting
<1>3. Seeds' = Seeds /\ \A n : Neighbours(n)' = Neighbours(n)
  BY <1>2, SameGraph
<1>4. \A n \in Nodes, d \in 0..depth : Reaching(n, d)' = Reaching(n, d)
  BY <1>3 DEF Reaching
<1>5. /\ evidence'[m] = evidence[m] \cup Entries(m)
      /\ \A n \in Nodes \ {m} : evidence'[n] = evidence[n]
  BY SupportAdds
<1>6. \A n \in Nodes \ {m} : Supporters(n)' = Supporters(n)
  BY SupportersAdd
<1>7. ASSUME NEW n \in Nodes, NEW e \in evidence[n]
      PROVE  /\ e.seed # n /\ n \in Neighbours(e.via)' /\ e.hop <= depth
             /\ e.via \in WalksFrom(e.seed)'[e.hop - 1] /\ n \in WalksFrom(e.seed)'[e.hop]
             /\ hop'[n] > 0 => e.hop = hop'[n]
  <2>1. e.seed \in Seeds /\ e.hop \in 1..MaxDepth
    BY EntryIs
  <2>2. e.hop <= depth
    BY <1>1 DEF EvidenceInv, OriginsReach
  <2>3. e.hop \in 0..depth /\ e.hop - 1 \in 0..depth
    BY <1>1, <2>1, <2>2, ConstantsAreNumbers
  <2>4. /\ e.seed # n /\ n \in Neighbours(e.via) /\ e.via \in WalksFrom(e.seed)[e.hop - 1]
        /\ n \in WalksFrom(e.seed)[e.hop]
        /\ hop[n] > 0 => e.hop = hop[n]
    BY DEF EvidenceInv, WalksHold
  <2>5. hop'[n] > 0 => e.hop = hop'[n]
    BY <2>4
  <2>6. e.via \in WalksFrom(e.seed)'[e.hop - 1] /\ n \in WalksFrom(e.seed)'[e.hop]
    BY <2>1, <2>3, <2>4
  <2> QED
    BY <1>3, <2>2, <2>4, <2>5, <2>6
<1>8. ASSUME NEW e \in Entries(m)
      PROVE  /\ e.seed # m /\ m \in Neighbours(e.via)' /\ e.hop <= depth
             /\ e.via \in WalksFrom(e.seed)'[e.hop - 1] /\ m \in WalksFrom(e.seed)'[e.hop]
             /\ hop'[m] > 0 => e.hop = hop'[m]
  <2>1. PICK o \in origins[node] \ {m} : e = [seed |-> o, via |-> node, hop |-> depth]
    BY DEF Entries
  <2>2. e.seed = o /\ e.via = node /\ e.hop = depth /\ o # m
    BY <2>1
  <2>3. o \in Seeds /\ node \in WalksFrom(o)[depth - 1] /\ m \in WalksFrom(o)[depth]
    BY OneStepFurther
  <2>4. depth \in 0..depth /\ depth - 1 \in 0..depth
    BY <1>1
  <2>5. hop'[m] > 0 => depth = hop'[m]
    OBVIOUS
  <2>6. node \in WalksFrom(o)'[depth - 1] /\ m \in WalksFrom(o)'[depth]
    BY <2>3, <2>4
  <2> QED
    BY <1>1, <1>3, <2>2, <2>5, <2>6
<1>9. WalksHold'
  BY <1>5, <1>7, <1>8 DEF WalksHold
<1>10. SupportHolds'
  <2> SUFFICES ASSUME NEW n \in Nodes, NEW d \in 1..MaxDepth, hop'[n] = d, d < depth
               PROVE  Supporters(n)' = Reaching(n, d)'
    BY <1>1, <1>2 DEF SupportHolds
  <2>1. n # m /\ d \in 0..depth
    BY <1>1
  <2> QED
    BY <1>1, <1>4, <1>6, <2>1 DEF EvidenceInv, SupportHolds
<1>11. OriginsReach'
  <2>1. ASSUME NEW n \in Nodes, NEW e \in evidence'[n] PROVE e.hop <= depth
    BY <1>5, <1>7, <1>8
  <2>2. ASSUME NEW n \in Nodes, NEW d \in 0..MaxDepth, d = depth - 1, hop'[n] = d
        PROVE  origins[n] = Reaching(n, d)'
    <3>1. hop[n] = d /\ d \in 0..depth
      BY <1>1, <2>2
    <3> QED
      BY <1>1, <1>4, <2>2, <3>1 DEF EvidenceInv, OriginsReach
  <2> QED
    BY <1>2, <2>1, <2>2 DEF OriginsReach
<1> QED
  BY <1>9, <1>10, <1>11

LEMMA MeetSeedEvidence ==
  ASSUME StateInv, EvidenceInv, NEW m \in Nodes, MeetSeed(m)
  PROVE  EvidenceInv'
<1>1. /\ calls' = calls /\ fused' = fused /\ hop' = hop /\ phase' = phase /\ depth' = depth
      /\ origins' = origins /\ nextOrigins' = nextOrigins /\ frontier' = frontier /\ node' = node
      /\ Visiting(m) /\ Support(m) /\ hop[m] = 0
  BY DEF MeetSeed, Visiting
<1>2. /\ \A o : WalksFrom(o)' = WalksFrom(o)
      /\ \A n : Neighbours(n)' = Neighbours(n)
  BY <1>1, SameWalks, SameGraph
<1>3. \A n \in Nodes \ {m} : Supporters(n)' = Supporters(n)
  BY <1>1, SupportersAdd
<1>4. PICK r \in {1, 2} : pending' = pending \ {<<r, m>>}
  BY <1>1, VisitingIsOfNode
<1>5. depth \in 1..MaxDepth /\ phase = "expand"
  BY <1>1, VisitingIsOfNode
<1>6. m \in Nodes /\ hop[m] # depth /\ hop[m] # Unknown
  BY <1>1, <1>5 DEF Unknown
<1>7. WalksHold' /\ SupportHolds' /\ OriginsReach'
  BY <1>1, <1>2, MeetingEvidence
<1>8. HandedSupport'
  BY <1>1, <1>3, <1>5, <1>6 DEF EvidenceInv, HandedSupport
<1>9. FollowedCount'
  BY <1>1, <1>2, <1>3, <1>4, <1>5, <1>6 DEF EvidenceInv, FollowedCount
<1> QED
  BY <1>7, <1>8, <1>9 DEF EvidenceInv

LEMMA MeetAgainEvidence ==
  ASSUME StateInv, EvidenceInv, NEW m \in Nodes, MeetAgain(m)
  PROVE  EvidenceInv'
<1>1. /\ calls' = calls /\ fused' = fused /\ hop' = hop /\ phase' = phase /\ depth' = depth
      /\ origins' = origins /\ frontier' = frontier /\ node' = node
      /\ Visiting(m) /\ Support(m) /\ HandedOn(m) /\ hop[m] = depth
  BY DEF MeetAgain, Visiting
<1>2. /\ \A o : WalksFrom(o)' = WalksFrom(o)
      /\ \A n : Neighbours(n)' = Neighbours(n)
  BY <1>1, SameWalks, SameGraph
<1>3. /\ Supporters(m)' = Supporters(m) \cup (origins[node] \ {m})
      /\ \A n \in Nodes \ {m} : Supporters(n)' = Supporters(n)
  BY <1>1, SupportersAdd
<1>4. PICK r \in {1, 2} : pending' = pending \ {<<r, m>>}
  BY <1>1, VisitingIsOfNode
<1>5. depth \in 1..MaxDepth /\ phase = "expand" /\ node \in Nodes
  BY <1>1, VisitingIsOfNode
<1>6. m \notin origins[node]
  <2>1. origins[node] \subseteq Seeds
    BY <1>5 DEF StateInv, SearchTypeOK
  <2>2. m \notin Seeds
    BY <1>1, <1>5 DEF StateInv, SeedsAtZero
  <2> QED
    BY <2>1, <2>2
<1>7. \A e \in evidence[m] : e.hop = depth
  BY <1>1, <1>5 DEF EvidenceInv, WalksHold
<1>8. WalksHold' /\ SupportHolds' /\ OriginsReach'
  BY <1>1, <1>2, <1>7, MeetingEvidence
<1>9. HandedSupport'
  <2>1. nextOrigins[m] = Supporters(m)
    BY <1>1, <1>5 DEF EvidenceInv, HandedSupport
  <2>2. /\ nextOrigins'[m] = nextOrigins[m] \cup origins[node]
        /\ \A n \in Nodes \ {m} : nextOrigins'[n] = nextOrigins[n]
    BY <1>1, HandedOnAdds
  <2> QED
    BY <1>1, <1>3, <1>5, <1>6, <2>1, <2>2 DEF EvidenceInv, HandedSupport
<1>10. FollowedCount'
  <2> SUFFICES ASSUME NEW n \in Nodes, NEW f \in Nodes, hop[n] = depth, hop[f] = depth - 1,
                      f \notin Range(frontier), n \in Neighbours(f),
                      ~(f = node /\ \E q \in {1, 2} : <<q, n>> \in pending')
               PROVE  origins[f] \subseteq Supporters(n)'
    BY <1>1, <1>2 DEF FollowedCount
  <2>1. CASE n = m /\ f = node
    BY <1>3, <1>6, <2>1
  <2>2. CASE ~(n = m /\ f = node)
    <3>1. ~(f = node /\ \E q \in {1, 2} : <<q, n>> \in pending)
      BY <1>4, <2>2
    <3>2. origins[f] \subseteq Supporters(n)
      BY <1>5, <3>1 DEF EvidenceInv, FollowedCount
    <3> QED
      BY <1>3, <3>2
  <2> QED
    BY <2>1, <2>2
<1> QED
  BY <1>8, <1>9, <1>10 DEF EvidenceInv

\* The walks up to this depth do not pass through what is found at it.
LEMMA FindNewKeepsWalks ==
  ASSUME StateInv, DistanceInv, NEW m \in Nodes, FindNew(m), NEW o \in Seeds, NEW d \in 0..depth
  PROVE  WalksFrom(o)'[d] = WalksFrom(o)[d]
<1> DEFINE v == WalksFrom(o)
           w == WalksFrom(o)'
           S == {k \in 0..depth : w[k] = v[k]}
<1>1. /\ Visiting(m) /\ hop[m] = Unknown /\ ~IsSkipped(m) /\ hop' = [hop EXCEPT ![m] = depth]
  BY DEF FindNew
<1>2. /\ calls' = calls /\ fused' = fused /\ phase = "expand" /\ depth \in 1..MaxDepth
  BY <1>1, VisitingIsOfNode DEF Visiting
<1>3. \A n \in Nodes \ {m} : hop'[n] = hop[n]
  BY <1>1 DEF StateInv, SearchTypeOK
<1>4. m \notin Within[depth - 1]
  <2>1. ~(Added >= MaxAdded)
    BY <1>1 DEF IsSkipped, Unknown
  <2>2. Added < MaxAdded
    BY <2>1, AddedCounts, ConstantsAreNumbers
  <2> QED
    BY <1>1, <1>2, <2>2 DEF DistanceInv, Complete
<1>5. o \in Nodes /\ MaxDepth \in Nat /\ depth \in Nat
  BY <1>2, SeedsAreNodes, ConstantsAreNumbers
<1>6. \A n : Neighbours(n)' = Neighbours(n)
  BY <1>2, SameGraph
<1>7. /\ v \in [0..MaxDepth -> SUBSET Nodes] /\ v[0] = {o}
      /\ \A k \in 1..MaxDepth, n \in Nodes :
           n \in v[k] <=> \E g \in v[k - 1] : n \in Neighbours(g) /\ (k = 1 \/ hop[g] > 0)
  BY <1>5, WalksObey DEF WalkLaws
<1>8. /\ w \in [0..MaxDepth -> SUBSET Nodes] /\ w[0] = {o}
      /\ \A k \in 1..MaxDepth, n \in Nodes :
           n \in w[k] <=> \E g \in w[k - 1] : n \in Neighbours(g) /\ (k = 1 \/ hop'[g] > 0)
  BY <1>5, <1>6, WalksObeyNext DEF WalkLaws
<1>9. ASSUME NEW k \in 0..(depth - 1) PROVE m \notin v[k]
  <2>1. k \in 0..MaxDepth /\ depth - 1 \in k..MaxDepth
    BY <1>2, <1>5
  <2>2. v[k] \subseteq Within[k]
    BY <2>1, WalksAreWithin
  <2>3. Within[k] \subseteq Within[depth - 1]
    BY <2>1, WithinGrows
  <2> QED
    BY <1>4, <2>2, <2>3
<1> HIDE DEF v, w
<1>10. 0 \in S
  <2>1. 0 \in 0..depth
    BY <1>5
  <2>2. w[0] = v[0]
    BY <1>7, <1>8
  <2> QED
    BY <2>1, <2>2
<1>11. ASSUME NEW k \in 0..(depth - 1), k \in S PROVE k + 1 \in S
  <2>1. k + 1 \in 1..MaxDepth /\ (k + 1) - 1 = k /\ k + 1 \in 0..depth /\ k \in 0..MaxDepth
    BY <1>2, <1>5
  <2>2. w[k] = v[k] /\ v[k] \in SUBSET Nodes /\ m \notin v[k]
    BY <1>7, <1>9, <1>11, <2>1
  <2>3. \A g \in v[k] : hop'[g] = hop[g]
    BY <1>3, <2>2
  <2>4. \A n \in Nodes : n \in w[k + 1] <=> n \in v[k + 1]
    BY <1>7, <1>8, <2>1, <2>2, <2>3
  <2>5. w[k + 1] \in SUBSET Nodes /\ v[k + 1] \in SUBSET Nodes
    BY <1>7, <1>8, <2>1
  <2> QED
    BY <2>1, <2>4, <2>5
<1>12. S \in SUBSET (0..depth)
  OBVIOUS
<1> HIDE DEF S
<1>13. S = 0..depth
  BY <1>5, <1>10, <1>11, <1>12, ClimbsToAll
<1> QED
  BY <1>13 DEF S, v, w

LEMMA FindNewEvidence ==
  ASSUME StateInv, DistanceInv, EvidenceInv, NEW m \in Nodes, FindNew(m)
  PROVE  EvidenceInv'
<1>1. /\ Visiting(m) /\ hop[m] = Unknown /\ ~IsSkipped(m) /\ hop' = [hop EXCEPT ![m] = depth]
      /\ Support(m) /\ HandedOn(m)
  BY DEF FindNew
<1>2. /\ calls' = calls /\ fused' = fused /\ phase' = phase /\ depth' = depth
      /\ origins' = origins /\ frontier' = frontier /\ node' = node
      /\ phase = "expand" /\ depth \in 1..MaxDepth /\ node \in Nodes /\ hop[node] = depth - 1
  BY <1>1, VisitingIsOfNode DEF Visiting
<1>3. \A n : Neighbours(n)' = Neighbours(n)
  BY <1>2, SameGraph
<1>4. hop'[m] = depth /\ \A n \in Nodes \ {m} : hop'[n] = hop[n]
  BY <1>1 DEF StateInv, SearchTypeOK
<1>5. /\ Supporters(m)' = Supporters(m) \cup (origins[node] \ {m})
      /\ \A n \in Nodes \ {m} : Supporters(n)' = Supporters(n)
  BY <1>1, SupportersAdd
<1>6. PICK r \in {1, 2} : pending' = pending \ {<<r, m>>}
  BY <1>1, VisitingIsOfNode
<1>7. m \notin origins[node]
  <2>1. origins[node] \subseteq Seeds
    BY <1>2 DEF StateInv, SearchTypeOK
  <2>2. m \notin Seeds
    BY <1>1 DEF StateInv, SeedsAtZero, Unknown
  <2> QED
    BY <2>1, <2>2
<1>8. evidence[m] = {}
  BY <1>1 DEF StateInv, Candidates
<1>9. WalksHold' /\ SupportHolds' /\ OriginsReach'
  BY <1>1, <1>4, <1>8, FindNewKeepsWalks, MeetingEvidence
<1>10. HandedSupport'
  <2>1. nextOrigins[m] = Supporters(m)
    BY <1>1, <1>2 DEF EvidenceInv, HandedSupport
  <2>2. /\ nextOrigins'[m] = nextOrigins[m] \cup origins[node]
        /\ \A n \in Nodes \ {m} : nextOrigins'[n] = nextOrigins[n]
    BY <1>1, HandedOnAdds
  <2> QED
    BY <1>2, <1>4, <1>5, <1>7, <2>1, <2>2 DEF EvidenceInv, HandedSupport
<1>11. FollowedCount'
  <2> SUFFICES ASSUME NEW n \in Nodes, NEW f \in Nodes, hop'[n] = depth, hop'[f] = depth - 1,
                      f \notin Range(frontier), n \in Neighbours(f),
                      ~(f = node /\ \E q \in {1, 2} : <<q, n>> \in pending')
               PROVE  origins[f] \subseteq Supporters(n)'
    BY <1>2, <1>3 DEF FollowedCount
  <2>1. f # m /\ hop[f] = depth - 1
    BY <1>2, <1>4
  <2>2. CASE n = m
    <3>1. Added < MaxAdded
      <4>1. ~(Added >= MaxAdded)
        BY <1>1 DEF IsSkipped, Unknown
      <4> QED
        BY <4>1, AddedCounts, ConstantsAreNumbers
    <3>2. hop[f] \in 0..(depth - 1)
      BY <1>2, <2>1
    <3>3. f = node
      BY <1>1, <1>2, <2>2, <3>1, <3>2 DEF DistanceInv, Complete
    <3> QED
      BY <1>5, <1>7, <2>2, <3>3
  <2>3. CASE n # m
    <3>1. ~(f = node /\ \E q \in {1, 2} : <<q, n>> \in pending)
      BY <1>6, <2>3
    <3>2. hop[n] = depth
      BY <1>4, <2>3
    <3>3. origins[f] \subseteq Supporters(n)
      BY <1>2, <2>1, <3>1, <3>2 DEF EvidenceInv, FollowedCount
    <3> QED
      BY <1>5, <2>3, <3>3
  <2> QED
    BY <2>2, <2>3
<1> QED
  BY <1>9, <1>10, <1>11 DEF EvidenceInv

\* When a frontier is done, its neighbours have all their support.
LEMMA DoneHasSupport ==
  ASSUME StateInv, DistanceInv, EvidenceInv, FrontierDone, NEW n \in Nodes, hop[n] = depth
  PROVE  Supporters(n) = Reaching(n, depth)
<1>1. phase = "expand" /\ pending = {} /\ frontier = << >> /\ depth \in 1..MaxDepth
  BY DEF FrontierDone, StateInv, Layers
<1>2. depth - 1 \in 0..MaxDepth
  BY <1>1, ConstantsAreNumbers
<1>3. ASSUME NEW e \in evidence[n] PROVE e.seed \in Reaching(n, depth)
  <2>1. e.hop = depth
    BY <1>1 DEF EvidenceInv, WalksHold
  <2>2. e.seed \in Seeds
    BY EntryIs
  <2> QED
    BY <2>1, <2>2 DEF EvidenceInv, WalksHold, Reaching
<1>4. ASSUME NEW o \in Reaching(n, depth) PROVE o \in Supporters(n)
  <2>1. o \in Seeds /\ o \in Nodes /\ n \in WalksFrom(o)[depth]
    BY SeedsAreNodes DEF Reaching
  <2>2. PICK g \in WalksFrom(o)[depth - 1] : n \in Neighbours(g) /\ (depth = 1 \/ hop[g] > 0)
    BY <1>1, <2>1, WalksObey DEF WalkLaws
  <2>3. g \in Within[depth - 1]
    BY <1>2, <2>1, WalksAreWithin
  <2>4. g \in Nodes
    BY <1>2, <2>3, WithinIs
  <2>5. hop[g] = depth - 1
    <3>1. CASE depth = 1
      <4>1. g = o
        BY <2>1, <3>1, WalksObey DEF WalkLaws
      <4> QED
        BY <2>1, <3>1, <4>1 DEF StateInv, SeedsAtZero
    <3>2. CASE depth # 1
      <4>1. hop[g] > 0
        BY <2>2, <3>2
      <4>2. hop[g] \in 0..(depth - 1)
        BY <1>2, <2>3, <4>1, WithinIsEarly DEF DistanceInv, Unknown
      <4>3. ASSUME hop[g] < depth - 1 PROVE FALSE
        <5>1. hop[g] + 1 \in 1..MaxDepth /\ depth - 1 \in (hop[g] + 1)..MaxDepth /\ (hop[g] + 1) - 1 = hop[g]
              /\ hop[g] + 1 \in 0..MaxDepth
          BY <1>1, <4>2, <4>3, ConstantsAreNumbers
        <5>2. g \in Within[hop[g]] /\ Within[hop[g]] \in SUBSET Nodes
          <6>1. hop[g] \in 0..MaxDepth
            BY <2>4, <4>1, HopBounds, <5>1
          <6> QED
            BY <2>4, <4>1, <6>1, WithinIs DEF DistanceInv, DistancesHold
        <5>3. n \in Step(Within[hop[g]])
          BY <2>2, <5>2, StepLeads
        <5>4. n \in Within[hop[g] + 1]
          BY <5>1, <5>3, WithinIs
        <5>5. n \in Within[depth - 1]
          BY <5>1, <5>4, WithinGrows
        <5> QED
          BY <1>1, <5>5 DEF DistanceInv, DistancesHold
      <4> QED
        BY <1>1, <4>2, <4>3
    <3> QED
      BY <3>1, <3>2
  <2>6. o \in origins[g]
    <3>1. o \in Reaching(g, depth - 1)
      BY <2>1 DEF Reaching
    <3> QED
      BY <1>1, <1>2, <2>4, <2>5, <3>1 DEF EvidenceInv, OriginsReach
  <2>7. origins[g] \subseteq Supporters(n)
    BY <1>1, <2>2, <2>4, <2>5, EmptyRanked DEF EvidenceInv, FollowedCount
  <2> QED
    BY <2>6, <2>7
<1> QED
  BY <1>3, <1>4 DEF Supporters

LEMMA DeepenEvidence == StateInv /\ DistanceInv /\ EvidenceInv /\ Deepen => EvidenceInv'
<1> SUFFICES ASSUME StateInv, DistanceInv, EvidenceInv, Deepen PROVE EvidenceInv'
  OBVIOUS
<1>1. /\ calls' = calls /\ fused' = fused /\ hop' = hop /\ phase' = phase /\ depth' = depth + 1
      /\ evidence' = evidence /\ origins' = nextOrigins
      /\ nextOrigins' = [n \in Nodes |-> {}]
      /\ phase = "expand" /\ FrontierDone /\ depth \in 1..MaxDepth
      /\ \A n \in Nodes : hop[n] <= depth
  BY DEF Deepen, FrontierDone, StateInv, Layers
<1>2. /\ \A o : WalksFrom(o)' = WalksFrom(o)
      /\ \A n, d : Reaching(n, d)' = Reaching(n, d)
      /\ \A n : Neighbours(n)' = Neighbours(n)
      /\ \A n : Supporters(n)' = Supporters(n)
  BY <1>1, SameWalks, SameGraph DEF Supporters
<1>3. ASSUME NEW n \in Nodes, hop[n] = depth
      PROVE  Supporters(n) = Reaching(n, depth) /\ nextOrigins[n] = Reaching(n, depth)
  <2>1. Supporters(n) = Reaching(n, depth)
    BY <1>1, <1>3, DoneHasSupport
  <2> QED
    BY <1>1, <1>3, <2>1 DEF EvidenceInv, HandedSupport
<1>4. WalksHold'
  BY <1>1, <1>2 DEF EvidenceInv, WalksHold
<1>5. SupportHolds'
  <2> SUFFICES ASSUME NEW n \in Nodes, NEW d \in 1..MaxDepth, hop[n] = d, d < depth + 1
               PROVE  Supporters(n) = Reaching(n, d)
    BY <1>1, <1>2 DEF SupportHolds
  <2>1. CASE d = depth
    BY <1>3, <2>1
  <2>2. CASE d < depth
    BY <1>1, <2>2 DEF EvidenceInv, SupportHolds
  <2> QED
    BY <1>1, <2>1, <2>2
<1>6. OriginsReach'
  <2>1. ASSUME NEW n \in Nodes, NEW e \in evidence[n] PROVE e.hop <= depth + 1
    <3>1. e.hop <= depth /\ e.hop \in 1..MaxDepth
      BY <1>1, EntryIs DEF EvidenceInv, OriginsReach
    <3> QED
      BY <1>1, <3>1
  <2>2. (depth + 1) - 1 = depth
    BY <1>1
  <2> QED
    BY <1>1, <1>2, <1>3, <2>1, <2>2 DEF OriginsReach
<1>7. HandedSupport' /\ FollowedCount'
  <2>1. \A n \in Nodes : hop[n] # depth + 1
    BY <1>1
  <2>2. \A n \in Nodes : hop[n] = Unknown => Supporters(n) = {}
    BY DEF StateInv, Candidates, Supporters
  <2> QED
    BY <1>1, <1>2, <2>1, <2>2 DEF HandedSupport, FollowedCount
<1> QED
  BY <1>4, <1>5, <1>6, <1>7 DEF EvidenceInv

LEMMA FuseAgainEvidence == StateInv /\ DistanceInv /\ EvidenceInv /\ FuseAgain => EvidenceInv'
<1> SUFFICES ASSUME StateInv, DistanceInv, EvidenceInv, FuseAgain PROVE EvidenceInv'
  OBVIOUS
<1>1. /\ calls' = calls /\ fused' = fused /\ hop' = hop /\ phase' = "rerank" /\ depth' = depth
      /\ evidence' = evidence /\ phase = "expand" /\ FrontierDone /\ depth \in 1..MaxDepth
      /\ \A n \in Nodes : hop[n] <= depth
  BY DEF FuseAgain, expandVars, FrontierDone, StateInv, Layers
<1>2. /\ \A o : WalksFrom(o)' = WalksFrom(o)
      /\ \A n, d : Reaching(n, d)' = Reaching(n, d)
      /\ \A n : Neighbours(n)' = Neighbours(n)
      /\ \A n : Supporters(n)' = Supporters(n)
  BY <1>1, SameWalks, SameGraph DEF Supporters
<1>3. WalksHold'
  BY <1>1, <1>2 DEF EvidenceInv, WalksHold
<1>4. SupportHolds'
  <2> SUFFICES ASSUME NEW n \in Nodes, NEW d \in 1..MaxDepth, hop[n] = d
               PROVE  Supporters(n) = Reaching(n, d)
    BY <1>1, <1>2 DEF SupportHolds
  <2>1. CASE d = depth
    BY <1>1, <2>1, DoneHasSupport
  <2>2. CASE d < depth
    BY <1>1, <2>2 DEF EvidenceInv, SupportHolds
  <2> QED
    BY <1>1, <2>1, <2>2
<1> QED
  BY <1>1, <1>3, <1>4 DEF EvidenceInv, OriginsReach, HandedSupport, FollowedCount

LEMMA LastEvidence ==
  ASSUME StateInv, EvidenceInv, Rerank \/ RerankFails \/ FailFirstStage \/ UNCHANGED searchVars
  PROVE  EvidenceInv'
<1>1. /\ calls' = calls /\ fused' = fused /\ UNCHANGED expandVars
      /\ \/ phase' = phase
         \/ phase # "expand" /\ phase' # "expand"
  BY DEF Rerank, RerankFails, FailFirstStage, searchVars
<1>2. /\ hop' = hop /\ depth' = depth /\ node' = node /\ pending' = pending /\ frontier' = frontier
      /\ evidence' = evidence /\ origins' = origins /\ nextOrigins' = nextOrigins
  BY <1>1 DEF expandVars
<1>3. /\ \A o : WalksFrom(o)' = WalksFrom(o)
      /\ \A n, d : Reaching(n, d)' = Reaching(n, d)
      /\ \A n : Neighbours(n)' = Neighbours(n)
      /\ \A n : Supporters(n)' = Supporters(n)
  BY <1>1, <1>2, SameWalks, SameGraph DEF Supporters
<1> QED
  BY <1>1, <1>2, <1>3
     DEF EvidenceInv, WalksHold, SupportHolds, OriginsReach, HandedSupport, FollowedCount

LEMMA NextEvidence ==
  StateInv /\ StateInv' /\ DistanceInv /\ EvidenceInv /\ [SearchNext]_searchVars => EvidenceInv'
  BY FuseEvidence, FollowEvidence, PassOverEvidence, FindNewEvidence, MeetSeedEvidence,
     MeetAgainEvidence, DeepenEvidence, FuseAgainEvidence, LastEvidence DEF SearchNext, Visit

LEMMA AlwaysEvidence == SearchSpec => [](StateInv /\ DistanceInv /\ EvidenceInv)
  BY InitState, NextState, InitDistance, NextDistance, InitEvidence, NextEvidence, PTL DEF SearchSpec

(* The seeds recorded for a candidate are those with a walk to it of as many *)
(* steps as its hop, whatever order the links were followed in (graph.py expand). *)
THEOREM SearchEvidenceIsSupport == SearchSpec => []EvidenceIsSupport
<1>1. StateInv /\ EvidenceInv => EvidenceIsSupport
  <2> SUFFICES ASSUME StateInv, EvidenceInv, phase \in {"rerank", "done"}, NEW n \in Nodes, hop[n] > 0
               PROVE  Supporters(n) = {o \in Seeds : n \in WalksFrom(o)[hop[n]]}
    BY DEF EvidenceIsSupport, EvidenceInv, WalksHold
  <2>1. hop[n] \in 1..MaxDepth
    BY HopBounds, ConstantsAreNumbers
  <2>2. Supporters(n) = Reaching(n, hop[n])
    BY <2>1 DEF EvidenceInv, SupportHolds
  <2> QED
    BY <2>2 DEF Reaching
<1> QED
  BY AlwaysEvidence, <1>1, PTL

-----------------------------------------------------------------------------
(* Better seeds first. *)

\* Whatever is in T, S has a seed at least as good.
Better(l, S, T) == \A t \in T : \E s \in S : RankIn(s, l) <= RankIn(t, l)

Earlier(l, x, y) == \E i, j \in DOMAIN l : i < j /\ l[i] = x /\ l[j] = y

\* The rest of the frontier, after the node being followed,
FrontierInOrder ==
  phase = "expand" =>
    /\ \A x, y \in Nodes : Earlier(frontier, x, y) => Better(fused, origins[x], origins[y])
    /\ pending # {} => \A y \in Range(frontier) : Better(fused, origins[node], origins[y])

\* the next frontier, which is filled from it,
NextInOrder ==
  phase = "expand" =>
    /\ \A x, y \in Nodes : Earlier(next, x, y) => Better(fused, nextOrigins[x], nextOrigins[y])
    /\ \A x \in Range(next), y \in Range(frontier) : Better(fused, nextOrigins[x], origins[y])
    /\ pending # {} => \A x \in Range(next) : Better(fused, nextOrigins[x], origins[node])

\* and the candidates of one hop are in the order of their best seeds.
FoundInOrder ==
  \A x, y \in Nodes :
    Earlier(found, x, y) /\ hop[x] > 0 /\ hop[x] = hop[y] => Better(fused, Supporters(x), Supporters(y))

OrderInv == FrontierInOrder /\ NextInOrder /\ FoundInOrder

LEMMA BetterGrows ==
  ASSUME NEW l, NEW S, NEW T, NEW S2, NEW T2, Better(l, S, T), S \subseteq S2, T2 \subseteq T
  PROVE  Better(l, S2, T2)
  BY DEF Better

LEMMA BetterThanBoth ==
  ASSUME NEW l, NEW S, NEW T, NEW U, Better(l, S, T), Better(l, S, U)
  PROVE  Better(l, S, T \cup U)
  BY DEF Better

LEMMA SeedsRank ==
  ASSUME StateInv, NEW o \in Seeds
  PROVE  RankIn(o, fused) \in 1..Len(fused) /\ Len(fused) \in Nat
<1>1. fused \in RankedItems
  BY DEF StateInv, SearchTypeOK
<1>2. SeedCount \in 0..Len(fused) /\ Len(fused) \in Nat
  BY <1>1, RankedItemsAre, ConstantsAreNumbers DEF SeedCount, Smaller
<1>3. o \in Range(fused)
  BY <1>1, <1>2, RankedItemsAre DEF Seeds
<1> QED
  BY <1>1, <1>2, <1>3, RankInIsPlace

LEMMA BetterThanItself == ASSUME StateInv, NEW S \in SUBSET Seeds PROVE Better(fused, S, S)
  BY SeedsRank DEF Better

LEMMA EarlierIsIn ==
  ASSUME NEW l, NEW x, NEW y, Earlier(l, x, y)
  PROVE  x \in Range(l) /\ y \in Range(l)
  BY DEF Earlier, Range

LEMMA EarlierInEmpty == \A x, y : ~Earlier(<< >>, x, y)
  BY DEF Earlier

LEMMA EarlierInAppend ==
  ASSUME NEW l \in RankedItems, NEW m \in Nodes \ Range(l), NEW x, NEW y, Earlier(Append(l, m), x, y)
  PROVE  Earlier(l, x, y) \/ (x \in Range(l) /\ y = m)
<1> DEFINE n == Len(l)
           t == Append(l, m)
<1>1. /\ n \in Nat /\ l \in Seq(Nodes) /\ DOMAIN l = 1..n /\ Range(l) = {l[i] : i \in 1..n}
  BY RankedItemsAre
<1>2. /\ DOMAIN t = 1..(n + 1) /\ t[n + 1] = m
      /\ \A i \in 1..n : t[i] = l[i]
  BY <1>1
<1> HIDE DEF t, n
<1>3. PICK i \in 1..(n + 1), j \in 1..(n + 1) : i < j /\ t[i] = x /\ t[j] = y
  BY <1>2 DEF Earlier, t
<1>4. i \in 1..n /\ l[i] = x
  BY <1>1, <1>2, <1>3
<1>5. CASE j = n + 1
  BY <1>1, <1>2, <1>3, <1>4, <1>5
<1>6. CASE j \in 1..n
  BY <1>1, <1>2, <1>3, <1>4, <1>6 DEF Earlier
<1> QED
  BY <1>1, <1>3, <1>5, <1>6

LEMMA EarlierInTail ==
  ASSUME NEW l \in RankedItems, l # << >>
  PROVE  /\ \A x, y : Earlier(Tail(l), x, y) => Earlier(l, x, y)
         /\ \A y \in Range(Tail(l)) : Earlier(l, Head(l), y)
<1> DEFINE n == Len(l)
           t == Tail(l)
<1>1. /\ n \in Nat \ {0} /\ DOMAIN l = 1..n /\ Head(l) = l[1]
      /\ DOMAIN t = 1..(n - 1) /\ \A i \in 1..(n - 1) : t[i] = l[i + 1]
  BY TailRanked, RankedItemsAre
<1> HIDE DEF t, n
<1>2. \A i \in 1..(n - 1) : i + 1 \in 1..n /\ 1 < i + 1
  BY <1>1
<1>3. ASSUME NEW x, NEW y, Earlier(t, x, y) PROVE Earlier(l, x, y)
  <2>1. PICK i \in 1..(n - 1), j \in 1..(n - 1) : i < j /\ t[i] = x /\ t[j] = y
    BY <1>1, <1>3 DEF Earlier
  <2>2. i + 1 < j + 1 /\ l[i + 1] = x /\ l[j + 1] = y
    BY <1>1, <2>1
  <2> QED
    BY <1>1, <1>2, <2>2 DEF Earlier
<1>4. ASSUME NEW y \in Range(t) PROVE Earlier(l, Head(l), y)
  <2>1. PICK j \in 1..(n - 1) : t[j] = y
    BY <1>1 DEF Range
  <2>2. l[j + 1] = y /\ 1 \in 1..n
    BY <1>1, <2>1
  <2> QED
    BY <1>1, <1>2, <2>2 DEF Earlier
<1> QED
  BY <1>3, <1>4 DEF t

LEMMA InitOrder == SearchInit => OrderInv
  BY EarlierInEmpty DEF SearchInit, OrderInv, FrontierInOrder, NextInOrder, FoundInOrder

LEMMA FuseOrder == StateInv /\ StateInv' /\ Fuse => OrderInv'
<1> SUFFICES ASSUME StateInv, StateInv', Fuse PROVE OrderInv'
  OBVIOUS
<1>1. /\ found = << >> /\ next = << >> /\ pending = {}
      /\ found' = found /\ next' = next /\ pending' = pending
  BY DEF Fuse, StateInv, Nothing
<1>2. FoundInOrder' /\ NextInOrder'
  BY <1>1, EarlierInEmpty, EmptyRanked DEF FoundInOrder, NextInOrder
<1>3. ASSUME phase' = "expand", NEW x \in Nodes, NEW y \in Nodes, Earlier(frontier', x, y)
      PROVE  Better(fused', origins'[x], origins'[y])
  <2>1. /\ frontier' = SubSeq(fused', 1, SeedCount')
        /\ origins' = [n \in Nodes |-> IF n \in Seeds' THEN {n} ELSE {}]
    BY <1>3 DEF Fuse
  <2>2. fused' \in RankedItems
    BY DEF StateInv, SearchTypeOK
  <2>3. SeedCount' \in 0..Len(fused') /\ Len(fused') \in Nat
    BY <2>2, RankedItemsAre, ConstantsAreNumbers DEF SeedCount, Smaller
  <2>4. /\ DOMAIN frontier' = 1..SeedCount'
        /\ \A i \in 1..SeedCount' : frontier'[i] = fused'[i] /\ i \in 1..Len(fused')
    <3>1. DOMAIN frontier' = 1..SeedCount' /\ \A i \in 1..SeedCount' : frontier'[i] = fused'[i]
      BY <2>1, <2>2, <2>3, SubSeqRanked
    <3>2. \A i \in 1..SeedCount' : i \in 1..Len(fused')
      BY <2>3
    <3> QED
      BY <3>1, <3>2
  <2>5. PICK i \in 1..SeedCount', j \in 1..SeedCount' : i < j /\ frontier'[i] = x /\ frontier'[j] = y
    BY <1>3, <2>4 DEF Earlier
  <2>6. ASSUME NEW r \in 1..SeedCount' PROVE RankIn(fused'[r], fused') = r
    <3>1. r \in 1..Len(fused') /\ fused'[r] \in Range(fused')
      BY <2>2, <2>4, RankedItemsAre
    <3> QED
      BY <2>2, <3>1, RankInIsPlace, RankedItemsAre
  <2>7. RankIn(x, fused') = i /\ RankIn(y, fused') = j
    BY <2>4, <2>5, <2>6
  <2>8. x \in Seeds' /\ y \in Seeds'
    <3>1. Seeds' = {fused'[r] : r \in 1..SeedCount'}
      BY DEF Seeds
    <3> QED
      BY <2>4, <2>5, <3>1
  <2>9. origins'[x] = {x} /\ origins'[y] = {y}
    BY <2>1, <2>8
  <2> QED
    BY <2>3, <2>5, <2>7, <2>9 DEF Better
<1>4. FrontierInOrder'
  BY <1>1, <1>3 DEF FrontierInOrder
<1> QED
  BY <1>2, <1>4 DEF OrderInv

LEMMA FollowOrder == StateInv /\ OrderInv /\ Follow => OrderInv'
<1> SUFFICES ASSUME StateInv, OrderInv, Follow PROVE OrderInv'
  OBVIOUS
<1>1. /\ fused' = fused /\ hop' = hop /\ phase' = phase /\ evidence' = evidence
      /\ origins' = origins /\ next' = next /\ nextOrigins' = nextOrigins /\ found' = found
      /\ phase = "expand" /\ node' = Head(frontier) /\ frontier' = Tail(frontier)
      /\ frontier # << >> /\ frontier \in RankedItems /\ next \in RankedItems
  BY DEF Follow, StateInv, SearchTypeOK
<1>2. /\ Range(frontier) = Range(frontier') \cup {node'} /\ node' \in Nodes
      /\ Range(frontier') \subseteq Nodes
  BY <1>1, TailRanked, RankedItemsAre
<1>3. /\ \A x, y : Earlier(frontier', x, y) => Earlier(frontier, x, y)
      /\ \A y \in Range(frontier') : Earlier(frontier, node', y)
  BY <1>1, EarlierInTail
<1>4. FrontierInOrder'
  BY <1>1, <1>2, <1>3 DEF OrderInv, FrontierInOrder
<1>5. NextInOrder'
  BY <1>1, <1>2 DEF OrderInv, NextInOrder
<1>6. FoundInOrder'
  BY <1>1 DEF OrderInv, FoundInOrder, Supporters
<1> QED
  BY <1>4, <1>5, <1>6 DEF OrderInv

\* A visit that hands nothing on keeps the order of what has support.
LEMMA VisitOrder ==
  ASSUME StateInv, OrderInv, NEW m \in Nodes, Visiting(m),
         hop' = hop, next' = next, nextOrigins' = nextOrigins
  PROVE  FrontierInOrder' /\ NextInOrder'
<1>1. /\ fused' = fused /\ phase' = phase /\ origins' = origins /\ frontier' = frontier /\ node' = node
      /\ pending' # {} => pending # {}
  BY VisitingIsOfNode DEF Visiting
<1> QED
  BY <1>1 DEF OrderInv, FrontierInOrder, NextInOrder

LEMMA PassOverOrder ==
  ASSUME StateInv, OrderInv, NEW m \in Nodes, PassOver(m)
  PROVE  OrderInv'
<1>1. Visiting(m) /\ fused' = fused /\ hop' = hop /\ found' = found /\ evidence' = evidence
      /\ next' = next /\ nextOrigins' = nextOrigins
  BY DEF PassOver, Visiting
<1>2. FoundInOrder'
  BY <1>1 DEF OrderInv, FoundInOrder, Supporters
<1> QED
  BY <1>1, <1>2, VisitOrder DEF OrderInv

LEMMA MeetSeedOrder ==
  ASSUME StateInv, OrderInv, NEW m \in Nodes, MeetSeed(m)
  PROVE  OrderInv'
<1>1. /\ Visiting(m) /\ Support(m) /\ hop[m] = 0 /\ fused' = fused /\ hop' = hop
      /\ next' = next /\ nextOrigins' = nextOrigins
      /\ found' = IF m \in Range(found) THEN found ELSE Append(found, m)
      /\ found \in RankedItems
  BY DEF MeetSeed, Visiting, StateInv, SearchTypeOK
<1>2. \A n \in Nodes \ {m} : Supporters(n)' = Supporters(n)
  BY <1>1, SupportersAdd
<1>3. FoundInOrder'
  <2> SUFFICES ASSUME NEW x \in Nodes, NEW y \in Nodes, Earlier(found', x, y), hop[x] > 0, hop[x] = hop[y]
               PROVE  Better(fused, Supporters(x)', Supporters(y)')
    BY <1>1 DEF FoundInOrder
  <2>1. x # m /\ y # m
    BY <1>1
  <2>2. Earlier(found, x, y)
    BY <1>1, <2>1, EarlierInAppend
  <2> QED
    BY <1>2, <2>1, <2>2 DEF OrderInv, FoundInOrder
<1> QED
  BY <1>1, <1>3, VisitOrder DEF OrderInv

\* What the node hands on is at most as good as what was handed on before.
LEMMA HandedOnInOrder ==
  ASSUME StateInv, OrderInv, NEW m \in Nodes, Visiting(m)
  PROVE  /\ pending # {} /\ phase = "expand" /\ depth \in 1..MaxDepth /\ node \in Nodes
         /\ origins[node] \in SUBSET Seeds
         /\ \A x \in Range(next) : Better(fused, nextOrigins[x], origins[node])
         /\ \A y \in Range(frontier) : Better(fused, origins[node], origins[y])
         /\ Better(fused, origins[node], origins[node])
         /\ Range(next) = {n \in Nodes : hop[n] = depth} /\ Range(frontier) \subseteq Nodes
<1>1. pending # {} /\ phase = "expand" /\ depth \in 1..MaxDepth /\ node \in Nodes
  BY VisitingIsOfNode
<1>2. origins[node] \in SUBSET Seeds
  BY <1>1 DEF StateInv, SearchTypeOK
<1>3. Range(next) = {n \in Nodes : hop[n] = depth}
  BY <1>1 DEF StateInv, Layers
<1>4. Range(frontier) \subseteq Nodes
  BY RankedItemsAre DEF StateInv, SearchTypeOK
<1> QED
  BY <1>1, <1>2, <1>3, <1>4, BetterThanItself DEF OrderInv, FrontierInOrder, NextInOrder

LEMMA MeetAgainOrder ==
  ASSUME StateInv, EvidenceInv, OrderInv, NEW m \in Nodes, MeetAgain(m)
  PROVE  OrderInv'
<1>1. /\ Visiting(m) /\ Support(m) /\ HandedOn(m) /\ hop[m] = depth /\ fused' = fused /\ hop' = hop
      /\ next' = next /\ found' = found /\ phase' = phase /\ origins' = origins
      /\ frontier' = frontier /\ node' = node
  BY DEF MeetAgain, Visiting
<1>2. /\ phase = "expand" /\ depth \in 1..MaxDepth
      /\ \A x \in Range(next) : Better(fused, nextOrigins[x], origins[node])
      /\ Range(next) = {n \in Nodes : hop[n] = depth}
      /\ pending # {} /\ Range(frontier) \subseteq Nodes /\ node \in Nodes
  BY <1>1, HandedOnInOrder
<1>3. /\ Supporters(m)' = Supporters(m) \cup (origins[node] \ {m})
      /\ \A n \in Nodes \ {m} : Supporters(n)' = Supporters(n)
  BY <1>1, SupportersAdd
<1>4. /\ nextOrigins'[m] = nextOrigins[m] \cup origins[node]
      /\ \A n \in Nodes \ {m} : nextOrigins'[n] = nextOrigins[n]
  BY <1>1, HandedOnAdds
<1>5. FrontierInOrder'
  BY <1>1, <1>2 DEF OrderInv, FrontierInOrder
<1>6. ASSUME NEW x \in Nodes, NEW S, Better(fused, nextOrigins[x], S)
      PROVE  Better(fused, nextOrigins'[x], S)
  <2>1. nextOrigins[x] \subseteq nextOrigins'[x]
    BY <1>4
  <2> QED
    BY <1>6, <2>1, BetterGrows
<1>7. NextInOrder'
  <2>1. ASSUME NEW x \in Nodes, NEW y \in Nodes, Earlier(next, x, y)
        PROVE  Better(fused, nextOrigins'[x], nextOrigins'[y])
    <3>1. Better(fused, nextOrigins[x], nextOrigins[y]) /\ Better(fused, nextOrigins[x], origins[node])
      BY <1>2, <2>1, EarlierIsIn DEF OrderInv, NextInOrder
    <3>2. Better(fused, nextOrigins[x], nextOrigins'[y])
      BY <1>4, <3>1, BetterThanBoth
    <3> QED
      BY <1>6, <3>2
  <2>2. ASSUME NEW x \in Range(next), NEW y \in Range(frontier) PROVE Better(fused, nextOrigins'[x], origins[y])
    BY <1>2, <1>6 DEF OrderInv, NextInOrder
  <2>3. ASSUME NEW x \in Range(next) PROVE Better(fused, nextOrigins'[x], origins[node])
    BY <1>2, <1>6 DEF OrderInv, NextInOrder
  <2> QED
    BY <1>1, <2>1, <2>2, <2>3 DEF NextInOrder
<1>8. FoundInOrder'
  <2> SUFFICES ASSUME NEW x \in Nodes, NEW y \in Nodes, Earlier(found, x, y), hop[x] > 0, hop[x] = hop[y]
               PROVE  Better(fused, Supporters(x)', Supporters(y)')
    BY <1>1 DEF FoundInOrder
  <2>1. Better(fused, Supporters(x), Supporters(y))
    BY DEF OrderInv, FoundInOrder
  <2>2. Supporters(x) \subseteq Supporters(x)'
    BY <1>3
  <2>3. Better(fused, Supporters(x), Supporters(y)')
    <3>1. CASE y = m
      <4>1. x \in Range(next) /\ nextOrigins[x] = Supporters(x)
        BY <1>1, <1>2, <3>1 DEF EvidenceInv, HandedSupport
      <4>2. Better(fused, Supporters(x), origins[node])
        BY <1>2, <4>1
      <4>3. Better(fused, Supporters(x), Supporters(y) \cup origins[node])
        BY <2>1, <4>2, BetterThanBoth
      <4>4. Supporters(y)' \subseteq Supporters(y) \cup origins[node]
        BY <1>3, <3>1
      <4> QED
        BY <4>3, <4>4, BetterGrows
    <3>2. CASE y # m
      BY <1>3, <2>1, <3>2
    <3> QED
      BY <3>1, <3>2
  <2> QED
    BY <2>2, <2>3, BetterGrows
<1> QED
  BY <1>5, <1>7, <1>8 DEF OrderInv

LEMMA FindNewOrder ==
  ASSUME StateInv, EvidenceInv, OrderInv, NEW m \in Nodes, FindNew(m)
  PROVE  OrderInv'
<1>1. /\ Visiting(m) /\ Support(m) /\ HandedOn(m) /\ hop[m] = Unknown /\ hop' = [hop EXCEPT ![m] = depth]
      /\ fused' = fused /\ phase' = phase /\ origins' = origins /\ frontier' = frontier /\ node' = node
      /\ found' = Append(found, m) /\ next' = Append(next, m)
      /\ found \in RankedItems /\ next \in RankedItems
  BY DEF FindNew, Visiting, StateInv, SearchTypeOK
<1>2. /\ phase = "expand" /\ depth \in 1..MaxDepth
      /\ \A x \in Range(next) : Better(fused, nextOrigins[x], origins[node])
      /\ \A y \in Range(frontier) : Better(fused, origins[node], origins[y])
      /\ Better(fused, origins[node], origins[node])
      /\ Range(next) = {n \in Nodes : hop[n] = depth}
      /\ pending # {} /\ Range(frontier) \subseteq Nodes /\ node \in Nodes
  BY <1>1, HandedOnInOrder
<1>3. /\ Supporters(m)' = Supporters(m) \cup (origins[node] \ {m})
      /\ \A n \in Nodes \ {m} : Supporters(n)' = Supporters(n)
  BY <1>1, SupportersAdd
<1>4. /\ nextOrigins'[m] = nextOrigins[m] \cup origins[node]
      /\ \A n \in Nodes \ {m} : nextOrigins'[n] = nextOrigins[n]
  BY <1>1, HandedOnAdds
<1>5. hop'[m] = depth /\ \A n \in Nodes \ {m} : hop'[n] = hop[n]
  BY <1>1 DEF StateInv, SearchTypeOK
<1>6. m \notin Range(found) /\ m \notin Range(next)
  BY <1>1, <1>2 DEF StateInv, Candidates, Unknown
<1>7. nextOrigins[m] = {} /\ Supporters(m) = {}
  <2>1. evidence[m] = {}
    BY <1>1, <1>6 DEF StateInv, Candidates
  <2>2. Supporters(m) = {}
    BY <2>1 DEF Supporters
  <2> QED
    BY <1>1, <1>2, <2>2 DEF EvidenceInv, HandedSupport
<1>8. FrontierInOrder'
  BY <1>1, <1>2 DEF OrderInv, FrontierInOrder
<1>9. NextInOrder'
  <2>1. ASSUME NEW x \in Nodes, NEW y \in Nodes, Earlier(next', x, y)
        PROVE  Better(fused, nextOrigins'[x], nextOrigins'[y])
    <3>1. CASE Earlier(next, x, y)
      <4>1. x # m /\ y # m
        BY <1>6, <3>1, EarlierIsIn
      <4> QED
        BY <1>2, <1>4, <3>1, <4>1 DEF OrderInv, NextInOrder
    <3>2. CASE x \in Range(next) /\ y = m
      <4>1. x # m
        BY <1>6, <3>2
      <4> QED
        BY <1>2, <1>4, <1>7, <3>2, <4>1
    <3> QED
      BY <1>1, <1>6, <2>1, <3>1, <3>2, EarlierInAppend
  <2>2. Range(next') = Range(next) \cup {m} /\ Range(next) \subseteq Nodes
    BY <1>1, <1>6, AppendRanked, RankedItemsAre
  <2>3. ASSUME NEW x \in Range(next'), NEW y \in Range(frontier) PROVE Better(fused, nextOrigins'[x], origins[y])
    <3>1. CASE x = m
      BY <1>2, <1>4, <1>7, <3>1
    <3>2. CASE x # m
      BY <1>2, <1>4, <2>2, <3>2 DEF OrderInv, NextInOrder
    <3> QED
      BY <3>1, <3>2
  <2>4. ASSUME NEW x \in Range(next') PROVE Better(fused, nextOrigins'[x], origins[node])
    <3>1. CASE x = m
      BY <1>2, <1>4, <1>7, <3>1
    <3>2. CASE x # m
      BY <1>2, <1>4, <2>2, <3>2
    <3> QED
      BY <3>1, <3>2
  <2> QED
    BY <1>1, <2>1, <2>3, <2>4 DEF NextInOrder
<1>10. FoundInOrder'
  <2> SUFFICES ASSUME NEW x \in Nodes, NEW y \in Nodes, Earlier(found', x, y), hop'[x] > 0, hop'[x] = hop'[y]
               PROVE  Better(fused, Supporters(x)', Supporters(y)')
    BY <1>1 DEF FoundInOrder
  <2>1. CASE Earlier(found, x, y)
    <3>1. x # m /\ y # m
      BY <1>6, <2>1, EarlierIsIn
    <3> QED
      BY <1>3, <1>5, <2>1, <3>1 DEF OrderInv, FoundInOrder
  <2>2. CASE x \in Range(found) /\ y = m
    <3>1. x # m
      BY <1>6, <2>2
    <3>2. hop[x] = depth
      BY <1>5, <2>2, <3>1
    <3>3. x \in Range(next) /\ nextOrigins[x] = Supporters(x)
      BY <1>2, <3>2 DEF EvidenceInv, HandedSupport
    <3>4. Better(fused, Supporters(x)', origins[node])
      BY <1>2, <1>3, <3>1, <3>3
    <3>5. Supporters(y)' \subseteq origins[node]
      BY <1>3, <1>7, <2>2
    <3> QED
      BY <3>4, <3>5, BetterGrows
  <2> QED
    BY <1>1, <1>6, <2>1, <2>2, EarlierInAppend
<1> QED
  BY <1>8, <1>9, <1>10 DEF OrderInv

LEMMA DeepenOrder == StateInv /\ OrderInv /\ Deepen => OrderInv'
<1> SUFFICES ASSUME StateInv, OrderInv, Deepen PROVE OrderInv'
  OBVIOUS
<1>1. /\ fused' = fused /\ hop' = hop /\ evidence' = evidence /\ found' = found
      /\ frontier' = next /\ origins' = nextOrigins /\ next' = << >>
      /\ phase = "expand" /\ pending' = {}
  BY DEF Deepen, FrontierDone
<1>2. FrontierInOrder'
  BY <1>1 DEF OrderInv, FrontierInOrder, NextInOrder
<1>3. NextInOrder'
  BY <1>1, EarlierInEmpty, EmptyRanked DEF NextInOrder
<1>4. FoundInOrder'
  BY <1>1 DEF OrderInv, FoundInOrder, Supporters
<1> QED
  BY <1>2, <1>3, <1>4 DEF OrderInv

LEMMA LastOrder ==
  ASSUME OrderInv, FuseAgain \/ Rerank \/ RerankFails \/ FailFirstStage \/ UNCHANGED searchVars
  PROVE  OrderInv'
<1>1. /\ fused' = fused /\ UNCHANGED expandVars
      /\ phase' = phase \/ phase' # "expand"
  BY DEF FuseAgain, Rerank, RerankFails, FailFirstStage, searchVars
<1>2. /\ hop' = hop /\ node' = node /\ pending' = pending /\ frontier' = frontier /\ found' = found
      /\ evidence' = evidence /\ origins' = origins /\ next' = next /\ nextOrigins' = nextOrigins
  BY <1>1 DEF expandVars
<1>3. FoundInOrder'
  BY <1>1, <1>2 DEF OrderInv, FoundInOrder, Supporters
<1> QED
  BY <1>1, <1>2, <1>3 DEF OrderInv, FrontierInOrder, NextInOrder

LEMMA NextOrder ==
  StateInv /\ StateInv' /\ EvidenceInv /\ OrderInv /\ [SearchNext]_searchVars => OrderInv'
  BY FuseOrder, FollowOrder, PassOverOrder, FindNewOrder, MeetSeedOrder, MeetAgainOrder, DeepenOrder,
     LastOrder DEF SearchNext, Visit

\* The best seed of a candidate is one of its supporters, and none is better.
LEMMA BestSeedRankIs ==
  ASSUME StateInv, NEW c \in Range(found)
  PROVE  /\ \E o \in Supporters(c) : BestSeedRank(c) = RankIn(o, fused)
         /\ \A o \in Supporters(c) : RankIn(o, fused) \in Nat /\ BestSeedRank(c) <= RankIn(o, fused)
<1> DEFINE R == {SeedRank(o) : o \in Supporters(c)}
<1>1. c \in Nodes
  BY RankedItemsAre DEF StateInv, SearchTypeOK
<1>2. evidence[c] # {}
  BY DEF StateInv, Candidates
<1>3. Supporters(c) \subseteq Seeds /\ Supporters(c) # {}
  BY <1>1, <1>2, EntryIs DEF Supporters
<1>4. \A o \in Supporters(c) : SeedRank(o) = RankIn(o, fused) /\ RankIn(o, fused) \in 1..Len(fused)
  BY <1>3, SeedsRank DEF SeedRank
<1>5. Len(fused) \in Nat
  BY <1>3, SeedsRank
<1>6. R \in SUBSET (0..Len(fused)) /\ R # {}
  BY <1>3, <1>4, <1>5
<1>7. BestSeedRank(c) = Min(R)
  BY DEF BestSeedRank
<1> HIDE DEF R
<1>8. BestSeedRank(c) \in R /\ \A j \in R : BestSeedRank(c) <= j
  <2>1. Min(R) \in R /\ \A j \in R : Min(R) <= j
    BY <1>5, <1>6, MinIsLeast
  <2> QED
    BY <1>7, <2>1
<1> QED
  BY <1>4, <1>5, <1>8 DEF R

(* The candidates of one hop are found in the order of their best seeds, so that *)
(* the cap cuts the worst (graph.py expand). *)
THEOREM SearchBetterSeedsFirst == SearchSpec => []BetterSeedsFirst
<1>1. StateInv /\ OrderInv => BetterSeedsFirst
  <2> SUFFICES ASSUME StateInv, OrderInv, NEW i \in DOMAIN found, NEW j \in DOMAIN found,
                      i < j, hop[found[i]] = hop[found[j]], hop[found[i]] > 0
               PROVE  BestSeedRank(found[i]) <= BestSeedRank(found[j])
    BY DEF BetterSeedsFirst
  <2> DEFINE x == found[i]
             y == found[j]
  <2>1. x \in Range(found) /\ y \in Range(found) /\ x \in Nodes /\ y \in Nodes
    BY RankedItemsAre DEF StateInv, SearchTypeOK, Range
  <2>2. Earlier(found, x, y)
    BY DEF Earlier
  <2> HIDE DEF x, y
  <2>3. Better(fused, Supporters(x), Supporters(y))
    <3>1. hop[x] = hop[y] /\ hop[x] > 0
      BY DEF x, y
    <3> QED
      BY <2>1, <2>2, <3>1 DEF OrderInv, FoundInOrder
  <2>4. PICK t \in Supporters(y) : BestSeedRank(y) = RankIn(t, fused) /\ RankIn(t, fused) \in Nat
    BY <2>1, BestSeedRankIs
  <2>5. PICK s \in Supporters(x) : RankIn(s, fused) <= RankIn(t, fused)
    BY <2>3 DEF Better
  <2>6. BestSeedRank(x) <= RankIn(s, fused) /\ RankIn(s, fused) \in Nat /\ BestSeedRank(x) \in Nat
    BY <2>1, BestSeedRankIs
  <2>7. BestSeedRank(x) <= BestSeedRank(y)
    BY <2>4, <2>5, <2>6
  <2> QED
    BY <2>7 DEF x, y
<1>2. SearchInit => OrderInv
  BY InitOrder
<1> QED
  BY AlwaysEvidence, NextState, NextOrder, <1>1, <1>2, PTL DEF SearchSpec
=============================================================================
