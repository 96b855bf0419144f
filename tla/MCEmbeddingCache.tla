-------------------------- MODULE MCEmbeddingCache --------------------------
(***************************************************************************)
(* Instances of EmbeddingCache for TLC: a sentence-transformers model and  *)
(* the hashing encoder, whose info does not name its prefix.               *)
(***************************************************************************)
EXTENDS EmbeddingCache

Bge(p)  == [model |-> "bge", prefix |-> p]
Hash(p) == [model |-> "hashing", prefix |-> p]

Hashing == {Hash(""), Hash("doc")}
Three   == {Bge("")} \cup Hashing
=============================================================================
