-------------------------- MODULE MCEmbeddingJobs --------------------------
(* Small instances of EmbeddingJobs. *)
EXTENDS EmbeddingJobs, TLC

\* Workers, contents and versions are interchangeable each among themselves.
Symmetry == Permutations(Workers) \cup Permutations(Contents) \cup Permutations(Versions)
=============================================================================
