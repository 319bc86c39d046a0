------------------------------ MODULE MCHashDb ------------------------------
(* Small instances of HashDb for TLC. *)
EXTENDS HashDb, TLC

(* Digests, labels and processes are interchangeable. *)
Interchangeable == Permutations(Digest) \cup Permutations(Label) \cup Permutations(Proc)
=============================================================================
