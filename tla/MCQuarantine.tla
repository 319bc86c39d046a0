---------------------------- MODULE MCQuarantine ----------------------------
(* Small instances of Quarantine for TLC. *)
EXTENDS Quarantine, TLC

(* Processes, inodes and contents are interchangeable. *)
Interchangeable == Permutations(Proc) \cup Permutations(Inode)
=============================================================================
