------------------------------ MODULE MCWatcher ------------------------------
(* Small instances of Watcher for TLC. *)
EXTENDS Watcher, TLC

(* Paths and timers are interchangeable (for the runs without liveness). *)
Interchangeable == Permutations(Path) \cup Permutations(Timer)
=============================================================================
