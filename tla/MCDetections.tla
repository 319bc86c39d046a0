---------------------------- MODULE MCDetections ----------------------------
(* Small instances of Detections for TLC. *)
EXTENDS Detections, TLC

(* Paths and processes are interchangeable (without liveness). *)
Interchangeable == Permutations(Path) \cup Permutations(Reviewer) \cup Permutations(Scanner)
=============================================================================
