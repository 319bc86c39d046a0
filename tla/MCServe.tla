------------------------------- MODULE MCServe -------------------------------
(* Small instances of Serve for TLC. *)
EXTENDS Serve, TLC
=============================================================================
