----------------------------- MODULE MCRateLimit -----------------------------
(* Small instances of RateLimit for TLC. *)
EXTENDS RateLimit, TLC

(* Addresses and callers are interchangeable. *)
Interchangeable == Permutations(Addr) \cup Permutations(Caller)
=============================================================================
