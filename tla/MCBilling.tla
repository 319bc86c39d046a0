------------------------------ MODULE MCBilling ------------------------------
(* Small instances of Billing for TLC. *)
EXTENDS Billing, TLC

(* Handlers, subscriptions and tabs are interchangeable (without liveness). *)
Interchangeable == Permutations(Handler) \cup Permutations(Sub) \cup Permutations(Tab)
=============================================================================
