----------------------------- MODULE MCAccounts -----------------------------
(* Small instances of Accounts for TLC. *)
EXTENDS Accounts, TLC

(* Browsers, emails, tokens and requests are interchangeable. *)
Interchangeable == Permutations(Browser) \cup Permutations(Email)
                   \cup Permutations(Token) \cup Permutations(Request)
=============================================================================
